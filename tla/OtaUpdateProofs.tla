--------------------------- MODULE OtaUpdateProofs ---------------------------
(***************************************************************************)
(* Invariants of OtaUpdate for every set of versions, firmware and urls,   *)
(* every response to the request for a password, every size of the         *)
(* buffers and every bound, with commands processed within commands to any *)
(* depth.                                                                  *)
(***************************************************************************)
EXTENDS OtaUpdate, HttpRequestProofs

-----------------------------------------------------------------------------
(* Exchanges.                                                              *)

Nets == [secured : BOOLEAN, fd : {"none", "open", "closed"}, contexts : BOOLEAN,
         session : {"none", "begun", "up"}, connected : BOOLEAN]

ExchangeFields ==
  {"fn", "pc", "method", "secured", "request", "net", "connect", "callback", "wire", "whole", "link",
   "buffer", "left", "parser", "received", "expired", "given", "later", "disturbed", "cuts"}

Calling == {"called", "reporting", "callback"}
Performing == {"connect", "write", "header", "identity", "chunk"} \cup Calling

IsExchange(f) ==
  /\ DOMAIN f = ExchangeFields /\ f.net \in Nets
  /\ f.method \in {"POST", "HEAD", "GET"} /\ f.callback = (f.method = "GET")
  /\ f.fn \in {"perform", "returned"}
  /\ f.fn = "perform" => f.pc \in Performing
  /\ f.fn = "returned" => f.pc = "returned"
  /\ f.pc \in Calling => f.callback
  /\ f.fn = "returned" /\ f.received # SEND_PACK_FAILED /\ f.method # "HEAD" => Released(f.net)

\* Where an exchange has its request in the buffer.
Asking == {"connect", "write"}

\* What an exchange keeps: its request as long as it is not written.
Same(f, g) ==
  /\ g.method = f.method /\ g.callback = f.callback /\ g.secured = f.secured
  /\ g.whole = f.whole
  /\ g.pc \in Asking => f.pc \in Asking /\ g.request = f.request

\* A return gives the connection back, unless it asked for a length or could not write.
LEMMA Returns ==
  ASSUME NEW f, IsExchange(f), f.fn = "perform", NEW result, NEW disconnects \in BOOLEAN,
         disconnects \/ f.method = "HEAD" \/ result = SEND_PACK_FAILED
  PROVE  /\ IsExchange(Return(f, result, disconnects)) /\ Same(f, Return(f, result, disconnects))
         /\ Return(f, result, disconnects).fn = "returned"
         /\ Return(f, result, disconnects).received = result
<1> DEFINE g == Return(f, result, disconnects)
<1>1. /\ DOMAIN g = ExchangeFields /\ Same(f, g) /\ g.fn = "returned" /\ g.pc = "returned"
      /\ g.received = result /\ g.net = IF disconnects THEN Disconnected(f.net) ELSE f.net
  BY DEF IsExchange, ExchangeFields, Return, Same, Asking
<1>2. Disconnected(f.net) \in Nets /\ Released(Disconnected(f.net))
  BY DEF IsExchange, Nets, Disconnected, Released
<1> HIDE DEF g
<1>3. IsExchange(g)
  BY <1>1, <1>2 DEF IsExchange, Same, Asking, Calling
<1> QED
  BY <1>1, <1>3 DEF g

\* The frames that may follow a read, one kind of loop at a time.
LEMMA ReadCases ==
  ASSUME NEW f, Reading(f), NEW early \in BOOLEAN, NEW g \in AfterRead(f, early)
  PROVE  \/ /\ f.pc = "header"
            /\ \E n \in Reads(f, Size(f) - f.left, early) : \E b \in Memory : g = ReadHeader(f, n, b)
         \/ f.pc = "callback" /\ \E n \in Reads(f, Size(f) - 1, early) : g = ReadForCallback(f, n)
         \/ /\ f.pc = "identity"
            /\ \/ g = IdentityEnds(f) /\ f.received >= f.parser.length
               \/ /\ ~(f.received >= f.parser.length)
                  /\ \E n \in Reads(f, Size(f) - f.received, early) : g = ReadIdentity(f, n)
         \/ /\ f.pc = "chunk"
            /\ \/ \E b \in Memory : g = ChunksEnd(f, b)
               \/ \E n \in Reads(f, Size(f) - f.received, early) : \E b \in Memory : g = ReadChunk(f, n, b)
<1>1. \A received : Beyond(f, received) \subseteq Memory
  BY DEF Beyond, Memory
<1>2. CASE f.pc = "header"
  <2>1. g \in UNION {{ReadHeader(f, n, b) : b \in Beyond(f, n + f.left)} : n \in Reads(f, Size(f) - f.left, early)}
    BY <1>2 DEF AfterRead
  <2> QED
    BY <1>1, <1>2, <2>1
<1>3. CASE f.pc = "callback"
  <2>1. g \in {ReadForCallback(f, n) : n \in Reads(f, Size(f) - 1, early)}
    BY <1>3 DEF AfterRead
  <2> QED
    BY <1>3, <2>1
<1>4. CASE f.pc = "identity"
  <2>1. g \in IF f.received >= f.parser.length THEN {IdentityEnds(f)}
              ELSE {ReadIdentity(f, n) : n \in Reads(f, Size(f) - f.received, early)}
    BY <1>4 DEF AfterRead
  <2> QED
    BY <1>4, <2>1
<1>5. CASE f.pc = "chunk"
  <2> DEFINE whole == {ChunksEnd(f, b) : b \in {x \in Beyond(f, f.received) :
                                                  IsCompleteChunk(f.buffer, f.received, x)}}
             more == UNION {{ReadChunk(f, n, b) : b \in Beyond(f, f.received + n)} :
                              n \in Reads(f, Size(f) - f.received, early)}
  <2>1. g \in whole \cup more
    BY <1>5 DEF AfterRead
  <2>2. CASE g \in whole
    BY <1>1, <1>5, <2>2
  <2>3. CASE g \in more
    BY <1>1, <1>5, <2>3
  <2> QED
    BY <2>1, <2>2, <2>3
<1> QED
  BY <1>2, <1>3, <1>4, <1>5 DEF Reading

\* A step of an exchange.
Steps(f, g) == IsExchange(g) /\ Same(f, g)
\* One that does not return.
Goes(f, g) == Steps(f, g) /\ g.fn = "perform"

LEMMA StepsAgain == ASSUME NEW f, NEW g, NEW h, Steps(f, g), Steps(g, h) PROVE Steps(f, h)
  BY DEF Steps, Same, Asking

LEMMA ReturnSteps ==
  ASSUME NEW f, IsExchange(f), f.fn = "perform", NEW result
  PROVE  Steps(f, Return(f, result, TRUE)) /\ (f.method = "HEAD" => Steps(f, Return(f, result, FALSE)))
  BY Returns DEF Steps

LEMMA TookSteps ==
  ASSUME NEW f, IsExchange(f), f.fn = "perform", NEW n, NEW at, NEW len
  PROVE  Goes(f, Took(f, n, at, len)) /\ Took(f, n, at, len).pc = f.pc
  BY DEF IsExchange, ExchangeFields, Goes, Steps, Same, Asking, Took

LEMMA BodyBeginsSteps ==
  ASSUME NEW f, IsExchange(f), f.fn = "perform"
  PROVE  Steps(f, BodyBegins(f))
<1> DEFINE g == [f EXCEPT !.received = f.left]
           called == [g EXCEPT !.pc = "called", !.given = SubSeq(f.buffer, 1, f.left)]
           other == [g EXCEPT !.pc = IF f.parser.chunked THEN "chunk" ELSE "identity"]
<1>1. Goes(f, g)
  BY DEF IsExchange, ExchangeFields, Goes, Steps, Same, Asking
<1>2. f.callback => Steps(f, called)
  BY DEF IsExchange, ExchangeFields, Steps, Same, Asking, Performing, Calling
<1>3. Steps(f, other)
  BY DEF IsExchange, ExchangeFields, Steps, Same, Asking, Performing, Calling
<1>4. \/ f.method = "HEAD" /\ BodyBegins(f) = Return(g, TC_IOT_SUCCESS, FALSE)
      \/ BodyBegins(f) = Return(g, BUFFER_OVERFLOW, TRUE)
      \/ f.callback /\ BodyBegins(f) = called
      \/ BodyBegins(f) = other
  BY DEF BodyBegins
<1> HIDE DEF g, called, other
<1>5. /\ g.method = "HEAD" => Steps(g, Return(g, TC_IOT_SUCCESS, FALSE))
      /\ Steps(g, Return(g, BUFFER_OVERFLOW, TRUE))
  BY <1>1, ReturnSteps DEF Goes, Steps
<1>6. f.method = "HEAD" => Steps(f, Return(g, TC_IOT_SUCCESS, FALSE))
  BY <1>1, <1>5, StepsAgain DEF Goes, Steps, Same, Asking
<1>7. Steps(f, Return(g, BUFFER_OVERFLOW, TRUE))
  BY <1>1, <1>5, StepsAgain DEF Goes
<1> QED
  BY <1>2, <1>3, <1>4, <1>6, <1>7

LEMMA HeaderParsedSteps ==
  ASSUME NEW f, IsExchange(f), f.fn = "perform", NEW a, NEW read
  PROVE  Steps(f, HeaderParsed(f, a, read))
<1> DEFINE left == read - a.parsed
           moved == IF left = 0 THEN f.buffer
                    ELSE PutNul(Put(f.buffer, 0, SubSeq(f.buffer, a.parsed + 1, read)), left)
           h == [f EXCEPT !.parser = a.parser, !.left = left, !.buffer = moved]
<1>1. Goes(f, h)
  <2> HIDE DEF left, moved
  <2> QED
    BY DEF IsExchange, ExchangeFields, Goes, Steps, Same, Asking
<1>2. \/ HeaderParsed(f, a, read) = Return(f, TC_IOT_FAILURE, TRUE)
      \/ HeaderParsed(f, a, read) = Return(h, REQUEST_FAILED, TRUE)
      \/ HeaderParsed(f, a, read) = BodyBegins(h)
      \/ HeaderParsed(f, a, read) = Return(h, read, TRUE)
      \/ HeaderParsed(f, a, read) = h
  BY DEF HeaderParsed
<1> HIDE DEF h
<1>3. Steps(f, Return(f, TC_IOT_FAILURE, TRUE))
  BY ReturnSteps
<1>4. Steps(h, Return(h, REQUEST_FAILED, TRUE)) /\ Steps(h, Return(h, read, TRUE)) /\ Steps(h, BodyBegins(h))
  BY <1>1, ReturnSteps, BodyBeginsSteps DEF Goes, Steps
<1>5. Steps(f, h)
  BY <1>1 DEF Goes
<1>6. Steps(f, Return(h, REQUEST_FAILED, TRUE)) /\ Steps(f, Return(h, read, TRUE))
  BY <1>4, <1>5, StepsAgain
<1>7. Steps(f, BodyBegins(h))
  BY <1>4, <1>5, StepsAgain
<1> QED
  BY <1>2, <1>3, <1>5, <1>6, <1>7

\* What is parsed: the frame after the read, and the analysis of what is in its buffer.
Nulled(f, n) == [Took(f, n, f.left, Size(f) - f.left) EXCEPT !.buffer = PutNul(@, n + f.left)]
Analysed(f, n, beyond) ==
  Analysis(f.parser, SubSeq(f.buffer, 1, f.left) \o SubSeq(f.wire, 1, n),
           IF n + f.left < Size(f) THEN "NUL" ELSE beyond)

LEMMA ParseHeaderIs ==
  ASSUME NEW f, NEW n, NEW beyond
  PROVE  ParseHeader(f, n, beyond) = HeaderParsed(Nulled(f, n), Analysed(f, n, beyond), n + f.left)
<1> DEFINE took == Took(f, n, f.left, Size(f) - f.left)
           a == Analysed(f, n, beyond)
           read == n + f.left
           result(g, x) == HeaderParsed([g EXCEPT !.buffer = PutNul(@, read)], x, read)
<1>1. ParseHeader(f, n, beyond) = Only({result(g, x) : g \in {took}, x \in {a}})
  BY DEF ParseHeader, Analysed
<1>2. result(took, a) = HeaderParsed(Nulled(f, n), a, read)
  BY DEF Nulled
<1> HIDE DEF result, took, a
<1>3. {result(g, x) : g \in {took}, x \in {a}} = {result(took, a)}
  OBVIOUS
<1>4. Only({result(took, a)}) = result(took, a)
  BY OnlyOne
<1>5. ParseHeader(f, n, beyond) = HeaderParsed(Nulled(f, n), a, read)
  BY <1>1, <1>2, <1>3, <1>4
<1> QED
  BY <1>5 DEF a, read

LEMMA ReadHeaderSteps ==
  ASSUME NEW f, IsExchange(f), f.fn = "perform", NEW n, NEW beyond
  PROVE  Steps(f, ReadHeader(f, n, beyond))
<1> DEFINE g == Nulled(f, n)
<1>1. Goes(f, g)
  <2> DEFINE took == Took(f, n, f.left, Size(f) - f.left)
  <2>1. Goes(f, took)
    BY TookSteps
  <2>2. g = [took EXCEPT !.buffer = PutNul(@, n + f.left)]
    BY DEF Nulled
  <2> HIDE DEF took, g
  <2> QED
    BY <2>1, <2>2 DEF IsExchange, ExchangeFields, Goes, Steps, Same, Asking
<1> HIDE DEF g
<1>2. Steps(g, HeaderParsed(g, Analysed(f, n, beyond), n + f.left))
  BY <1>1, HeaderParsedSteps DEF Goes, Steps
<1>3. Steps(f, ParseHeader(f, n, beyond))
  BY <1>1, <1>2, ParseHeaderIs, StepsAgain DEF Goes, g
<1>4. Steps(f, f)
  BY DEF Steps, Same, Asking
<1> QED
  BY <1>3, <1>4, ReturnSteps DEF ReadHeader

LEMMA CallbackReturnsSteps ==
  ASSUME NEW f, IsExchange(f), f.fn = "perform", f.callback
  PROVE  Steps(f, CallbackReturns(f))
<1> DEFINE received == f.received + (IF f.later THEN f.connect ELSE 0)
           goes == [f EXCEPT !.pc = "callback", !.received = received]
<1>1. Steps(f, goes)
  <2> HIDE DEF received
  <2> QED
    BY DEF IsExchange, ExchangeFields, Steps, Same, Asking, Performing, Calling
<1>2. \/ CallbackReturns(f) = goes
      \/ \E result : CallbackReturns(f) = Return(f, result, TRUE)
  BY DEF CallbackReturns
<1> QED
  BY <1>1, <1>2, ReturnSteps

LEMMA ReadForCallbackSteps ==
  ASSUME NEW f, IsExchange(f), f.fn = "perform", f.callback, NEW n
  PROVE  Steps(f, ReadForCallback(f, n))
<1> DEFINE took == Took(f, n, 0, Size(f) - 1)
           goes == [took EXCEPT !.buffer = f.buffer, !.pc = "called", !.received = @ + n,
                                !.given = SubSeq(f.wire, 1, n), !.later = TRUE]
<1>1. Goes(f, took)
  BY TookSteps
<1> HIDE DEF took
<1>2. Steps(f, goes)
  BY <1>1 DEF IsExchange, ExchangeFields, Goes, Steps, Same, Asking, Performing, Calling
<1>3. ReadForCallback(f, n) = goes \/ ReadForCallback(f, n) = f \/ ReadForCallback(f, n) = Return(f, n, TRUE)
  BY DEF ReadForCallback, took
<1>4. Steps(f, f)
  BY DEF Steps, Same, Asking
<1> QED
  BY <1>2, <1>3, <1>4, ReturnSteps

LEMMA ReadIdentitySteps ==
  ASSUME NEW f, IsExchange(f), f.fn = "perform", NEW n
  PROVE  Steps(f, IdentityEnds(f)) /\ Steps(f, ReadIdentity(f, n))
<1> DEFINE took == Took(f, n, f.received, Size(f) - f.received)
           more == [took EXCEPT !.received = @ + n]
<1>1. ASSUME NEW g, IsExchange(g), g.fn = "perform" PROVE Steps(g, IdentityEnds(g))
  BY <1>1, ReturnSteps DEF IdentityEnds, Steps, Same, Asking
<1>2. Goes(f, more)
  <2>1. Goes(f, took)
    BY TookSteps
  <2> HIDE DEF took
  <2> QED
    BY <2>1 DEF IsExchange, ExchangeFields, Goes, Steps, Same, Asking
<1>3. \/ ReadIdentity(f, n) = IdentityEnds(more)
      \/ ReadIdentity(f, n) = f
      \/ ReadIdentity(f, n) = Return(f, n, TRUE)
  BY DEF ReadIdentity
<1> HIDE DEF more
<1>4. Steps(more, IdentityEnds(more))
  BY <1>1, <1>2 DEF Goes, Steps
<1>5. Steps(f, IdentityEnds(more))
  BY <1>2, <1>4, StepsAgain DEF Goes
<1>6. Steps(f, f)
  BY DEF Steps, Same, Asking
<1> QED
  BY <1>1, <1>3, <1>5, <1>6, ReturnSteps

LEMMA ReadChunkSteps ==
  ASSUME NEW f, IsExchange(f), f.fn = "perform", NEW n, NEW beyond
  PROVE  Steps(f, ChunksEnd(f, beyond)) /\ Steps(f, ReadChunk(f, n, beyond))
<1> DEFINE took == Took(f, n, f.received, Size(f) - f.received)
           more == [took EXCEPT !.received = @ + n]
<1>1. ASSUME NEW g, IsExchange(g), g.fn = "perform" PROVE Steps(g, ChunksEnd(g, beyond))
  <2> DEFINE merged == MergeChunk(g.buffer, g.received, beyond)
             h == [g EXCEPT !.buffer = PutNul(Put(@, 0, merged.body), Len(merged.body))]
             ends(m) == IF m.pos # g.received \/ m.body = <<>> \/ ~m.ended
                        THEN Return(g, INVALID_CHUNK_FORMAT, TRUE)
                        ELSE Return([g EXCEPT !.buffer = PutNul(Put(@, 0, m.body), Len(m.body))],
                                    g.received, TRUE)
  <2>1. Goes(g, h)
    BY <1>1 DEF IsExchange, ExchangeFields, Goes, Steps, Same, Asking
  <2>2. ends(merged) = Return(g, INVALID_CHUNK_FORMAT, TRUE) \/ ends(merged) = Return(h, g.received, TRUE)
    OBVIOUS
  <2>3. ChunksEnd(g, beyond) = g \/ ChunksEnd(g, beyond) = Only({ends(m) : m \in {merged}})
    BY DEF ChunksEnd
  <2> HIDE DEF ends, merged, h
  <2>4. {ends(m) : m \in {merged}} = {ends(merged)}
    OBVIOUS
  <2>5. Only({ends(merged)}) = ends(merged)
    BY OnlyOne
  <2>6. Steps(h, Return(h, g.received, TRUE))
    BY <2>1, ReturnSteps DEF Goes, Steps
  <2>7. Steps(g, Return(h, g.received, TRUE))
    BY <2>1, <2>6, StepsAgain DEF Goes
  <2>8. Steps(g, g)
    BY <1>1 DEF Steps, Same, Asking
  <2>9. Steps(g, Return(g, INVALID_CHUNK_FORMAT, TRUE))
    BY <1>1, ReturnSteps
  <2> QED
    BY <2>2, <2>3, <2>4, <2>5, <2>7, <2>8, <2>9
<1>2. Goes(f, more)
  <2>1. Goes(f, took)
    BY TookSteps
  <2> HIDE DEF took
  <2> QED
    BY <2>1 DEF IsExchange, ExchangeFields, Goes, Steps, Same, Asking
<1>3. \/ ReadChunk(f, n, beyond) = ChunksEnd(more, beyond)
      \/ ReadChunk(f, n, beyond) = f
      \/ ReadChunk(f, n, beyond) = Return(f, n, TRUE)
  BY DEF ReadChunk
<1> HIDE DEF more
<1>4. Steps(more, ChunksEnd(more, beyond))
  BY <1>1, <1>2 DEF Goes, Steps
<1>5. Steps(f, ChunksEnd(more, beyond))
  BY <1>2, <1>4, StepsAgain DEF Goes
<1>6. Steps(f, f)
  BY DEF Steps, Same, Asking
<1> QED
  BY <1>1, <1>3, <1>5, <1>6, ReturnSteps

\* A read is a step, as connecting, writing, waiting and breaking are.
LEMMA ReadSteps ==
  ASSUME NEW f, IsExchange(f), Reading(f), NEW early \in BOOLEAN, NEW g \in AfterRead(f, early)
  PROVE  Steps(f, g)
<1>1. f.fn = "perform" /\ (f.pc = "callback" => f.callback)
  BY DEF Reading, IsExchange, Calling
<1> QED
  BY <1>1, ReadCases, ReadHeaderSteps, ReadForCallbackSteps, ReadIdentitySteps, ReadChunkSteps

LEMMA WireSteps ==
  ASSUME NEW f, IsExchange(f), f.fn = "perform"
  PROVE  /\ f.pc = "connect" => \A c \in Connects(f.net) : Goes(f, Connected(f, c)) /\ c.net \in Nets
         /\ \A net \in Writes(f.net) : Steps(f, Written(f, net)) /\ net \in Nets
         /\ Goes(f, [f EXCEPT !.expired = TRUE])
         /\ \A l, k : Goes(f, Broken(f, l, k))
<1>1. f.net \in Nets
  BY DEF IsExchange
<1>2. ASSUME f.pc = "connect", NEW c \in Connects(f.net) PROVE Goes(f, Connected(f, c)) /\ c.net \in Nets
  <2>1. c.net \in Nets
    <3> DEFINE begun == [f.net EXCEPT !.contexts = TRUE]
               reached == [begun EXCEPT !.fd = "open", !.connected = TRUE]
    <3>1. CASE ~f.net.secured
      <4>1. c \in SocketConnects(f.net)
        BY <1>2, <3>1 DEF Connects
      <4>2. \/ c.net = f.net
            \/ c.net = [f.net EXCEPT !.fd = "open"]
            \/ c.net = [f.net EXCEPT !.fd = "open", !.session = "up", !.connected = TRUE]
        BY <4>1 DEF SocketConnects
      <4> QED
        BY <1>1, <4>2 DEF Nets
    <3>2. CASE f.net.secured
      <4>1. \/ c.net = begun \/ c.net = reached
            \/ \E s \in {"none", "begun", "up"} : c.net = [reached EXCEPT !.session = s]
        <5>1. c \in TlsConnects(f.net)
          BY <1>2, <3>2 DEF Connects
        <5> HIDE DEF begun, reached
        <5>2. \/ c \in {[rc |-> r, net |-> begun] : r \in {SEED_FAILED, UNKNOWN_HOST, SOCKET_FAILED, CONNECT_FAILED}}
              \/ c \in {[rc |-> r, net |-> reached] : r \in SETUP_ERRORS}
              \/ c \in {[rc |-> HANDSHAKE_FAILED, net |-> [reached EXCEPT !.session = s]] : s \in {"none", "begun"}}
              \/ c \in {[rc |-> TC_IOT_SUCCESS, net |-> [reached EXCEPT !.session = "up"]]}
          BY <5>1 DEF TlsConnects, begun, reached
        <5> QED
          BY <5>2
      <4>2. begun \in Nets /\ reached \in Nets
        BY <1>1 DEF Nets
      <4>3. \A s \in {"none", "begun", "up"} : [reached EXCEPT !.session = s] \in Nets
        BY <4>2 DEF Nets
      <4> QED
        BY <4>1, <4>2, <4>3
    <3> QED
      BY <3>1, <3>2
  <2> QED
    BY <1>2, <2>1 DEF IsExchange, ExchangeFields, Goes, Steps, Same, Asking, Performing, Calling, Connected
<1>3. ASSUME NEW net \in Writes(f.net) PROVE Steps(f, Written(f, net)) /\ net \in Nets
  <2> DEFINE g == [f EXCEPT !.net = net, !.request = <<>>]
             up == [g EXCEPT !.pc = "header", !.link = "up"]
  <2>1. net \in Nets
    BY <1>1 DEF Writes, Nets
  <2>2. /\ IsExchange(g) /\ g.fn = "perform" /\ Steps(f, up)
        /\ g.method = f.method /\ g.callback = f.callback /\ g.secured = f.secured /\ g.whole = f.whole
    BY <2>1 DEF IsExchange, ExchangeFields, Steps, Same, Asking, Performing, Calling
  <2>3. Written(f, net) = up \/ Written(f, net) = Return(g, SEND_PACK_FAILED, FALSE)
    BY DEF Written
  <2> HIDE DEF g, up
  <2>4. /\ Steps(g, Return(g, SEND_PACK_FAILED, FALSE))
        /\ Return(g, SEND_PACK_FAILED, FALSE).fn = "returned"
    BY <2>2, Returns DEF Steps
  <2>5. Steps(f, Return(g, SEND_PACK_FAILED, FALSE))
    BY <2>2, <2>4 DEF Steps, Same, Asking, IsExchange
  <2> QED
    BY <2>1, <2>2, <2>3, <2>5
<1>4. Goes(f, [f EXCEPT !.expired = TRUE])
  BY DEF IsExchange, ExchangeFields, Goes, Steps, Same, Asking
<1>5. ASSUME NEW l, NEW k PROVE Goes(f, Broken(f, l, k))
  BY DEF IsExchange, ExchangeFields, Goes, Steps, Same, Asking, Broken
<1> QED
  BY <1>2, <1>3, <1>4, <1>5

-----------------------------------------------------------------------------
(* What a download owes, piece by piece.  The answer to a GET is 11 tokens *)
(* of header and the firmware, and that to a HEAD the same header.         *)

Parsers == [state : {"start", "ignore", "newline", "header", "body", "end"},
            status : Statuses \cup {"none"}, length : Nat, chunked : BOOLEAN, sound : BOOLEAN]

HeaderLen == 11
Size0(v) == Len(Firmware[v])
Tokens(v) == {"HTTP", "200", "CR", "LF", "Content-Length", ":", "request", "NUL", ToString(Size0(v))}
               \cup Range(Firmware[v])
Answer(v) == Responded(v) \o Firmware[v]
Sent(method, v) == IF method = "GET" THEN Answer(v) ELSE Responded(v)

\* A parser that has read the first `at' tokens of an answer.
Parsed(p, at, v) ==
  /\ p \in Parsers /\ ~p.chunked
  /\ \/ p.state = "start" /\ at = 0
     \/ p.state = "ignore" /\ at \in {2, 6, 7}
     \/ p.state = "newline" /\ at \in {3, 8}
     \/ p.state = "header" /\ at \in {4, 9}
     \/ p.state = "body" /\ at = 10
     \/ p.state = "end" /\ at = HeaderLen
  /\ p.status = IF p.state = "start" THEN "none" ELSE "200"
  /\ at < 6 => p.sound /\ p.length = 0
  /\ at >= 6 /\ p.sound => p.length = Size0(v)

\* Tokens of a text, from a position on.
Follow(tokens, n, text, at) ==
  at + n <= Len(text) /\ \A i \in 1..n : tokens[i] = text[at + i]

\* A text that ends with the first n tokens of the firmware.
EndsWith(text, n, v) ==
  n <= Len(text) /\ \A i \in 1..n : text[Len(text) - n + i] = Firmware[v][i]

\* What may be wrong with an exchange so that it owes nothing.
Fine(f) == f.parser.sound /\ ~f.expired
Quiet(f) == ~f.disturbed /\ f.cuts \cap 1..2 = {}

\* What the command may rely on when its exchange returns.
Owes(f, c) ==
  Fine(f) =>
    /\ Quiet(f) => f.received >= 0 /\ (f.method = "GET" => f.received = TC_IOT_SUCCESS)
    /\ f.received >= 0 /\ ~(f.secured /\ f.disturbed) =>
         IF f.method = "HEAD" THEN f.parser.length = Size0(c.version)
         ELSE EndsWith(c.digest, Size0(c.version), c.version)

\* The buffer, and the connection.
Holds(f, v) ==
  /\ f.buffer \in Seq(Tokens(v)) /\ Len(f.buffer) = OtaBufLen
  /\ f.wire \in Seq(Tokens(v)) /\ f.whole = Sent(f.method, v)
  /\ f.parser \in Parsers /\ f.left \in 0..OtaBufLen
  /\ f.connect \in Int /\ f.connect <= 0 /\ f.received \in Int
  /\ f.given \in Seq(Tokens(v))
  /\ {f.secured, f.expired, f.later, f.disturbed} \subseteq BOOLEAN
  /\ f.pc \notin {"connect", "write", "returned"} => f.link \in {"up", "closing", "dead"}
  /\ f.link \in {"closing", "dead"} => f.disturbed

BeforeHeader(f, v) ==
  /\ f.parser = NewParser /\ f.left = 0 /\ f.wire = f.whole /\ ~f.later
  /\ f.pc = "connect" => ~f.disturbed
  /\ f.pc = "write" /\ ~f.disturbed => f.net.session = "up"

InHeader(f, v) ==
  /\ ~f.later
  /\ \E at \in 0..HeaderLen :
       /\ Parsed(f.parser, at, v)
       /\ Follow(f.buffer, f.left, Answer(v), at)
       /\ Follow(f.wire, Len(f.wire), Answer(v), at + f.left)
  /\ f.parser.state # "end"
  /\ f.parser.state = "start" => f.left = 0 /\ (f.disturbed \/ f.wire = f.whole)

\* The callback has been given the first `handed' tokens of the firmware.
InBody(f, c) ==
  \E handed \in 0..Size0(c.version) :
    /\ Follow(f.wire, Len(f.wire), Firmware[c.version], handed)
    /\ f.received <= handed
    /\ f.parser.sound => f.parser.length = Size0(c.version)
    /\ f.pc # "callback" /\ ~f.later => handed <= OtaBufLen
    /\ IF f.pc = "called"
       THEN /\ Len(f.given) <= handed
            /\ Follow(f.given, Len(f.given), Firmware[c.version], handed - Len(f.given))
            /\ EndsWith(c.digest, handed - Len(f.given), c.version)
       ELSE EndsWith(c.digest, handed, c.version)

Accounts(f, c) ==
  /\ Holds(f, c.version)
  /\ f.pc \in {"connect", "write"} => BeforeHeader(f, c.version)
  /\ f.pc = "header" => InHeader(f, c.version)
  /\ f.pc \in Calling => InBody(f, c)
  /\ f.pc # "chunk"
  /\ f.pc = "identity" => /\ f.method = "GET" /\ ~f.parser.sound
                          /\ f.parser.length <= OtaBufLen /\ f.received >= 0
  /\ f.fn = "returned" => Owes(f, c)

-----------------------------------------------------------------------------
(* Commands, and their stack.                                              *)

CommandFields == {"fn", "pc", "version", "digest", "pending", "start", "percent", "nested"}
Early == {"received", "checked", "refused", "progress", "open"}
Fetching == {"head", "get"}
Late == {"matched", "differs", "upgrading"}

IsCommand(c) ==
  /\ DOMAIN c = CommandFields /\ c.fn = "command" /\ c.pc \in Early \cup Fetching \cup Late
  /\ c.nested \in BOOLEAN
  /\ c.pc # "get" => c.pending = <<>>
  /\ c.pc \notin Early =>
       /\ c.version \in Versions
       /\ c.digest \in Seq(Range(Firmware[c.version])) /\ c.pending \in Seq(Range(Firmware[c.version]))

\* An exchange and the command it is for.
Fetches(f, c) ==
  /\ IsExchange(f) /\ IsCommand(c) /\ Accounts(f, c)
  /\ \/ f.method = "HEAD" /\ c.pc = "head"
     \/ f.method = "GET" /\ c.pc = "get"

Calls(s) ==
  /\ \A i \in 1..Len(s) : IsExchange(s[i]) \/ IsCommand(s[i])
  /\ \A i \in 1..Len(s) : IsExchange(s[i]) =>
       i + 1 \in 1..Len(s) /\ Fetches(s[i], s[i + 1]) /\ (i > 1 => s[i].pc = "reporting")
  /\ \A i \in 1..Len(s) : IsCommand(s[i]) /\ s[i].pc \in Fetching => i > 1 /\ IsExchange(s[i - 1])
  /\ \A i, j \in 1..Len(s) : i < j /\ IsCommand(s[i]) /\ IsCommand(s[j]) => s[j].nested

IsStack(s) == \E S : s \in Seq(S)

StackInv ==
  /\ IsStack(stack)
  /\ main \in {"off", "token", "yield"}
  /\ main = "off" => stack = <<>>
  /\ main = "token" => Len(stack) = 2 /\ IsExchange(stack[1]) /\ stack[1].method = "POST" /\ stack[2].fn = "token"
  /\ main = "yield" => Calls(stack)

HandlerInv ==
  /\ DOMAIN handler = {"version", "url"} /\ handler.version \in Versions \cup {0}
  /\ main = "yield" /\ stack # <<>> => handler.version \in Versions /\ handler.url \in Urls

FileInv == DOMAIN file = Versions /\ \A v \in Versions : file[v] \in Seq(Range(Firmware[v]))

\* The digest of a command within which no other was processed is that of its file, with what
\* the C library has not yet written.
Digested(c, asked, files) ==
  /\ asked = c.version /\ c.digest = files[c.version] \o c.pending
  /\ c.pc \in {"matched", "upgrading"} => c.digest = Firmware[c.version]

Vouches(c, asked, files) ==
  /\ c.pc = "head" => asked = c.version
  /\ c.pc \notin Early /\ ~c.nested => Digested(c, asked, files)

Vouched(s, asked, files) == \A i \in 1..Len(s) : IsCommand(s[i]) => Vouches(s[i], asked, files)

DigestInv == Vouched(stack, handler.version, file)

TypeInv ==
  /\ StackInv /\ HandlerInv /\ FileInv
  /\ outcome \in [Versions -> {"none", "upgrading", "refused"}] /\ faults \in 0..MaxFaults

-----------------------------------------------------------------------------
(* Texts.                                                                  *)

LEMMA FirmwareType ==
  ASSUME NEW v \in Versions
  PROVE  /\ Firmware[v] \in Seq(Range(Firmware[v])) /\ Size0(v) = Len(Firmware[v])
         /\ Size0(v) \in Nat /\ Size0(v) > OtaBufLen /\ Size0(v) \in 0..MaxNumber
         /\ OtaBufLen \in Nat /\ OtaBufLen >= 3 /\ MaxNumber \in Nat
         /\ Range(Firmware[v]) \subseteq Tokens(v)
  BY OtaAssumption, NumberAssumption DEF Size0, Tokens

\* The header of an answer, token by token, and the firmware after it.
LEMMA AnswerIs ==
  ASSUME NEW v \in Versions
  PROVE  /\ Responded(v) \in Seq(Tokens(v)) /\ Len(Responded(v)) = HeaderLen
         /\ Answer(v) \in Seq(Tokens(v)) /\ Len(Answer(v)) = HeaderLen + Size0(v)
         /\ \A i \in 1..HeaderLen : Answer(v)[i] = Responded(v)[i]
         /\ \A i \in 1..Size0(v) : Answer(v)[HeaderLen + i] = Firmware[v][i]
         /\ Answer(v)[1] = "HTTP" /\ Answer(v)[2] = "200" /\ Answer(v)[3] = "CR" /\ Answer(v)[4] = "LF"
         /\ Answer(v)[5] = "Content-Length" /\ Answer(v)[6] = ":" /\ Answer(v)[7] = ToString(Size0(v))
         /\ Answer(v)[8] = "CR" /\ Answer(v)[9] = "LF" /\ Answer(v)[10] = "CR" /\ Answer(v)[11] = "LF"
<1> DEFINE T == Tokens(v)
           n == ToString(Size0(v))
           rest == <<n, "CR", "LF", "CR", "LF">>
           ok == <<"HTTP", "200", "CR", "LF", "Content-Length", ":">>
           r == Responded(v)
<1>1. /\ {"HTTP", "200", "CR", "LF", "Content-Length", ":", n} \subseteq T
      /\ Firmware[v] \in Seq(T) /\ Len(Firmware[v]) = Size0(v) /\ Size0(v) \in Nat
  BY FirmwareType DEF Tokens, Size0
<1>2. /\ ok \in Seq(T) /\ Len(ok) = 6
      /\ ok[1] = "HTTP" /\ ok[2] = "200" /\ ok[3] = "CR" /\ ok[4] = "LF"
      /\ ok[5] = "Content-Length" /\ ok[6] = ":"
  <2> HIDE DEF T
  <2> QED
    BY <1>1
<1>3. /\ rest \in Seq(T) /\ Len(rest) = 5
      /\ rest[1] = n /\ rest[2] = "CR" /\ rest[3] = "LF" /\ rest[4] = "CR" /\ rest[5] = "LF"
  <2> HIDE DEF T, n
  <2> QED
    BY <1>1
<1>4. r = ok \o rest
  BY DEF Responded, OkHeader, Size0
<1> HIDE DEF T, ok, rest, r
<1>5. /\ r \in Seq(T) /\ DOMAIN r = 1..(Len(ok) + Len(rest))
      /\ \A i \in 1..(Len(ok) + Len(rest)) : r[i] = IF i <= Len(ok) THEN ok[i] ELSE rest[i - Len(ok)]
  BY <1>2, <1>3, <1>4, ConcatType
<1>6. Len(r) = 11 /\ \A i \in 1..6 : r[i] = ok[i]
  BY <1>2, <1>3, <1>5
<1>7. r[7] = rest[1] /\ r[8] = rest[2] /\ r[9] = rest[3] /\ r[10] = rest[4] /\ r[11] = rest[5]
  BY <1>2, <1>3, <1>5
<1>8. /\ Answer(v) = r \o Firmware[v]
  BY DEF Answer, r
<1>9. /\ Answer(v) \in Seq(T) /\ DOMAIN Answer(v) = 1..(11 + Size0(v))
      /\ \A i \in 1..(11 + Size0(v)) : Answer(v)[i] = IF i <= 11 THEN r[i] ELSE Firmware[v][i - 11]
  <2> DEFINE F == Firmware[v]
  <2>1. F \in Seq(T) /\ Len(F) = Size0(v)
    BY <1>1
  <2> HIDE DEF F
  <2>2. /\ r \o F \in Seq(T) /\ DOMAIN (r \o F) = 1..(Len(r) + Len(F))
        /\ \A i \in 1..(Len(r) + Len(F)) : (r \o F)[i] = IF i <= Len(r) THEN r[i] ELSE F[i - Len(r)]
    BY <1>5, <2>1, ConcatType
  <2>3. Answer(v) = r \o F
    BY <1>8 DEF F
  <2>4. Len(r) = 11
    BY <1>6
  <2>5. /\ r \o F \in Seq(T) /\ DOMAIN (r \o F) = 1..(11 + Size0(v))
        /\ \A i \in 1..(11 + Size0(v)) : (r \o F)[i] = IF i <= 11 THEN r[i] ELSE F[i - 11]
    BY <2>1, <2>2, <2>4
  <2>6. /\ Answer(v) \in Seq(T) /\ DOMAIN Answer(v) = 1..(11 + Size0(v))
        /\ \A i \in 1..(11 + Size0(v)) : Answer(v)[i] = IF i <= 11 THEN r[i] ELSE F[i - 11]
    <3> HIDE <2>3
    <3> DEFINE c == r \o F
    <3>1. Answer(v) = c
      BY <2>3
    <3>2. /\ c \in Seq(T) /\ DOMAIN c = 1..(11 + Size0(v))
          /\ \A i \in 1..(11 + Size0(v)) : c[i] = IF i <= 11 THEN r[i] ELSE F[i - 11]
      BY <2>5
    <3> HIDE DEF c
    <3> QED
      BY <3>1, <3>2
  <2> QED
    BY <2>6 DEF F
<1>10. Len(Answer(v)) = 11 + Size0(v)
  BY <1>1, <1>9
<1>11. \A i \in 1..11 : Answer(v)[i] = r[i]
  BY <1>1, <1>9
<1>12. ASSUME NEW i \in 1..Size0(v) PROVE Answer(v)[11 + i] = Firmware[v][i]
  <2>1. LET k == 11 + i IN k \in 1..(11 + Size0(v)) /\ ~(k <= 11) /\ k - 11 = i
    BY <1>1
  <2> QED
    BY <1>9, <2>1
<1>13. Answer(v)[1] = ok[1] /\ Answer(v)[2] = ok[2] /\ Answer(v)[3] = ok[3] /\ Answer(v)[4] = ok[4]
       /\ Answer(v)[5] = ok[5] /\ Answer(v)[6] = ok[6]
  BY <1>6, <1>11
<1>14. Answer(v)[7] = r[7] /\ Answer(v)[8] = r[8] /\ Answer(v)[9] = r[9] /\ Answer(v)[10] = r[10]
       /\ Answer(v)[11] = r[11]
  BY <1>11
<1> QED
  BY <1>2, <1>3, <1>5, <1>6, <1>7, <1>9, <1>10, <1>11, <1>12, <1>13, <1>14 DEF T, r, n, HeaderLen

\* What Find finds is the first one.
LEMMA FindIs ==
  ASSUME NEW S, NEW buf \in Seq(S), NEW token, NEW from \in Nat
  PROVE  \/ Find(buf, token, from) = 0 /\ \A i \in from..Len(buf) : buf[i] # token
         \/ /\ Find(buf, token, from) \in from..Len(buf) /\ buf[Find(buf, token, from)] = token
            /\ \A j \in from..(Find(buf, token, from) - 1) : buf[j] # token
<1> DEFINE Here == {i \in from..Len(buf) : buf[i] = token}
           First(i) == buf[i] = token /\ \A j \in from..(i - 1) : buf[j] # token
<1>1. Len(buf) \in Nat
  OBVIOUS
<1>2. CASE Here = {}
  BY <1>2 DEF Find
<1>3. CASE Here # {}
  <2>1. Here \subseteq Nat
    BY <1>1
  <2>2. PICK k \in Here : \A y \in Here : k <= y
    <3> HIDE DEF Here
    <3> QED
      BY <1>3, <2>1, Least
  <2>3. k \in from..Len(buf) /\ First(k)
    <3>1. ASSUME NEW j \in from..(k - 1) PROVE buf[j] # token
      <4>1. j \in from..Len(buf) /\ ~(k <= j)
        BY <1>1, <2>2
      <4> QED
        BY <2>2, <4>1
    <3> QED
      BY <2>2, <3>1
  <2>4. Find(buf, token, from) = CHOOSE i \in from..Len(buf) : First(i)
    BY <1>3 DEF Find
  <2> HIDE DEF First
  <2>5. Find(buf, token, from) \in from..Len(buf) /\ First(Find(buf, token, from))
    BY <2>3, <2>4
  <2> QED
    BY <2>5 DEF First
<1> QED
  BY <1>2, <1>3

\* The number of its length is read as it was written, and ends no line.
LEMMA LengthReads ==
  ASSUME NEW v \in Versions
  PROVE  Number(ToString(Size0(v))) = Size0(v) /\ ToString(Size0(v)) # "CR"
<1> DEFINE n == Size0(v)
           Texts == {ToString(m) : m \in 0..MaxNumber}
<1>1. n \in 0..MaxNumber
  BY FirmwareType
<1> HIDE DEF n
<1>2. ToString(n) \in Texts
  BY <1>1
<1>3. Numbers = [t \in Texts |-> CHOOSE m \in 0..MaxNumber : ToString(m) = t]
  BY DEF Numbers
<1>4. Numbers[ToString(n)] = CHOOSE m \in 0..MaxNumber : ToString(m) = ToString(n)
  BY <1>2, <1>3
<1>5. Numbers[ToString(n)] = n
  BY <1>1, <1>4, NumberAssumption
<1>6. ToString(n) \in DOMAIN Numbers
  BY <1>2, <1>3
<1> QED
  BY <1>1, <1>5, <1>6, NumberAssumption DEF Number, IsNumber, n

LEMMA NumberType == \A token : Number(token) \in Nat
<1> SUFFICES ASSUME NEW token PROVE Number(token) \in Nat
  OBVIOUS
<1>1. CASE ~IsNumber(token)
  BY <1>1 DEF Number
<1>2. CASE IsNumber(token)
  <2>1. token \in {ToString(n) : n \in 0..MaxNumber}
    BY <1>2 DEF IsNumber, Numbers
  <2>2. Numbers[token] = CHOOSE n \in 0..MaxNumber : ToString(n) = token
    BY <2>1 DEF Numbers
  <2>3. Numbers[token] \in 0..MaxNumber
    BY <2>1, <2>2
  <2> QED
    BY <1>2, <2>3, NumberAssumption DEF Number
<1> QED
  BY <1>1, <1>2

-----------------------------------------------------------------------------
(* The parser of the header, which may see the answer in any pieces.       *)

Analyses == [parser : Parsers, parsed : Nat, run : BOOLEAN, ok : BOOLEAN]

\* The buffer holds what follows the first `base' tokens of the answer.
Feeds(buf, base, v) == buf \in Seq(Tokens(v)) /\ base \in 0..HeaderLen /\ Follow(buf, Len(buf), Answer(v), base)

\* An analysis in step with the answer.
Tracks(a, buf, base, v) ==
  /\ a \in Analyses /\ a.ok /\ a.parsed <= Len(buf) /\ Parsed(a.parser, base + a.parsed, v)
  /\ a.run => a.parser.state # "end"

LEMMA FeedsIs ==
  ASSUME NEW v \in Versions, NEW buf, NEW base, Feeds(buf, base, v)
  PROVE  /\ Len(buf) \in Nat /\ base \in Nat /\ buf \in Seq(Tokens(v))
         /\ \A i \in 1..Len(buf) : buf[i] = Answer(v)[base + i]
  BY DEF Feeds, Follow, HeaderLen

States == {"ignore", "newline", "header", "body", "end"}

LEMMA GotoIs ==
  ASSUME NEW a \in Analyses, NEW state \in States, NEW n \in Nat
  PROVE  /\ Goto(a, state, n) \in Analyses
         /\ Goto(a, state, n).parser = [a.parser EXCEPT !.state = state]
         /\ Goto(a, state, n).parsed = n /\ Goto(a, state, n).run = a.run /\ Goto(a, state, n).ok = a.ok
         /\ Stop(Goto(a, state, n)) = [Goto(a, state, n) EXCEPT !.run = FALSE]
  BY DEF Goto, Stop, Analyses, Parsers, States

LEMMA StatesAre == "ignore" \in States /\ "newline" \in States /\ "header" \in States /\ "body" \in States /\ "end" \in States
  BY DEF States

LEMMA StartTurn ==
  ASSUME NEW v \in Versions, NEW buf, NEW base, Feeds(buf, base, v), NEW a, Tracks(a, buf, base, v),
         a.parser.state = "start"
  PROVE  /\ Tracks(AtStart(a, buf), buf, base, v)
         /\ Len(buf) >= 3 => AtStart(a, buf).parser.state # "start"
<1>1. a \in Analyses /\ a.parser \in Parsers /\ base = 0 /\ a.parsed = 0 /\ a.ok
  BY DEF Tracks, Parsed, Feeds, Analyses, HeaderLen
<1>2. CASE Len(buf) < 3
  <2> DEFINE b == AtStart(a, buf)
  <2>1. b = [a EXCEPT !.run = FALSE]
    BY <1>2 DEF AtStart, Stop
  <2> HIDE DEF b
  <2>2. b \in Analyses /\ b.parser = a.parser /\ b.parsed = a.parsed /\ b.ok /\ ~b.run
    BY <1>1, <2>1 DEF Analyses
  <2>3. Tracks(b, buf, base, v)
    BY <2>2 DEF Tracks
  <2>4. Len(buf) \in Nat
    BY FeedsIs
  <2> QED
    BY <1>2, <2>3, <2>4 DEF b
<1>3. CASE Len(buf) >= 3
  <2> DEFINE g == Goto(a, "ignore", 2)
             b == [g EXCEPT !.parser.status = buf[2]]
  <2>1. buf[1] = "HTTP" /\ buf[2] = "200"
    <3>1. 1 \in 1..Len(buf) /\ 2 \in 1..Len(buf) /\ 0 + 1 = 1 /\ 0 + 2 = 2
      BY <1>3, FeedsIs
    <3>2. buf[1] = Answer(v)[1] /\ buf[2] = Answer(v)[2]
      BY <1>1, <3>1, FeedsIs
    <3> QED
      BY <3>2, AnswerIs
  <2>2. AtStart(a, buf) = b
    BY <1>3, <2>1, FeedsIs DEF AtStart, Statuses
  <2>3. /\ g \in Analyses /\ g.parser = [a.parser EXCEPT !.state = "ignore"]
        /\ g.parsed = 2 /\ g.ok
    <3>1. g = Goto(a, "ignore", 2)
      OBVIOUS
    <3> HIDE DEF g
    <3> QED
      BY <1>1, <3>1, GotoIs, StatesAre
  <2> HIDE DEF g
  <2>4. /\ b \in Analyses /\ b.parser = [a.parser EXCEPT !.state = "ignore", !.status = "200"]
        /\ b.parsed = 2 /\ b.ok
    BY <1>1, <2>1, <2>3 DEF Analyses, Parsers, Statuses
  <2> HIDE DEF b
  <2>5. Parsed(a.parser, 0, v) /\ a.parser.state = "start"
    BY <1>1 DEF Tracks
  <2>6. Parsed(b.parser, 2, v) /\ b.parser.state = "ignore"
    <3> DEFINE p == a.parser
               q == b.parser
    <3>1. p \in Parsers /\ ~p.chunked /\ p.sound /\ p.length = 0
      BY <1>1, <2>5 DEF Parsed
    <3>2. q = [p EXCEPT !.state = "ignore", !.status = "200"]
      BY <2>4
    <3> HIDE DEF p, q
    <3>3. q \in Parsers /\ ~q.chunked /\ q.sound /\ q.length = 0 /\ q.state = "ignore" /\ q.status = "200"
      BY <3>1, <3>2 DEF Parsers, Statuses
    <3>4. Parsed(q, 2, v) /\ q.state = "ignore"
      BY <3>3 DEF Parsed
    <3> QED
      BY <3>4 DEF q
  <2> QED
    BY <1>1, <1>3, <2>2, <2>4, <2>6, FeedsIs DEF Tracks
<1>4. Len(buf) \in Nat
  BY FeedsIs
<1> QED
  BY <1>2, <1>3, <1>4

LEMMA IgnoreTurn ==
  ASSUME NEW v \in Versions, NEW buf, NEW base, Feeds(buf, base, v), NEW a, Tracks(a, buf, base, v),
         a.parsed < Len(buf), a.parser.state = "ignore"
  PROVE  Tracks(AtIgnore(a, buf), buf, base, v) /\ AtIgnore(a, buf).parser.state # "start"
<1> DEFINE at == base + a.parsed
           cr == Find(buf, "CR", a.parsed + 1)
<1>1. /\ a \in Analyses /\ a.parser \in Parsers /\ a.parsed \in Nat /\ base \in Nat /\ Len(buf) \in Nat
      /\ Parsed(a.parser, at, v) /\ at \in {2, 6, 7} /\ a.ok
  BY FeedsIs DEF Tracks, Parsed, Analyses
<1>2. \A i \in 1..Len(buf) : buf[i] = Answer(v)[base + i]
  BY FeedsIs
<1>3. \/ cr = 0 /\ \A i \in (a.parsed + 1)..Len(buf) : buf[i] # "CR"
      \/ cr \in (a.parsed + 1)..Len(buf) /\ buf[cr] = "CR" /\ \A j \in (a.parsed + 1)..(cr - 1) : buf[j] # "CR"
  <2>1. a.parsed + 1 \in Nat /\ buf \in Seq(Tokens(v))
    BY <1>1, FeedsIs
  <2> QED
    BY <2>1, FindIs
<1> HIDE DEF cr
<1>4. CASE cr = 0
  <2> DEFINE g == Goto(a, "ignore", Len(buf))
             b == AtIgnore(a, buf)
  <2>1. \A i \in (a.parsed + 1)..Len(buf) : Answer(v)[base + i] # "CR"
    BY <1>1, <1>2, <1>3, <1>4
  <2>2. \A k \in {3, 8} : k > at => base + Len(buf) < k
    <3>1. ASSUME NEW k \in {3, 8}, k > at, base + Len(buf) >= k PROVE FALSE
      <4>1. k - base \in (a.parsed + 1)..Len(buf) /\ base + (k - base) = k
        BY <1>1, <3>1
      <4>2. Answer(v)[k] # "CR"
        BY <2>1, <4>1
      <4> QED
        BY <3>1, <4>2, AnswerIs
    <3> QED
      BY <1>1, <3>1
  <2>3. at \in {6, 7} /\ base + Len(buf) = 7
    BY <1>1, <2>2
  <2>4. b = [g EXCEPT !.run = FALSE] /\ g \in Analyses /\ g.parser = [a.parser EXCEPT !.state = "ignore"]
        /\ g.parsed = Len(buf) /\ g.ok
    <3>1. b = Stop(g)
      BY <1>4 DEF AtIgnore, cr
    <3>2. /\ g \in Analyses /\ g.parser = [a.parser EXCEPT !.state = "ignore"]
          /\ g.parsed = Len(buf) /\ g.ok
      <4>1. g = Goto(a, "ignore", Len(buf))
        OBVIOUS
      <4> HIDE DEF g
      <4> QED
        BY <1>1, <4>1, GotoIs, StatesAre
    <3> HIDE DEF g
    <3> QED
      BY <1>1, <3>1, <3>2 DEF Stop
  <2> HIDE DEF g, b
  <2>5. b \in Analyses /\ b.parser = g.parser /\ b.parsed = g.parsed /\ b.ok /\ ~b.run
    BY <2>4 DEF Analyses
  <2>6. Parsed(b.parser, 7, v) /\ b.parser.state = "ignore"
    BY <1>1, <2>3, <2>4, <2>5 DEF Parsed, Parsers
  <2> QED
    BY <1>1, <2>3, <2>4, <2>5, <2>6 DEF Tracks, b
<1>5. CASE cr # 0
  <2> DEFINE b == AtIgnore(a, buf)
             k == base + cr
  <2>1. cr \in (a.parsed + 1)..Len(buf) /\ Answer(v)[k] = "CR"
    BY <1>1, <1>2, <1>3, <1>5
  <2>2. ASSUME NEW j \in (a.parsed + 1)..(cr - 1) PROVE Answer(v)[base + j] # "CR"
    <3>1. j \in 1..Len(buf)
      BY <1>1, <2>1
    <3>2. buf[j] # "CR"
      BY <1>3, <1>5
    <3> QED
      BY <1>2, <3>1, <3>2
  <2>3. b = Goto(a, "newline", cr)
    BY <1>5 DEF AtIgnore, cr
  <2>4. b \in Analyses /\ b.parser = [a.parser EXCEPT !.state = "newline"] /\ b.parsed = cr /\ b.ok
    <3>1. cr \in Nat
      BY <1>1, <2>1
    <3> HIDE DEF b
    <3> QED
      BY <1>1, <2>3, <3>1, GotoIs, StatesAre
  <2> HIDE DEF b
  <2>5. k \in Nat /\ k > at /\ \A m \in {3, 8} : m > at => k <= m
    <3>1. ASSUME NEW m \in {3, 8}, m > at, ~(k <= m) PROVE FALSE
      <4>1. m - base \in (a.parsed + 1)..(cr - 1) /\ base + (m - base) = m
        BY <1>1, <2>1, <3>1
      <4>2. Answer(v)[m] # "CR"
        BY <2>2, <4>1
      <4> QED
        BY <3>1, <4>2, AnswerIs
    <3> QED
      BY <1>1, <2>1, <3>1
  <2>6. k # 7
    BY <2>1, AnswerIs, LengthReads
  <2>7. (k = 3 /\ at = 2) \/ (k = 8 /\ at \in {6, 7})
    <3> HIDE DEF k, at
    <3> QED
      BY <1>1, <2>5, <2>6
  <2>8. Parsed(b.parser, k, v) /\ b.parser.state = "newline"
    <3> HIDE DEF k, at
    <3> QED
      BY <1>1, <2>4, <2>7 DEF Parsed, Parsers
  <2> QED
    BY <1>1, <2>1, <2>4, <2>8 DEF Tracks, b
<1> QED
  BY <1>4, <1>5

LEMMA StopIs ==
  ASSUME NEW v, NEW buf, NEW base, NEW a, Tracks(a, buf, base, v)
  PROVE  Tracks(Stop(a), buf, base, v) /\ Stop(a).parser = a.parser
<1> DEFINE b == Stop(a)
<1>1. b \in Analyses /\ b.parser = a.parser /\ b.parsed = a.parsed /\ b.ok /\ ~b.run
  BY DEF Stop, Tracks, Analyses
<1> HIDE DEF b
<1>2. Tracks(b, buf, base, v)
  BY <1>1 DEF Tracks
<1> QED
  BY <1>1, <1>2 DEF b

\* A line ends: its LF is read, and after an empty line the header is complete.
LEMMA LineTurn ==
  ASSUME NEW v \in Versions, NEW buf, NEW base, Feeds(buf, base, v), NEW a, Tracks(a, buf, base, v),
         a.parsed < Len(buf), a.parser.state \in {"newline", "body"}, NEW after
  PROVE  Tracks(Turn(a, buf, after), buf, base, v) /\ Turn(a, buf, after).parser.state # "start"
<1> DEFINE at == base + a.parsed
           next == a.parsed + 1
           state == IF a.parser.state = "newline" THEN "header" ELSE "end"
           g == Goto(a, state, next)
           b == Turn(a, buf, after)
<1>1. /\ a \in Analyses /\ a.parser \in Parsers /\ a.parsed \in Nat /\ base \in Nat /\ Len(buf) \in Nat
      /\ Parsed(a.parser, at, v) /\ a.ok
      /\ \/ a.parser.state = "newline" /\ at \in {3, 8}
         \/ a.parser.state = "body" /\ at = 10
  BY FeedsIs DEF Tracks, Parsed, Analyses
<1>2. buf[next] = Answer(v)[at + 1]
  <2>1. next \in 1..Len(buf) /\ base + next = at + 1
    BY <1>1
  <2> QED
    BY <2>1, FeedsIs
<1>3. buf[next] = "LF"
  <2>1. at + 1 \in {4, 9, 11}
    BY <1>1
  <2> HIDE DEF at, next
  <2> QED
    BY <1>2, <2>1, AnswerIs
<1>4. b = IF a.parser.state = "newline" THEN g ELSE Stop(g)
  <2>1. CASE a.parser.state = "newline"
    BY <1>3, <2>1 DEF Turn
  <2>2. CASE a.parser.state = "body"
    BY <1>3, <2>2 DEF Turn
  <2> QED
    BY <1>1, <2>1, <2>2
<1>5. next \in Nat /\ state \in States
  BY <1>1 DEF States
<1>6. g \in Analyses /\ g.parser = [a.parser EXCEPT !.state = state] /\ g.parsed = next /\ g.ok
  <2>1. g = Goto(a, state, next)
    OBVIOUS
  <2> HIDE DEF g, state, next
  <2> QED
    BY <1>1, <1>5, <2>1, GotoIs
<1>7. at + 1 = base + next
  BY <1>1
<1>8. next <= Len(buf)
  BY <1>1
<1> HIDE DEF g, next, b
<1>9. /\ b \in Analyses /\ b.parser = [a.parser EXCEPT !.state = state] /\ b.parsed = next /\ b.ok
      /\ b.run => state = "header"
  BY <1>4, <1>6 DEF Stop, Analyses
<1>10. Parsed(b.parser, at + 1, v) /\ b.parser.state = state
  <2> DEFINE p == a.parser
             q == b.parser
  <2>1. q = [p EXCEPT !.state = state]
    BY <1>9
  <2>2. /\ p \in Parsers /\ ~p.chunked /\ p.status = "200"
        /\ at < 6 => p.sound /\ p.length = 0
        /\ at >= 6 /\ p.sound => p.length = Size0(v)
        /\ \/ p.state = "newline" /\ at \in {3, 8}
           \/ p.state = "body" /\ at = 10
    BY <1>1 DEF Parsed
  <2> HIDE DEF p, q, at
  <2>3. /\ q \in Parsers /\ q.state = state /\ q.status = p.status /\ q.chunked = p.chunked
        /\ q.sound = p.sound /\ q.length = p.length
    BY <2>1, <2>2 DEF Parsers
  <2>4. \/ q.state = "header" /\ at + 1 \in {4, 9}
        \/ q.state = "end" /\ at + 1 = HeaderLen
    BY <2>2, <2>3 DEF p, HeaderLen
  <2>5. at \in {3, 8, 10}
    BY <2>2
  <2>6. Parsed(q, at + 1, v)
    BY <2>2, <2>3, <2>4, <2>5 DEF Parsed
  <2> QED
    BY <2>3, <2>6 DEF q
<1>11. state # "start"
  OBVIOUS
<1>12. b.run => b.parser.state # "end"
  BY <1>9, <1>10
<1> HIDE DEF state, at
<1> QED
  BY <1>7, <1>8, <1>9, <1>10, <1>11, <1>12 DEF Tracks, b

LEMMA HeaderTurn ==
  ASSUME NEW v \in Versions, NEW buf, NEW base, Feeds(buf, base, v), NEW a, Tracks(a, buf, base, v),
         a.parsed < Len(buf), a.parser.state = "header", NEW after
  PROVE  Tracks(AtHeader(a, buf, after), buf, base, v) /\ AtHeader(a, buf, after).parser.state # "start"
<1> DEFINE at == base + a.parsed
           next == a.parsed + 1
           colon == Find(buf, ":", next)
           b == AtHeader(a, buf, after)
<1>1. /\ a \in Analyses /\ a.parser \in Parsers /\ a.parsed \in Nat /\ base \in Nat /\ Len(buf) \in Nat
      /\ Parsed(a.parser, at, v) /\ a.ok /\ at \in {4, 9}
  BY FeedsIs DEF Tracks, Parsed, Analyses
<1>2. \A i \in 1..Len(buf) : buf[i] = Answer(v)[base + i]
  BY FeedsIs
<1>3. buf[next] = Answer(v)[at + 1]
  <2>1. next \in 1..Len(buf) /\ base + next = at + 1
    BY <1>1
  <2> QED
    BY <1>2, <2>1
<1>4. CASE at = 9
  <2>1. buf[next] = "CR"
    BY <1>3, <1>4, AnswerIs
  <2>2. b = Goto(a, "body", next)
    BY <2>1 DEF AtHeader
  <2>3. next \in Nat /\ next <= Len(buf) /\ base + next = 10
    BY <1>1, <1>4
  <2> HIDE DEF b, next
  <2>4. b \in Analyses /\ b.parser = [a.parser EXCEPT !.state = "body"] /\ b.parsed = next /\ b.ok
    BY <1>1, <2>2, <2>3, GotoIs, StatesAre
  <2>5. Parsed(b.parser, 10, v) /\ b.parser.state = "body"
    BY <1>1, <1>4, <2>4 DEF Parsed, Parsers
  <2> QED
    BY <2>3, <2>4, <2>5 DEF Tracks, b
<1>5. CASE at = 4
  <2>1. buf[next] = "Content-Length"
    BY <1>3, <1>5, AnswerIs
  <2>2. \/ colon = 0
        \/ colon \in next..Len(buf) /\ buf[colon] = ":" /\ \A j \in next..(colon - 1) : buf[j] # ":"
    <3>1. next \in Nat /\ buf \in Seq(Tokens(v))
      BY <1>1, FeedsIs
    <3> QED
      BY <3>1, FindIs
  <2> HIDE DEF colon
  <2>3. CASE colon = 0
    <3>1. b = Stop(a)
      BY <2>1, <2>3 DEF AtHeader, colon
    <3> QED
      BY <3>1, StopIs
  <2>4. CASE colon # 0
    <3> DEFINE value == IF colon < Len(buf) THEN buf[colon + 1] ELSE "NUL"
               q == Header(a.parser, "Content-Length", value, colon < Len(buf))
    <3>1. colon = a.parsed + 2 /\ colon <= Len(buf) /\ base + colon = 6
      <4>1. colon \in next..Len(buf) /\ Answer(v)[base + colon] = ":"
        BY <1>1, <1>2, <2>2, <2>4
      <4>2. base + colon # 5
        BY <4>1, AnswerIs
      <4>3. ~(base + colon > 6)
        <5>1. SUFFICES ASSUME base + colon > 6 PROVE FALSE
          OBVIOUS
        <5>2. 6 - base \in next..(colon - 1) /\ 6 - base \in 1..Len(buf) /\ base + (6 - base) = 6
          BY <1>1, <1>5, <4>1, <5>1
        <5>3. buf[6 - base] # ":"
          BY <2>2, <2>4, <5>2
        <5>4. Answer(v)[6] = ":"
          BY AnswerIs
        <5>5. buf[6 - base] = Answer(v)[6]
          BY <1>2, <5>2
        <5> QED
          BY <5>3, <5>4, <5>5
      <4> QED
        BY <1>1, <1>5, <4>1, <4>2, <4>3
    <3>2. \/ b = [a EXCEPT !.parsed = colon, !.parser = q]
          \/ b = Stop(a)
      BY <2>1, <2>4, <3>1 DEF AtHeader, LineHeaders, colon
    <3>3. CASE b = Stop(a)
      BY <3>3, StopIs
    <3>4. CASE b = [a EXCEPT !.parsed = colon, !.parser = q]
      <4>1. q = [a.parser EXCEPT !.state = "ignore", !.sound = @ /\ colon < Len(buf), !.length = Number(value)]
        BY DEF Header, Parsers
      <4>2. colon < Len(buf) => Number(value) = Size0(v)
        <5>1. SUFFICES ASSUME colon < Len(buf) PROVE Number(value) = Size0(v)
          OBVIOUS
        <5>2. colon + 1 \in 1..Len(buf) /\ base + (colon + 1) = 7
          BY <1>1, <3>1, <5>1
        <5>3. value = ToString(Size0(v))
          <6>1. Answer(v)[7] = ToString(Size0(v))
            BY AnswerIs
          <6>2. buf[colon + 1] = Answer(v)[7]
            BY <1>2, <5>2
          <6> QED
            BY <5>1, <6>1, <6>2
        <5> QED
          BY <5>3, LengthReads
      <4>3. Number(value) \in Nat /\ colon \in Nat
        BY <1>1, <3>1, NumberType
      <4> HIDE DEF q, b, value
      <4>4. /\ q \in Parsers /\ q.state = "ignore" /\ q.status = a.parser.status /\ q.chunked = a.parser.chunked
            /\ q.length = Number(value)
            /\ q.sound => colon < Len(buf)
        BY <1>1, <4>1, <4>3 DEF Parsers
      <4>5. Parsed(q, 6, v)
        BY <1>1, <1>5, <4>2, <4>4 DEF Parsed
      <4>6. b \in Analyses /\ b.parser = q /\ b.parsed = colon /\ b.ok
        BY <1>1, <3>4, <4>3, <4>4 DEF Analyses
      <4> QED
        BY <3>1, <4>4, <4>5, <4>6 DEF Tracks, b
    <3> QED
      BY <3>2, <3>3, <3>4
  <2> QED
    BY <2>3, <2>4
<1> QED
  BY <1>1, <1>4, <1>5

LEMMA TurnTracks ==
  ASSUME NEW v \in Versions, NEW buf, NEW base, Feeds(buf, base, v), NEW a, Tracks(a, buf, base, v),
         a.run, a.parsed < Len(buf), NEW after
  PROVE  /\ Tracks(Turn(a, buf, after), buf, base, v)
         /\ Turn(a, buf, after).parser.state = "start" => a.parser.state = "start" /\ ~(Len(buf) >= 3)
<1>1. a.parser.state \in {"start", "ignore", "newline", "header", "body"}
  BY DEF Tracks, Parsed
<1>2. CASE a.parser.state = "start"
  <2>1. Turn(a, buf, after) = AtStart(a, buf)
    BY <1>2 DEF Turn
  <2> QED
    BY <1>2, <2>1, StartTurn
<1>3. CASE a.parser.state = "ignore"
  <2>1. Turn(a, buf, after) = AtIgnore(a, buf)
    BY <1>3 DEF Turn
  <2> QED
    BY <1>3, <2>1, IgnoreTurn
<1>4. CASE a.parser.state = "header"
  <2>1. Turn(a, buf, after) = AtHeader(a, buf, after)
    BY <1>4 DEF Turn
  <2> QED
    BY <1>4, <2>1, HeaderTurn
<1>5. CASE a.parser.state \in {"newline", "body"}
  BY <1>5, LineTurn
<1> QED
  BY <1>1, <1>2, <1>3, <1>4, <1>5

\* The analysis of any piece of the answer keeps the parser in step with it, and three tokens
\* are enough for the first line.
LEMMA AnalysisTracks ==
  ASSUME NEW v \in Versions, NEW buf, NEW base, Feeds(buf, base, v),
         NEW p, Parsed(p, base, v), p.state # "end", NEW after
  PROVE  /\ Tracks(Analysis(p, buf, after), buf, base, v)
         /\ Analysis(p, buf, after).parser.state = "start" => ~(Len(buf) >= 3)
<1> DEFINE K == 2 * Len(buf) + 4
           base0 == [parser |-> p, parsed |-> 0, run |-> TRUE, ok |-> TRUE]
           Pass(a) == IF a.run /\ a.parsed < Len(buf) THEN Turn(a, buf, after) ELSE a
           Loop(g) == g = [n \in 0..K |-> IF n = 0 THEN base0 ELSE Only({Pass(a) : a \in {g[n - 1]}})]
           f == CHOOSE g : Loop(g)
           D == {a \in Analyses : Tracks(a, buf, base, v)}
<1>1. K \in Nat /\ K >= 1
  BY FeedsIs
<1>2. Analysis(p, buf, after) = f[K]
  <2> DEFINE parse(q, b) ==
        LET loop[n \in 0..(2 * Len(b) + 4)] ==
              IF n = 0 THEN [parser |-> q, parsed |-> 0, run |-> TRUE, ok |-> TRUE]
              ELSE Only({IF a.run /\ a.parsed < Len(b) THEN Turn(a, b, after) ELSE a : a \in {loop[n - 1]}})
        IN  loop[2 * Len(b) + 4]
  <2>1. Analysis(p, buf, after) = Only({parse(q, b) : q \in {p}, b \in {buf}})
    BY DEF Analysis
  <2>2. parse(p, buf) = f[K]
    OBVIOUS
  <2> HIDE DEF parse, f, K
  <2>3. {parse(q, b) : q \in {p}, b \in {buf}} = {parse(p, buf)}
    OBVIOUS
  <2>4. Only({parse(p, buf)}) = parse(p, buf)
    BY OnlyOne
  <2> QED
    BY <2>1, <2>2, <2>3, <2>4
<1>3. base0 \in D
  <2> DEFINE b == base0
  <2>1. b.parser = p /\ b.parsed = 0 /\ b.ok /\ base + 0 = base /\ 0 <= Len(buf)
    BY FeedsIs
  <2>2. b \in Analyses
    BY DEF Analyses, Parsed
  <2> HIDE DEF b
  <2>3. Tracks(b, buf, base, v)
    BY <2>1, <2>2 DEF Tracks
  <2> QED
    BY <2>2, <2>3 DEF b
<1> HIDE DEF base0
<1> DEFINE Begun(a) == a.parser.state = "start" => ~(Len(buf) >= 3)
<1>4. ASSUME NEW a \in D
      PROVE  Pass(a) \in D /\ (Begun(a) \/ a = base0 => Begun(Pass(a)))
  <2>1. CASE a.run /\ a.parsed < Len(buf)
    <3>1. Pass(a) = Turn(a, buf, after)
      BY <2>1
    <3>2. /\ Tracks(Turn(a, buf, after), buf, base, v)
          /\ Turn(a, buf, after).parser.state = "start" => a.parser.state = "start" /\ ~(Len(buf) >= 3)
      BY <1>4, <2>1, TurnTracks
    <3> HIDE DEF Pass
    <3> QED
      BY <3>1, <3>2 DEF Tracks
  <2>2. CASE ~(a.run /\ a.parsed < Len(buf))
    <3>1. Pass(a) = a
      BY <2>2
    <3>2. a = base0 => Len(buf) = 0
      BY <2>2, FeedsIs DEF base0
    <3> HIDE DEF Pass
    <3> QED
      BY <1>4, <3>1, <3>2
  <2> QED
    BY <2>1, <2>2
<1> HIDE DEF Pass, D, K
<1>5. \A a : Only({Pass(b) : b \in {a}}) = Pass(a)
  <2> SUFFICES ASSUME NEW a PROVE Only({Pass(b) : b \in {a}}) = Pass(a)
    OBVIOUS
  <2>1. {Pass(b) : b \in {a}} = {Pass(a)}
    OBVIOUS
  <2> QED
    BY <2>1, OnlyOne
<1>6. \E g : Loop(g)
  <2> DEFINE step == [x \in Nat \X D |-> Pass(x[2])]
  <2>1. step \in [Nat \X D -> D]
    BY <1>4
  <2>2. PICK g \in [0..K -> D] : g[0] = base0 /\ \A i \in 1..K : g[i] = step[<<i, g[i - 1]>>]
    <3> HIDE DEF step
    <3>1. Loops(D, base0, step, K)
      BY <1>1, <1>3, <2>1, LoopExists
    <3> QED
      BY <3>1 DEF Loops
  <2>3. ASSUME NEW i \in 1..K PROVE g[i] = Pass(g[i - 1])
    <3>1. i - 1 \in 0..K /\ i \in Nat
      BY <1>1
    <3>2. g[i - 1] \in D
      BY <2>2, <3>1
    <3> QED
      BY <2>2, <3>1, <3>2
  <2>4. Loop(g)
    <3>1. ASSUME NEW n \in 0..K PROVE g[n] = IF n = 0 THEN base0 ELSE Only({Pass(a) : a \in {g[n - 1]}})
      BY <1>1, <1>5, <2>2, <2>3
    <3>2. g = [n \in 0..K |-> g[n]]
      BY <2>2
    <3> QED
      BY <3>1, <3>2
  <2> QED
    BY <2>4
<1>7. f = [n \in 0..K |-> IF n = 0 THEN base0 ELSE Only({Pass(a) : a \in {f[n - 1]}})]
  BY <1>6
<1>8. f[0] = base0 /\ \A i \in 1..K : f[i] = Pass(f[i - 1])
  <2>1. 0 \in 0..K /\ \A i \in 1..K : i \in 0..K /\ i # 0
    BY <1>1
  <2> HIDE DEF f
  <2>2. ASSUME NEW i \in 1..K PROVE f[i] = Pass(f[i - 1])
    <3>1. f[i] = Only({Pass(a) : a \in {f[i - 1]}})
      BY <1>7, <2>1
    <3> QED
      BY <1>5, <3>1
  <2> QED
    BY <1>7, <2>1, <2>2
<1> HIDE DEF f
<1>9. f[K] \in D /\ Begun(f[K])
  <2> DEFINE R == {x \in Nat \X D : Begun(x[2]) \/ (x[2] = base0 /\ x[1] = 0)}
  <2>1. <<0, f[0]>> \in R
    BY <1>3, <1>8
  <2>2. ASSUME NEW i \in 1..K, <<i - 1, f[i - 1]>> \in R PROVE <<i, f[i]>> \in R
    <3> DEFINE a == f[i - 1]
    <3>1. a \in D /\ (Begun(a) \/ a = base0) /\ i \in Nat
      BY <1>1, <2>2
    <3>2. f[i] = Pass(a)
      BY <1>8
    <3> HIDE DEF a
    <3>3. Pass(a) \in D /\ Begun(Pass(a))
      BY <1>4, <3>1
    <3> DEFINE y == f[i]
    <3>4. y \in D /\ Begun(y)
      BY <3>2, <3>3
    <3> HIDE DEF y
    <3>5. <<i, y>> \in R
      BY <3>1, <3>4
    <3> QED
      BY <3>5 DEF y
  <2> HIDE DEF R
  <2>3. \A i \in 0..K : <<i, f[i]>> \in R
    BY <1>1, <2>1, <2>2, LoopKeeps
  <2>4. <<K, f[K]>> \in R
    BY <1>1, <2>3
  <2> QED
    BY <1>1, <2>4 DEF R
<1> QED
  BY <1>2, <1>9 DEF D

-----------------------------------------------------------------------------
(* The buffer and the wire.                                                *)

\* The first tokens of a text, and the others.
Piece(text, n) == SubSeq(text, 1, n)
Rest(text, n) == SubSeq(text, n + 1, Len(text))

\* A part of tokens that follow a text follows it, and what follows that part does.
LEMMA PartFollows ==
  ASSUME NEW T, NEW text \in Seq(T), NEW s \in Seq(T), NEW at \in Nat, Follow(s, Len(s), text, at),
         NEW k \in 0..Len(s)
  PROVE  /\ Piece(s, k) \in Seq(T) /\ Len(Piece(s, k)) = k
         /\ Follow(Piece(s, k), k, text, at)
         /\ Rest(s, k) \in Seq(T) /\ Len(Rest(s, k)) = Len(s) - k
         /\ Follow(Rest(s, k), Len(s) - k, text, at + k)
<1> DEFINE a == Piece(s, k)
           b == Rest(s, k)
<1>1. Len(s) \in Nat /\ k \in Nat /\ Len(text) \in Nat
  OBVIOUS
<1>2. a \in Seq(T) /\ Len(a) = k /\ \A i \in 1..k : a[i] = s[i]
  <2>1. 1 \in 1..(Len(s) + 1) /\ k \in (1 - 1)..Len(s) /\ k - 1 + 1 = k /\ \A i \in 1..k : 1 + i - 1 = i
    BY <1>1
  <2>2. /\ a \in Seq(T) /\ Len(a) = k - 1 + 1
        /\ \A i \in 1..(k - 1 + 1) : a[i] = s[1 + i - 1]
    BY <2>1, PartType DEF Piece
  <2> HIDE DEF a
  <2> QED
    BY <2>1, <2>2
<1>3. b \in Seq(T) /\ Len(b) = Len(s) - k /\ \A i \in 1..(Len(s) - k) : b[i] = s[k + i]
  <2> DEFINE m == k + 1
             n == Len(s)
  <2>1. /\ m \in 1..(Len(s) + 1) /\ n \in (m - 1)..Len(s)
        /\ n - m + 1 = Len(s) - k /\ \A i \in 1..(Len(s) - k) : m + i - 1 = k + i
    BY <1>1
  <2>2. b = SubSeq(s, m, n)
    BY DEF Rest
  <2> HIDE DEF b, m, n
  <2>3. b \in Seq(T) /\ Len(b) = n - m + 1 /\ \A i \in 1..(n - m + 1) : b[i] = s[m + i - 1]
    BY <2>1, <2>2, PartType
  <2> QED
    BY <2>1, <2>3
<1>4. at + Len(s) <= Len(text) /\ \A i \in 1..Len(s) : s[i] = text[at + i]
  BY DEF Follow
<1>5. Follow(a, k, text, at)
  <2>1. \A i \in 1..k : i \in 1..Len(s)
    BY <1>1
  <2> HIDE DEF a
  <2> QED
    BY <1>1, <1>2, <1>4, <2>1 DEF Follow
<1>6. Follow(b, Len(s) - k, text, at + k)
  <2> HIDE DEF b
  <2>1. ASSUME NEW i \in 1..(Len(s) - k) PROVE b[i] = text[at + k + i]
    <3>1. k + i \in 1..Len(s) /\ at + k + i = at + (k + i)
      BY <1>1
    <3> QED
      BY <1>3, <1>4, <3>1
  <2> QED
    BY <1>1, <1>4, <2>1 DEF Follow
<1> QED
  BY <1>2, <1>3, <1>5, <1>6

\* Two pieces of a text, one after the other.
LEMMA PiecesFollow ==
  ASSUME NEW T, NEW text \in Seq(T), NEW at \in Nat, NEW a \in Seq(T), NEW b \in Seq(T),
         Follow(a, Len(a), text, at), Follow(b, Len(b), text, at + Len(a))
  PROVE  a \o b \in Seq(T) /\ Len(a \o b) = Len(a) + Len(b) /\ Follow(a \o b, Len(a) + Len(b), text, at)
<1> DEFINE c == a \o b
<1>1. Len(a) \in Nat /\ Len(b) \in Nat /\ Len(text) \in Nat
  OBVIOUS
<1>2. /\ c \in Seq(T) /\ Len(c) = Len(a) + Len(b)
      /\ \A i \in 1..(Len(a) + Len(b)) : c[i] = IF i <= Len(a) THEN a[i] ELSE b[i - Len(a)]
  BY ConcatType
<1> HIDE DEF c
<1>3. ASSUME NEW i \in 1..(Len(a) + Len(b)) PROVE c[i] = text[at + i]
  <2>1. CASE i <= Len(a)
    <3>1. i \in 1..Len(a)
      BY <1>1, <2>1
    <3> QED
      BY <1>2, <2>1, <3>1 DEF Follow
  <2>2. CASE ~(i <= Len(a))
    <3>1. i - Len(a) \in 1..Len(b) /\ at + Len(a) + (i - Len(a)) = at + i
      BY <1>1, <2>2
    <3> QED
      BY <1>2, <2>2, <3>1 DEF Follow
  <2> QED
    BY <2>1, <2>2
<1> QED
  BY <1>1, <1>2, <1>3 DEF Follow, c

\* What a frame keeps of another but for what was read.
KeepsBut(f, g) ==
  /\ g.fn = f.fn /\ g.pc = f.pc /\ g.method = f.method /\ g.secured = f.secured /\ g.whole = f.whole
  /\ g.parser = f.parser /\ g.left = f.left /\ g.received = f.received /\ g.connect = f.connect
  /\ g.link = f.link /\ g.expired = f.expired /\ g.later = f.later /\ g.disturbed = f.disturbed
  /\ g.given = f.given

Takes(f, g, n, len, v) ==
  /\ KeepsBut(f, g) /\ DOMAIN g = ExchangeFields /\ Holds(g, v)
  /\ g.wire = Rest(f.wire, n)
  /\ n < len /\ n < Len(f.wire) => Len(f.whole) - Len(f.wire) + n \in g.cuts

LEMMA TookHolds ==
  ASSUME NEW v \in Versions, NEW f, DOMAIN f = ExchangeFields, Holds(f, v),
         NEW n \in 1..Len(f.wire), NEW at \in Nat, at + n <= OtaBufLen, NEW len
  PROVE  Takes(f, Took(f, n, at, len), n, len, v)
<1> DEFINE g == Took(f, n, at, len)
           piece == Piece(f.wire, n)
           rest == Rest(f.wire, n)
<1>1. /\ f.buffer \in Seq(Tokens(v)) /\ Len(f.buffer) = OtaBufLen /\ f.wire \in Seq(Tokens(v))
      /\ OtaBufLen \in Nat /\ Len(f.wire) \in Nat /\ n \in Nat /\ n <= Len(f.wire)
  BY FirmwareType DEF Holds
<1>2. /\ piece \in Seq(Tokens(v)) /\ Len(piece) = n
      /\ rest \in Seq(Tokens(v)) /\ Len(rest) = Len(f.wire) - n
  BY <1>1 DEF Piece, Rest
<1>3. /\ KeepsBut(f, g) /\ DOMAIN g = ExchangeFields
      /\ g.buffer = Put(f.buffer, at, piece) /\ g.wire = rest
      /\ n < len /\ n < Len(f.wire) => Len(f.whole) - Len(f.wire) + n \in g.cuts
  BY DEF Took, KeepsBut, ExchangeFields, Piece, Rest
<1> HIDE DEF g, piece, rest
<1>4. g.buffer \in Seq(Tokens(v)) /\ Len(g.buffer) = OtaBufLen
  <2> DEFINE b == f.buffer
  <2>1. b \in Seq(Tokens(v)) /\ piece \in Seq(Tokens(v)) /\ at \in Nat /\ at + Len(piece) <= Len(b)
    BY <1>1, <1>2
  <2>2. g.buffer = Put(b, at, piece) /\ Len(b) = OtaBufLen
    BY <1>1, <1>3
  <2> HIDE DEF b
  <2>3. Put(b, at, piece) \in Seq(Tokens(v)) /\ Len(Put(b, at, piece)) = Len(b)
    BY <2>1, PutIs
  <2> QED
    BY <2>2, <2>3
<1>5. Holds(g, v)
  BY <1>2, <1>3, <1>4 DEF Holds, KeepsBut
<1> QED
  BY <1>3, <1>5 DEF Takes, g, piece, rest

\* A return owes nothing but the lengths it names.
LEMMA ReturnAccounts ==
  ASSUME NEW v \in Versions, NEW c, c.version = v, NEW f, DOMAIN f = ExchangeFields, Holds(f, v),
         f.link \in {"up", "closing", "dead"}, NEW result \in Int, NEW disconnects,
         Owes(Return(f, result, disconnects), c)
  PROVE  Accounts(Return(f, result, disconnects), c)
<1> DEFINE g == Return(f, result, disconnects)
<1>1. /\ g.fn = "returned" /\ g.pc = "returned" /\ g.received = result /\ g.method = f.method
      /\ g.buffer = f.buffer /\ g.wire = f.wire /\ g.whole = f.whole /\ g.parser = f.parser
      /\ g.left = f.left /\ g.connect = f.connect /\ g.given = f.given
      /\ g.secured = f.secured /\ g.expired = f.expired /\ g.later = f.later /\ g.disturbed = f.disturbed
      /\ g.link = IF disconnects THEN "closed" ELSE f.link
  BY DEF Return, ExchangeFields
<1> HIDE DEF g
<1>2. Holds(g, v)
  BY <1>1 DEF Holds
<1> QED
  BY <1>1, <1>2 DEF Accounts, Calling, g

\* What a read gives: tokens, nothing in time, or an end that only a disturbance brings.
IsRead(f, n, len) ==
  /\ n \in Int
  /\ \/ n > 0 /\ n <= len /\ n \in 1..Len(f.wire)
     \/ n = NOTHING_READ
     \/ /\ f.disturbed
        /\ n = READ_ERROR \/ (n = 0 /\ f.secured)

LEMMA ReadsAre ==
  ASSUME NEW v \in Versions, NEW f, Holds(f, v), Reading(f), NEW len \in Nat, NEW early \in BOOLEAN,
         NEW n \in Reads(f, len, early)
  PROVE  IsRead(f, n, len)
<1> SUFFICES /\ n \in Int
             /\ \/ n > 0 /\ n <= len /\ n \in 1..Len(f.wire)
                \/ n = NOTHING_READ
                \/ /\ f.disturbed
                   /\ n = READ_ERROR \/ (n = 0 /\ f.secured)
  BY DEF IsRead
<1>1. /\ f.wire \in Seq(Tokens(v)) /\ Len(f.wire) \in Nat /\ f.link \in {"up", "closing", "dead"}
      /\ f.link \in {"closing", "dead"} => f.disturbed
  BY DEF Holds, Reading
<1>2. CASE len = 0
  BY <1>2 DEF Reads, NOTHING_READ
<1>3. CASE len # 0 /\ f.wire # <<>>
  <2> DEFINE most == IF len < Len(f.wire) THEN len ELSE Len(f.wire)
  <2>1. n \in 1..most
    BY <1>3 DEF Reads
  <2> QED
    BY <1>1, <2>1
<1>4. CASE len # 0 /\ f.wire = <<>>
  <2>1. n \in CASE f.link = "up" -> {NOTHING_READ}
                [] f.link = "closing" -> {IF f.secured THEN 0 ELSE READ_ERROR}
                [] f.link = "dead" -> {READ_ERROR}
    BY <1>4 DEF Reads
  <2> QED
    BY <1>1, <2>1 DEF NOTHING_READ, READ_ERROR
<1> QED
  BY <1>2, <1>3, <1>4

\* An exchange that a disturbance ended owes nothing.
LEMMA DisturbedAccounts ==
  ASSUME NEW v \in Versions, NEW c, c.version = v, NEW f, DOMAIN f = ExchangeFields, Holds(f, v),
         f.link \in {"up", "closing", "dead"}, f.disturbed, NEW n \in Int,
         n = READ_ERROR \/ (n = 0 /\ f.secured)
  PROVE  Accounts(Return(f, n, TRUE), c)
<1> DEFINE g == Return(f, n, TRUE)
<1>1. g.received = n /\ g.disturbed /\ (n = 0 => g.secured)
  BY DEF Return, ExchangeFields, READ_ERROR
<1>2. Owes(g, c)
  <2> HIDE DEF g
  <2> QED
    BY <1>1 DEF Owes, Quiet, READ_ERROR
<1> QED
  BY <1>2, ReturnAccounts

-----------------------------------------------------------------------------
(* The steps of a fetch keep what it owes.                                 *)

\* After the header comes the firmware.
LEMMA BodyFollows ==
  ASSUME NEW v \in Versions, NEW k \in Nat, NEW n \in Nat, NEW s, Follow(s, n, Answer(v), HeaderLen + k)
  PROVE  Follow(s, n, Firmware[v], k) /\ k + n <= Size0(v)
<1>1. Len(Answer(v)) = HeaderLen + Size0(v) /\ Size0(v) = Len(Firmware[v]) /\ Size0(v) \in Nat /\ HeaderLen \in Nat
  BY AnswerIs, FirmwareType DEF HeaderLen
<1>2. k + n <= Size0(v)
  BY <1>1 DEF Follow
<1>3. ASSUME NEW i \in 1..n PROVE s[i] = Firmware[v][k + i]
  <2>1. k + i \in 1..Size0(v) /\ HeaderLen + (k + i) = HeaderLen + k + i
    BY <1>1, <1>2
  <2>2. s[i] = Answer(v)[HeaderLen + (k + i)]
    BY <2>1 DEF Follow
  <2> QED
    BY <2>1, <2>2, AnswerIs
<1> QED
  BY <1>1, <1>2, <1>3 DEF Follow

\* Nothing is the end of any text.
LEMMA EndsWithNothing == ASSUME NEW S, NEW text \in Seq(S), NEW v PROVE EndsWith(text, 0, v)
  BY DEF EndsWith

LEMMA BodyBeginsAccounts ==
  ASSUME NEW v \in Versions, NEW c, c.version = v, NEW S, c.digest \in Seq(S),
         NEW f, DOMAIN f = ExchangeFields, f.fn = "perform", f.pc = "header", f.method \in {"HEAD", "GET"},
         f.callback = (f.method = "GET"), Holds(f, v), ~f.later, Parsed(f.parser, HeaderLen, v),
         Follow(f.buffer, f.left, Answer(v), HeaderLen),
         Follow(f.wire, Len(f.wire), Answer(v), HeaderLen + f.left)
  PROVE  Accounts(BodyBegins(f), c)
<1> DEFINE g == [f EXCEPT !.received = f.left]
           b == BodyBegins(f)
<1>1. /\ f.left \in Nat /\ f.left <= OtaBufLen /\ Size0(v) \in Nat /\ OtaBufLen \in Nat /\ Size0(v) > OtaBufLen
      /\ f.link \in {"up", "closing", "dead"} /\ Size(f) = OtaBufLen
      /\ f.wire \in Seq(Tokens(v)) /\ Len(f.wire) \in Nat /\ f.buffer \in Seq(Tokens(v)) /\ Len(f.buffer) = OtaBufLen
  BY FirmwareType DEF Holds, Size
<1>2. /\ f.parser.sound => f.parser.length = Size0(v)
      /\ ~f.parser.chunked /\ f.parser.length \in Nat
  BY DEF Parsed, Parsers, HeaderLen
<1>3. /\ Follow(f.buffer, f.left, Firmware[v], 0)
      /\ Follow(f.wire, Len(f.wire), Firmware[v], f.left) /\ f.left \in 0..Size0(v)
  <2>1. HeaderLen = HeaderLen + 0
    BY DEF HeaderLen
  <2>2. Follow(f.buffer, f.left, Firmware[v], 0) /\ 0 + f.left <= Size0(v)
    BY <1>1, <2>1, BodyFollows
  <2>3. Follow(f.wire, Len(f.wire), Firmware[v], f.left)
    BY <1>1, BodyFollows
  <2> QED
    BY <1>1, <2>2, <2>3
<1>4. /\ DOMAIN g = ExchangeFields /\ Holds(g, v) /\ g.link = f.link /\ g.method = f.method
      /\ g.parser = f.parser /\ g.received = f.left /\ g.left = f.left /\ g.buffer = f.buffer /\ g.wire = f.wire
      /\ g.pc = "header" /\ g.fn = "perform" /\ ~g.later
  BY <1>1 DEF Holds, ExchangeFields
<1>5. CASE f.method = "HEAD"
  <2> DEFINE r == Return(g, TC_IOT_SUCCESS, FALSE)
  <2>1. b = r
    BY <1>5 DEF BodyBegins
  <2>2. r.received = 0 /\ r.method = "HEAD" /\ r.parser = f.parser
    BY <1>4, <1>5 DEF Return, TC_IOT_SUCCESS, ExchangeFields
  <2>3. Owes(r, c)
    <3> HIDE DEF r
    <3> QED
      BY <1>2, <2>2 DEF Owes, Fine
  <2> HIDE DEF g
  <2>4. TC_IOT_SUCCESS \in Int
    BY DEF TC_IOT_SUCCESS
  <2>5. Accounts(r, c)
    BY <1>1, <1>4, <2>3, <2>4, ReturnAccounts
  <2> QED
    BY <2>1, <2>5
<1>6. CASE f.method = "GET" /\ f.parser.length > Size(f)
  <2> DEFINE given == Piece(f.buffer, f.left)
             d == [g EXCEPT !.pc = "called", !.given = given]
  <2>1. b = d
    BY <1>6 DEF BodyBegins, Piece
  <2>2. given \in Seq(Tokens(v)) /\ Len(given) = f.left /\ \A i \in 1..f.left : given[i] = f.buffer[i]
    <3>1. 1 \in 1..(Len(f.buffer) + 1) /\ f.left \in (1 - 1)..Len(f.buffer)
          /\ f.left - 1 + 1 = f.left /\ \A i \in 1..f.left : 1 + i - 1 = i
      BY <1>1
    <3>2. /\ given \in Seq(Tokens(v)) /\ Len(given) = f.left - 1 + 1
          /\ \A i \in 1..(f.left - 1 + 1) : given[i] = f.buffer[1 + i - 1]
      BY <1>1, <3>1, PartType DEF Piece
    <3> HIDE DEF given
    <3> QED
      BY <3>1, <3>2
  <2> HIDE DEF given, g
  <2>3. /\ d.pc = "called" /\ d.fn = "perform" /\ d.given = given /\ d.wire = f.wire /\ d.received = f.left
        /\ d.parser = f.parser /\ ~d.later /\ d.link = f.link
    BY <1>4 DEF ExchangeFields
  <2>4. Holds(d, v)
    BY <1>1, <1>4, <2>2 DEF Holds, ExchangeFields
  <2> HIDE DEF d
  <2>5. Follow(given, Len(given), Firmware[v], 0)
    BY <1>3, <2>2 DEF Follow
  <2>6. EndsWith(c.digest, 0, v)
    BY EndsWithNothing
  <2>7. f.left - Len(given) = 0 /\ Len(given) <= f.left
    BY <1>1, <2>2
  <2>8. InBody(d, c)
    BY <1>1, <1>2, <1>3, <2>2, <2>3, <2>5, <2>6, <2>7 DEF InBody
  <2>9. Accounts(d, c)
    BY <2>3, <2>4, <2>8 DEF Accounts, Calling
  <2> QED
    BY <2>1, <2>9
<1>7. CASE f.method = "GET" /\ ~(f.parser.length > Size(f))
  <2> DEFINE d == [g EXCEPT !.pc = "identity"]
  <2>1. b = d
    BY <1>2, <1>7 DEF BodyBegins
  <2>2. ~f.parser.sound
    BY <1>1, <1>2, <1>7
  <2> HIDE DEF g
  <2>3. /\ d.pc = "identity" /\ d.fn = "perform" /\ d.parser = f.parser /\ d.method = "GET"
        /\ d.received >= 0 /\ d.parser.length <= OtaBufLen
    BY <1>1, <1>2, <1>4, <1>7 DEF ExchangeFields
  <2>4. Holds(d, v)
    BY <1>1, <1>4 DEF Holds, ExchangeFields
  <2> HIDE DEF d
  <2>5. Accounts(d, c)
    BY <2>2, <2>3, <2>4 DEF Accounts, Calling
  <2> QED
    BY <2>1, <2>5
<1> QED
  BY <1>5, <1>6, <1>7

\* The tokens in a buffer before a position.
LEMMA PrefixIs ==
  ASSUME NEW T, NEW s \in Seq(T), NEW k \in 0..Len(s)
  PROVE  Piece(s, k) \in Seq(T) /\ Len(Piece(s, k)) = k /\ \A i \in 1..k : Piece(s, k)[i] = s[i]
<1> DEFINE p == Piece(s, k)
<1>1. /\ 1 \in 1..(Len(s) + 1) /\ k \in (1 - 1)..Len(s)
      /\ k - 1 + 1 = k /\ \A i \in 1..k : 1 + i - 1 = i
  OBVIOUS
<1>2. p \in Seq(T) /\ Len(p) = k - 1 + 1 /\ \A i \in 1..(k - 1 + 1) : p[i] = s[1 + i - 1]
  BY <1>1, PartType DEF Piece
<1> HIDE DEF p
<1>3. p \in Seq(T) /\ Len(p) = k /\ \A i \in 1..k : p[i] = s[i]
  BY <1>1, <1>2
<1> QED
  BY <1>3 DEF p

\* What is in the buffer is parsed: the rest of the last read, and this one.
Agree(a, b, n) == \A i \in 1..n : a[i] = b[i]
Fed(f, n) == Piece(f.buffer, f.left) \o Piece(f.wire, n)

LEMMA NulledIs ==
  ASSUME NEW v \in Versions, NEW f, DOMAIN f = ExchangeFields, Holds(f, v),
         NEW n \in 1..Len(f.wire), f.left + n <= OtaBufLen
  PROVE  LET g == Nulled(f, n) IN
         /\ KeepsBut(f, g) /\ DOMAIN g = ExchangeFields /\ Holds(g, v)
         /\ g.wire = Rest(f.wire, n)
         /\ n < OtaBufLen - f.left /\ n < Len(f.wire) => Len(f.whole) - Len(f.wire) + n \in g.cuts
         /\ Fed(f, n) \in Seq(Tokens(v)) /\ Len(Fed(f, n)) = n + f.left
         /\ Agree(g.buffer, Fed(f, n), n + f.left)
<1> DEFINE g == Nulled(f, n)
           took == Took(f, n, f.left, Size(f) - f.left)
           piece == Piece(f.wire, n)
           first == Piece(f.buffer, f.left)
           read == n + f.left
<1>1. /\ f.buffer \in Seq(Tokens(v)) /\ Len(f.buffer) = OtaBufLen /\ f.wire \in Seq(Tokens(v))
      /\ OtaBufLen \in Nat /\ Len(f.wire) \in Nat /\ n \in 0..Len(f.wire) /\ f.left \in 0..OtaBufLen
      /\ Size(f) = OtaBufLen /\ "NUL" \in Tokens(v) /\ read \in Nat
  <2>1. /\ f.buffer \in Seq(Tokens(v)) /\ Len(f.buffer) = OtaBufLen /\ f.wire \in Seq(Tokens(v))
        /\ f.left \in 0..OtaBufLen
    BY DEF Holds
  <2>2. Len(f.wire) \in Nat
    BY <2>1
  <2>3. OtaBufLen \in Nat
    BY FirmwareType
  <2>4. "NUL" \in Tokens(v)
    BY DEF Tokens
  <2>5. n \in 0..Len(f.wire) /\ read \in Nat
    BY <2>1, <2>2, <2>3
  <2> QED
    BY <2>1, <2>2, <2>3, <2>4, <2>5 DEF Size
<1>2. /\ piece \in Seq(Tokens(v)) /\ Len(piece) = n /\ \A i \in 1..n : piece[i] = f.wire[i]
      /\ first \in Seq(Tokens(v)) /\ Len(first) = f.left /\ \A i \in 1..f.left : first[i] = f.buffer[i]
  <2> DEFINE w == f.wire
             b == f.buffer
             k == f.left
  <2>1. w \in Seq(Tokens(v)) /\ n \in 0..Len(w) /\ b \in Seq(Tokens(v)) /\ k \in 0..Len(b)
    BY <1>1
  <2> HIDE DEF w, b, k
  <2>2. Piece(w, n) \in Seq(Tokens(v)) /\ Len(Piece(w, n)) = n /\ \A i \in 1..n : Piece(w, n)[i] = w[i]
    BY <2>1, PrefixIs
  <2>3. Piece(b, k) \in Seq(Tokens(v)) /\ Len(Piece(b, k)) = k /\ \A i \in 1..k : Piece(b, k)[i] = b[i]
    BY <2>1, PrefixIs
  <2> QED
    BY <2>2, <2>3 DEF w, b, k
<1>3. /\ KeepsBut(f, took) /\ DOMAIN took = ExchangeFields /\ Holds(took, v)
      /\ took.buffer = Put(f.buffer, f.left, piece)
      /\ took.wire = Rest(f.wire, n)
      /\ n < OtaBufLen - f.left /\ n < Len(f.wire) => Len(f.whole) - Len(f.wire) + n \in took.cuts
  <2> DEFINE len == Size(f) - f.left
             at == f.left
  <2>1. took = Took(f, n, f.left, len) /\ len = OtaBufLen - f.left
    BY <1>1
  <2>2. at \in Nat /\ at + n <= OtaBufLen
    BY <1>1
  <2>3. took = Took(f, n, at, len) /\ took.buffer = Put(f.buffer, at, piece)
    BY <2>1 DEF Took, ExchangeFields, Piece
  <2> HIDE DEF took, len, at
  <2>4. took = Took(f, n, at, len)
    BY <2>3
  <2>5. Takes(f, took, n, len, v)
    BY <2>2, <2>4, TookHolds
  <2>6. at = f.left
    BY DEF at
  <2> QED
    BY <2>1, <2>3, <2>5, <2>6 DEF Takes
<1>4. g = [took EXCEPT !.buffer = PutNul(@, read)]
  BY DEF Nulled
<1> HIDE DEF took, piece, first
<1>5. /\ took.buffer \in Seq(Tokens(v)) /\ Len(took.buffer) = OtaBufLen
      /\ \A i \in 1..OtaBufLen : i <= f.left => took.buffer[i] = f.buffer[i]
      /\ \A i \in 1..n : took.buffer[f.left + i] = piece[i]
  <2> DEFINE old == f.buffer
             at == f.left
             put == Put(old, at, piece)
  <2>1. /\ old \in Seq(Tokens(v)) /\ at \in Nat /\ at + Len(piece) <= Len(old) /\ Len(old) = OtaBufLen
        /\ piece \in Seq(Tokens(v))
    BY <1>1, <1>2
  <2>2. took.buffer = put
    BY <1>3
  <2> HIDE DEF old, at
  <2>3. /\ put \in Seq(Tokens(v)) /\ Len(put) = Len(old)
        /\ \A i \in 1..Len(old) : i <= at => put[i] = old[i]
        /\ \A i \in 1..Len(piece) : put[at + i] = piece[i]
    BY <2>1, PutIs
  <2> HIDE DEF put
  <2>4. /\ took.buffer \in Seq(Tokens(v)) /\ Len(took.buffer) = OtaBufLen
        /\ \A i \in 1..OtaBufLen : i <= at => took.buffer[i] = old[i]
        /\ \A i \in 1..n : took.buffer[at + i] = piece[i]
    BY <1>2, <2>1, <2>2, <2>3
  <2> QED
    BY <2>4 DEF old, at
<1>6. /\ PutNul(took.buffer, read) \in Seq(Tokens(v)) /\ Len(PutNul(took.buffer, read)) = OtaBufLen
      /\ \A i \in 1..OtaBufLen : i <= read => PutNul(took.buffer, read)[i] = took.buffer[i]
  <2> DEFINE b == took.buffer
             end == read
  <2>1. "NUL" \in Tokens(v) /\ b \in Seq(Tokens(v)) /\ end \in Nat
    BY <1>1, <1>5
  <2>2. Len(b) = OtaBufLen
    BY <1>5
  <2> HIDE DEF b, end
  <2>3. /\ PutNul(b, end) \in Seq(Tokens(v)) /\ Len(PutNul(b, end)) = Len(b)
        /\ \A i \in 1..Len(b) : i <= end => PutNul(b, end)[i] = b[i]
    BY <2>1, PutNulIs
  <2>4. /\ PutNul(b, end) \in Seq(Tokens(v)) /\ Len(PutNul(b, end)) = OtaBufLen
        /\ \A i \in 1..OtaBufLen : i <= end => PutNul(b, end)[i] = b[i]
    BY <2>2, <2>3
  <2> QED
    BY <2>4 DEF b, end
<1>7. /\ KeepsBut(took, g) /\ DOMAIN g = ExchangeFields /\ g.wire = took.wire /\ g.cuts = took.cuts
      /\ g.buffer = PutNul(took.buffer, read)
  BY <1>3, <1>4 DEF KeepsBut, ExchangeFields
<1> HIDE DEF g
<1>8. KeepsBut(f, g)
  BY <1>3, <1>7 DEF KeepsBut
<1>9. Holds(g, v)
  BY <1>3, <1>6, <1>7 DEF Holds, KeepsBut
<1>10. /\ Fed(f, n) \in Seq(Tokens(v)) /\ Len(Fed(f, n)) = read
       /\ \A i \in 1..read : Fed(f, n)[i] = IF i <= f.left THEN first[i] ELSE piece[i - f.left]
  <2>1. Fed(f, n) = first \o piece
    BY DEF Fed, first, piece
  <2> DEFINE whole == first \o piece
  <2>2. whole \in Seq(Tokens(v)) /\ DOMAIN whole = 1..(Len(first) + Len(piece))
        /\ \A i \in 1..(Len(first) + Len(piece)) :
             whole[i] = IF i <= Len(first) THEN first[i] ELSE piece[i - Len(first)]
    BY <1>2, ConcatType
  <2>3. read = f.left + n
    BY <1>1
  <2>4. whole \in Seq(Tokens(v)) /\ DOMAIN whole = 1..(f.left + n)
        /\ \A i \in 1..(f.left + n) : whole[i] = IF i <= f.left THEN first[i] ELSE piece[i - f.left]
    <3> HIDE DEF whole
    <3> QED
      BY <1>2, <2>2
  <2>5. Fed(f, n) = whole
    BY <2>1
  <2> HIDE DEF whole, read
  <2> QED
    BY <1>1, <2>3, <2>4, <2>5
<1>11. ASSUME NEW i \in 1..read PROVE g.buffer[i] = Fed(f, n)[i]
  <2>1. i \in 1..OtaBufLen /\ i <= read
    BY <1>1
  <2>2. g.buffer[i] = took.buffer[i]
    BY <1>6, <1>7, <2>1
  <2>3. CASE i <= f.left
    <3>1. i \in 1..f.left
      BY <1>1, <2>3
    <3> QED
      BY <1>2, <1>5, <1>10, <2>1, <2>2, <2>3, <3>1
  <2>4. CASE ~(i <= f.left)
    <3>1. i - f.left \in 1..n /\ f.left + (i - f.left) = i
      BY <1>1, <2>4
    <3>2. took.buffer[i] = piece[i - f.left]
      BY <1>5, <3>1
    <3> QED
      BY <1>10, <2>2, <2>4, <3>2
  <2> QED
    BY <2>3, <2>4
<1> QED
  BY <1>3, <1>7, <1>8, <1>9, <1>10, <1>11 DEF g, Agree

\* What was not parsed is moved to the front of the buffer.
Moved(buf, parsed, read) ==
  IF read - parsed = 0 THEN buf
  ELSE PutNul(Put(buf, 0, SubSeq(buf, parsed + 1, read)), read - parsed)

LEMMA MovedIs ==
  ASSUME NEW T, "NUL" \in T, NEW buf \in Seq(T), NEW read \in 0..Len(buf), NEW parsed \in 0..read
  PROVE  /\ Moved(buf, parsed, read) \in Seq(T) /\ Len(Moved(buf, parsed, read)) = Len(buf)
         /\ \A i \in 1..(read - parsed) : Moved(buf, parsed, read)[i] = buf[parsed + i]
<1> DEFINE left == read - parsed
           m == parsed + 1
           part == SubSeq(buf, m, read)
           put == Put(buf, 0, part)
           moved == PutNul(put, left)
           b == Moved(buf, parsed, read)
<1>1. Len(buf) \in Nat /\ read \in Nat /\ parsed \in Nat /\ left \in Nat /\ left <= Len(buf)
  OBVIOUS
<1>2. CASE left = 0
  <2>1. b = buf
    BY <1>2 DEF Moved
  <2> HIDE DEF b
  <2> QED
    BY <1>2, <2>1 DEF b
<1>3. CASE left # 0
  <2>1. b = moved
    BY <1>3 DEF Moved
  <2>2. /\ m \in 1..(Len(buf) + 1) /\ read \in (m - 1)..Len(buf) /\ read - m + 1 = left
        /\ \A i \in 1..left : m + i - 1 = parsed + i
    BY <1>1
  <2> HIDE DEF m, b, left
  <2>3. part \in Seq(T) /\ Len(part) = read - m + 1 /\ \A i \in 1..(read - m + 1) : part[i] = buf[m + i - 1]
    BY <2>2, PartType
  <2> HIDE DEF part
  <2>4. part \in Seq(T) /\ Len(part) = left /\ \A i \in 1..left : part[i] = buf[parsed + i]
    BY <2>2, <2>3
  <2>5. 0 \in Nat /\ 0 + Len(part) <= Len(buf)
    BY <1>1, <2>4
  <2>6. put \in Seq(T) /\ Len(put) = Len(buf) /\ \A i \in 1..Len(part) : put[0 + i] = part[i]
    BY <2>4, <2>5, PutIs
  <2> HIDE DEF put
  <2>7. /\ moved \in Seq(T) /\ Len(moved) = Len(put)
        /\ \A i \in 1..Len(put) : i <= left => moved[i] = put[i]
    BY <1>1, <2>6, PutNulIs
  <2> HIDE DEF moved
  <2>8. ASSUME NEW i \in 1..left PROVE moved[i] = buf[parsed + i]
    <3>1. i \in 1..Len(put) /\ i <= left /\ 0 + i = i /\ i \in 1..Len(part)
      BY <1>1, <2>4, <2>6
    <3> QED
      BY <2>4, <2>6, <2>7, <3>1
  <2>9. b \in Seq(T) /\ Len(b) = Len(buf) /\ \A i \in 1..left : b[i] = buf[parsed + i]
    BY <2>1, <2>6, <2>7, <2>8
  <2> QED
    BY <2>9 DEF b, left
<1> QED
  BY <1>2, <1>3

\* The buffer feeds the parser.
LEMMA FedFeeds ==
  ASSUME NEW v \in Versions, NEW f, Holds(f, v), NEW at \in 0..HeaderLen,
         Follow(f.buffer, f.left, Answer(v), at), Follow(f.wire, Len(f.wire), Answer(v), at + f.left),
         NEW n \in 1..Len(f.wire), f.left + n <= OtaBufLen
  PROVE  /\ Feeds(Fed(f, n), at, v) /\ Len(Fed(f, n)) = n + f.left
         /\ Follow(Rest(f.wire, n), Len(f.wire) - n, Answer(v), at + f.left + n)
         /\ Len(Rest(f.wire, n)) = Len(f.wire) - n
<1> DEFINE first == Piece(f.buffer, f.left)
           piece == Piece(f.wire, n)
           rest == Rest(f.wire, n)
           text == Answer(v)
           from == at + f.left
<1>1. /\ f.buffer \in Seq(Tokens(v)) /\ f.left \in 0..Len(f.buffer) /\ f.wire \in Seq(Tokens(v))
      /\ n \in 0..Len(f.wire) /\ text \in Seq(Tokens(v)) /\ from \in Nat /\ at \in Nat /\ at \in 0..HeaderLen
      /\ f.left \in Nat
  <2>1. /\ f.buffer \in Seq(Tokens(v)) /\ Len(f.buffer) = OtaBufLen /\ f.left \in 0..OtaBufLen
        /\ f.wire \in Seq(Tokens(v)) /\ OtaBufLen \in Nat
    BY FirmwareType DEF Holds
  <2>2. text \in Seq(Tokens(v))
    BY AnswerIs
  <2>3. at \in Nat /\ f.left \in Nat
    BY <2>1 DEF HeaderLen
  <2>4. from \in Nat /\ f.left \in 0..Len(f.buffer)
    BY <2>1, <2>3
  <2>5. n \in 0..Len(f.wire)
    <3>1. Len(f.wire) \in Nat
      BY <2>1
    <3> QED
      BY <3>1
  <2> HIDE DEF text, from
  <2> QED
    BY <2>1, <2>2, <2>3, <2>4, <2>5
<1>2. Follow(f.wire, Len(f.wire), text, from)
  OBVIOUS
<1> HIDE DEF text, from
<1>3. first \in Seq(Tokens(v)) /\ Len(first) = f.left /\ \A i \in 1..f.left : first[i] = f.buffer[i]
  BY <1>1, PrefixIs
<1>4. /\ piece \in Seq(Tokens(v)) /\ Len(piece) = n /\ Follow(piece, n, text, from)
      /\ Len(rest) = Len(f.wire) - n /\ Follow(rest, Len(f.wire) - n, text, from + n)
  <2> DEFINE w == f.wire
  <2>1. /\ w \in Seq(Tokens(v)) /\ n \in 0..Len(w) /\ Follow(w, Len(w), text, from)
        /\ text \in Seq(Tokens(v)) /\ from \in Nat
    BY <1>1, <1>2
  <2> HIDE DEF w
  <2>2. /\ Piece(w, n) \in Seq(Tokens(v)) /\ Len(Piece(w, n)) = n /\ Follow(Piece(w, n), n, text, from)
        /\ Len(Rest(w, n)) = Len(w) - n /\ Follow(Rest(w, n), Len(w) - n, text, from + n)
    BY <2>1, PartFollows
  <2> QED
    BY <2>2 DEF w
<1>5. Fed(f, n) = first \o piece
  BY DEF Fed
<1> HIDE DEF first, piece, rest
<1>6. Follow(first, Len(first), text, at)
  BY <1>3 DEF Follow, text
<1>7. Follow(piece, Len(piece), text, at + Len(first))
  BY <1>3, <1>4 DEF from
<1>8. /\ first \o piece \in Seq(Tokens(v)) /\ Len(first \o piece) = Len(first) + Len(piece)
      /\ Follow(first \o piece, Len(first) + Len(piece), text, at)
  BY <1>1, <1>3, <1>4, <1>6, <1>7, PiecesFollow
<1>9. Fed(f, n) \in Seq(Tokens(v)) /\ Len(Fed(f, n)) = f.left + n /\ Follow(Fed(f, n), Len(Fed(f, n)), text, at)
  <2> DEFINE whole == first \o piece
  <2>1. /\ whole \in Seq(Tokens(v)) /\ Len(whole) = f.left + n /\ Follow(whole, f.left + n, text, at)
    BY <1>3, <1>4, <1>8
  <2>2. Fed(f, n) = whole
    BY <1>5
  <2> HIDE DEF whole
  <2> QED
    BY <2>1, <2>2
<1>10. f.left + n = n + f.left
  BY <1>1
<1> QED
  BY <1>1, <1>4, <1>9, <1>10 DEF Feeds, text, from, rest

\* A frame within the loop of the header.
HeaderFrame(f, v) ==
  /\ DOMAIN f = ExchangeFields /\ f.fn = "perform" /\ f.pc = "header" /\ f.method \in {"HEAD", "GET"}
  /\ f.callback = (f.method = "GET") /\ Holds(f, v) /\ ~f.later

LEMMA HeaderParsedAccounts ==
  ASSUME NEW v \in Versions, NEW c, c.version = v, NEW S, c.digest \in Seq(S),
         NEW g, HeaderFrame(g, v), NEW buf, NEW base, Feeds(buf, base, v),
         NEW a, Tracks(a, buf, base, v), Len(buf) <= OtaBufLen, \A i \in 1..Len(buf) : g.buffer[i] = buf[i],
         Follow(g.wire, Len(g.wire), Answer(v), base + Len(buf)),
         a.parser.state = "start" => ~Quiet(g)
  PROVE  Accounts(HeaderParsed(g, a, Len(buf)), c)
<1> DEFINE read == Len(buf)
           left == read - a.parsed
           moved == Moved(g.buffer, a.parsed, read)
           h == [g EXCEPT !.parser = a.parser, !.left = left, !.buffer = moved]
           at == base + a.parsed
<1>1. /\ a \in Analyses /\ a.ok /\ a.parser \in Parsers /\ Parsed(a.parser, at, v)
      /\ a.parsed \in 0..read /\ read \in 0..OtaBufLen /\ base \in Nat /\ at \in Nat
      /\ left \in 0..OtaBufLen /\ OtaBufLen \in Nat /\ at \in 0..HeaderLen
  <2>1. a \in Analyses /\ a.ok /\ Parsed(a.parser, at, v) /\ a.parsed <= read
    BY DEF Tracks
  <2>2. a.parsed \in Nat /\ a.parser \in Parsers /\ read \in Nat /\ base \in Nat /\ OtaBufLen \in Nat
    BY <2>1, FeedsIs, FirmwareType DEF Analyses
  <2>3. at \in 0..HeaderLen
    BY <2>1, <2>2 DEF Parsed, HeaderLen
  <2> QED
    BY <2>1, <2>2, <2>3
<1>2. /\ moved \in Seq(Tokens(v)) /\ Len(moved) = OtaBufLen
      /\ \A i \in 1..left : moved[i] = g.buffer[a.parsed + i]
  <2>1. "NUL" \in Tokens(v) /\ g.buffer \in Seq(Tokens(v)) /\ Len(g.buffer) = OtaBufLen
    BY DEF Tokens, HeaderFrame, Holds
  <2> DEFINE b == g.buffer
             m == Moved(b, a.parsed, read)
  <2>2. b \in Seq(Tokens(v)) /\ read \in 0..Len(b) /\ a.parsed \in 0..read /\ Len(b) = OtaBufLen
    BY <1>1, <2>1
  <2> DEFINE from == a.parsed
  <2>3. "NUL" \in Tokens(v) /\ b \in Seq(Tokens(v)) /\ read \in 0..Len(b) /\ from \in 0..read
    BY <2>1, <2>2
  <2> HIDE DEF b, read, from
  <2>4. /\ Moved(b, from, read) \in Seq(Tokens(v)) /\ Len(Moved(b, from, read)) = Len(b)
        /\ \A i \in 1..(read - from) : Moved(b, from, read)[i] = b[from + i]
    BY <2>3, MovedIs
  <2> QED
    BY <2>2, <2>4 DEF b, read, from
<1>3. HeaderParsed(g, a, read) =
        IF ~a.ok THEN Return(g, TC_IOT_FAILURE, TRUE)
        ELSE IF a.parser.status \notin {"200", "206"} THEN Return(h, REQUEST_FAILED, TRUE)
        ELSE IF a.parser.state = "end" THEN BodyBegins(h)
        ELSE IF g.expired THEN Return(h, read, TRUE)
        ELSE h
  BY DEF HeaderParsed, Moved
<1>4. HeaderFrame(g, v)
  OBVIOUS
<1> HIDE DEF moved
<1>5. HeaderFrame(h, v) /\ h.parser = a.parser /\ h.left = left /\ h.buffer = moved /\ h.wire = g.wire
      /\ h.cuts = g.cuts /\ h.disturbed = g.disturbed /\ h.expired = g.expired
  <2>1. h.parser = a.parser /\ h.left = left /\ h.buffer = moved /\ h.wire = g.wire /\ DOMAIN h = ExchangeFields
        /\ h.cuts = g.cuts /\ h.disturbed = g.disturbed /\ h.expired = g.expired /\ h.fn = g.fn /\ h.pc = g.pc
        /\ h.method = g.method /\ h.callback = g.callback /\ h.later = g.later /\ h.whole = g.whole
        /\ h.connect = g.connect /\ h.received = g.received /\ h.given = g.given /\ h.secured = g.secured
        /\ h.link = g.link
    BY DEF HeaderFrame, ExchangeFields
  <2> HIDE DEF h
  <2>2. Holds(h, v)
    BY <1>1, <1>2, <2>1 DEF HeaderFrame, Holds
  <2> QED
    BY <2>1, <2>2 DEF HeaderFrame
<1> HIDE DEF h
<1>6. h.link \in {"up", "closing", "dead"}
  BY <1>5 DEF HeaderFrame, Holds
<1>7. Follow(h.buffer, left, Answer(v), at) /\ Follow(h.wire, Len(h.wire), Answer(v), at + left)
  <2>1. at + left = base + read
    BY <1>1
  <2>2. ASSUME NEW i \in 1..left PROVE h.buffer[i] = Answer(v)[at + i]
    <3>1. a.parsed + i \in 1..Len(buf) /\ base + (a.parsed + i) = at + i
      <4>1. a.parsed \in Nat /\ read \in Nat /\ i \in Nat /\ i >= 1 /\ i <= left
        BY <1>1
      <4>2. left = read - a.parsed /\ at = base + a.parsed /\ Len(buf) = read
        BY <1>1
      <4>3. base \in Nat
        BY <1>1
      <4> DEFINE parsed == a.parsed
                 len == Len(buf)
      <4>4. /\ parsed \in Nat /\ read \in Nat /\ i \in Nat /\ i >= 1 /\ i <= left /\ base \in Nat
            /\ left = read - parsed /\ at = base + parsed /\ len = read
        BY <4>1, <4>2, <4>3
      <4> HIDE DEF left, parsed, len
      <4>5. parsed + i \in 1..len /\ base + (parsed + i) = at + i
        BY <4>4
      <4> QED
        BY <4>5 DEF parsed, len
    <3>2. buf[a.parsed + i] = Answer(v)[at + i]
      BY <3>1, FeedsIs
    <3> QED
      BY <1>2, <1>5, <3>1, <3>2
  <2>3. base + read <= Len(Answer(v))
    BY DEF Feeds, Follow
  <2> QED
    BY <1>5, <2>1, <2>2, <2>3 DEF Follow
<1> HIDE DEF left, at
<1>8. CASE a.parser.status \notin {"200", "206"}
  <2>1. a.parser.state = "start"
    BY <1>1, <1>8 DEF Parsed
  <2> DEFINE r == Return(h, REQUEST_FAILED, TRUE)
  <2>2. r.received = REQUEST_FAILED /\ r.disturbed = h.disturbed /\ r.cuts = h.cuts
    BY <1>5 DEF Return, HeaderFrame, ExchangeFields
  <2>3. HeaderParsed(g, a, read) = r
    BY <1>1, <1>3, <1>8
  <2>4. Owes(r, c)
    <3> HIDE DEF r
    <3>1. ~Quiet(r)
      BY <1>5, <2>1, <2>2 DEF Quiet
    <3>2. ~(REQUEST_FAILED >= 0)
      BY DEF REQUEST_FAILED
    <3> QED
      BY <2>2, <3>1, <3>2 DEF Owes
  <2>5. REQUEST_FAILED \in Int
    BY DEF REQUEST_FAILED
  <2> HIDE DEF read
  <2>6. Accounts(r, c)
    BY <1>5, <1>6, <2>4, <2>5, ReturnAccounts DEF HeaderFrame
  <2> QED
    BY <2>3, <2>6 DEF read
<1>9. CASE a.parser.status \in {"200", "206"} /\ a.parser.state = "end"
  <2>1. HeaderParsed(g, a, read) = BodyBegins(h)
    BY <1>1, <1>3, <1>9
  <2>2. at = HeaderLen
    BY <1>1, <1>9 DEF Parsed, HeaderLen
  <2> HIDE DEF read
  <2>3. Accounts(BodyBegins(h), c)
    BY <1>1, <1>5, <1>7, <2>2, BodyBeginsAccounts DEF HeaderFrame
  <2> QED
    BY <2>1, <2>3 DEF read
<1>10. CASE a.parser.status \in {"200", "206"} /\ a.parser.state # "end" /\ g.expired
  <2> DEFINE r == Return(h, read, TRUE)
  <2>1. HeaderParsed(g, a, read) = r
    BY <1>1, <1>3, <1>10
  <2>2. r.expired
    BY <1>5, <1>10 DEF Return, HeaderFrame, ExchangeFields
  <2>3. Owes(r, c)
    BY <2>2 DEF Owes, Fine
  <2>4. read \in Int
    BY <1>1
  <2> HIDE DEF read
  <2>5. Accounts(r, c)
    BY <1>5, <1>6, <2>3, <2>4, ReturnAccounts DEF HeaderFrame
  <2> QED
    BY <2>1, <2>5 DEF read
<1>11. CASE a.parser.status \in {"200", "206"} /\ a.parser.state # "end" /\ ~g.expired
  <2>1. HeaderParsed(g, a, read) = h
    BY <1>1, <1>3, <1>11
  <2>2. a.parser.state # "start"
    BY <1>1, <1>11 DEF Parsed
  <2>3. InHeader(h, v)
    BY <1>1, <1>5, <1>7, <1>11, <2>2 DEF InHeader, HeaderFrame
  <2>4. Accounts(h, c)
    BY <1>5, <2>3 DEF Accounts, HeaderFrame, Calling
  <2> HIDE DEF read
  <2> QED
    BY <2>1, <2>4 DEF read
<1> QED
  BY <1>8, <1>9, <1>10, <1>11 DEF HeaderFrame, Holds

LEMMA ReadHeaderAccounts ==
  ASSUME NEW v \in Versions, NEW c, c.version = v, NEW S, c.digest \in Seq(S),
         NEW f, HeaderFrame(f, v), Accounts(f, c), NEW early \in BOOLEAN,
         NEW n \in Reads(f, Size(f) - f.left, early), NEW beyond
  PROVE  Accounts(ReadHeader(f, n, beyond), c)
<1>1. /\ Holds(f, v) /\ InHeader(f, v) /\ f.link \in {"up", "closing", "dead"} /\ Size(f) = OtaBufLen
      /\ f.left \in 0..OtaBufLen /\ OtaBufLen \in Nat /\ OtaBufLen >= 3 /\ Reading(f) /\ DOMAIN f = ExchangeFields
      /\ f.wire \in Seq(Tokens(v))
  BY FirmwareType DEF HeaderFrame, Accounts, Holds, Size, Reading
<1>2. /\ n \in Int
      /\ \/ n > 0 /\ n <= OtaBufLen - f.left /\ n \in 1..Len(f.wire)
         \/ n = NOTHING_READ
         \/ /\ f.disturbed
            /\ n = READ_ERROR \/ (n = 0 /\ f.secured)
  <2> DEFINE len == Size(f) - f.left
  <2>1. len \in Nat /\ len = OtaBufLen - f.left
    BY <1>1
  <2> HIDE DEF len
  <2>2. n \in Reads(f, len, early)
    BY DEF len
  <2> QED
    BY <1>1, <2>1, <2>2, ReadsAre DEF IsRead
<1>3. CASE n > 0
  <2>1. n <= OtaBufLen - f.left /\ n \in 1..Len(f.wire) /\ f.left + n <= OtaBufLen
    BY <1>1, <1>2, <1>3 DEF NOTHING_READ, READ_ERROR
  <2>2. PICK at \in 0..HeaderLen :
           /\ Parsed(f.parser, at, v)
           /\ Follow(f.buffer, f.left, Answer(v), at)
           /\ Follow(f.wire, Len(f.wire), Answer(v), at + f.left)
    BY <1>1 DEF InHeader
  <2> DEFINE g == Nulled(f, n)
             buf == Fed(f, n)
             a == Analysed(f, n, beyond)
             after == IF n + f.left < Size(f) THEN "NUL" ELSE beyond
             rest == Rest(f.wire, n)
  <2>3. /\ KeepsBut(f, g) /\ DOMAIN g = ExchangeFields /\ Holds(g, v) /\ g.wire = rest
        /\ n < OtaBufLen - f.left /\ n < Len(f.wire) => Len(f.whole) - Len(f.wire) + n \in g.cuts
        /\ Len(buf) = n + f.left
        /\ \A i \in 1..(n + f.left) : g.buffer[i] = buf[i]
    <3> DEFINE g0 == Nulled(f, n)
    <3>0. DOMAIN f = ExchangeFields /\ Holds(f, v) /\ n \in 1..Len(f.wire) /\ f.left + n <= OtaBufLen
      BY <1>1, <2>1
    <3>1. /\ KeepsBut(f, g0) /\ DOMAIN g0 = ExchangeFields /\ Holds(g0, v) /\ g0.wire = Rest(f.wire, n)
          /\ n < OtaBufLen - f.left /\ n < Len(f.wire) => Len(f.whole) - Len(f.wire) + n \in g0.cuts
      BY <3>0, NulledIs
    <3>2. Len(buf) = n + f.left
      BY <3>0, NulledIs
    <3>3. Agree(g0.buffer, buf, n + f.left)
      BY <3>0, NulledIs
    <3> QED
      BY <3>1, <3>2, <3>3 DEF Agree
  <2>4. /\ Feeds(buf, at, v)
        /\ Follow(rest, Len(f.wire) - n, Answer(v), at + f.left + n)
        /\ Len(rest) = Len(f.wire) - n
    BY <1>1, <2>1, <2>2, FedFeeds
  <2>5. a = Analysis(f.parser, buf, after)
    BY DEF Analysed, Fed, Piece
  <2>6. f.parser.state # "end"
    BY <1>1 DEF InHeader
  <2> HIDE DEF a, buf, after, g, rest
  <2>7. Tracks(a, buf, at, v) /\ (a.parser.state = "start" => ~(Len(buf) >= 3))
    BY <2>2, <2>4, <2>5, <2>6, AnalysisTracks
  <2>8. HeaderFrame(g, v) /\ g.disturbed = f.disturbed
    <3>1. g.callback = f.callback
      BY <1>1 DEF g, Nulled, Took, ExchangeFields
    <3> QED
      BY <2>3, <3>1 DEF HeaderFrame, KeepsBut
  <2>9. ASSUME a.parser.state = "start" PROVE ~Quiet(g)
    <3>1. at = 0 /\ f.parser.state = "start"
      BY <2>2, <2>7, <2>9 DEF Tracks, Parsed, Analyses, HeaderLen
    <3>2. f.left = 0 /\ (f.disturbed \/ f.wire = f.whole) /\ n < 3 /\ n \in Nat /\ n >= 1
      BY <1>1, <2>1, <2>3, <2>7, <2>9, <3>1 DEF InHeader
    <3>3. CASE f.disturbed
      BY <2>8, <3>3 DEF Quiet
    <3>4. CASE f.wire = f.whole
      <4>1. Len(f.wire) >= HeaderLen
        <5>1. f.whole = Answer(v) \/ f.whole = Responded(v)
          BY <1>1 DEF Holds, Sent
        <5>2. Len(Answer(v)) = HeaderLen + Size0(v) /\ Len(Responded(v)) = HeaderLen /\ Size0(v) \in Nat
          BY AnswerIs, FirmwareType
        <5>3. Len(f.whole) = HeaderLen + Size0(v) \/ Len(f.whole) = HeaderLen
          BY <5>1, <5>2
        <5>4. HeaderLen \in Nat
          BY DEF HeaderLen
        <5> QED
          BY <3>4, <5>2, <5>3, <5>4
      <4>2. Len(f.wire) \in Nat
        BY <1>1
      <4>3. n < OtaBufLen - f.left /\ n < Len(f.wire) /\ Len(f.whole) - Len(f.wire) + n = n
        BY <1>1, <3>2, <3>4, <4>1, <4>2 DEF HeaderLen
      <4>4. n \in g.cuts /\ n \in 1..2
        <5>1. Len(f.whole) - Len(f.wire) + n \in g.cuts
          BY <2>3, <4>3
        <5>2. n \in g.cuts
          BY <4>3, <5>1
        <5>3. n \in 1..2
          BY <3>2
        <5> QED
          BY <5>2, <5>3
      <4> QED
        BY <4>4 DEF Quiet
    <3> QED
      BY <3>2, <3>3, <3>4
  <2>10. Follow(g.wire, Len(g.wire), Answer(v), at + Len(buf))
    <3>1. at + Len(buf) = at + f.left + n
      BY <1>1, <2>1, <2>3
    <3> QED
      BY <2>3, <2>4, <3>1
  <2>11. Len(buf) <= OtaBufLen
    BY <1>1, <2>1, <2>3
  <2>12. \A i \in 1..Len(buf) : g.buffer[i] = buf[i]
    BY <2>3
  <2>13. Accounts(HeaderParsed(g, a, Len(buf)), c)
    BY <2>4, <2>7, <2>8, <2>9, <2>10, <2>11, <2>12, HeaderParsedAccounts
  <2>14. ReadHeader(f, n, beyond) = HeaderParsed(g, a, n + f.left)
    BY <1>3, ParseHeaderIs DEF ReadHeader, g, a
  <2> QED
    BY <2>3, <2>13, <2>14
<1>4. CASE n = NOTHING_READ
  <2>1. CASE ~f.expired
    <3>1. ReadHeader(f, n, beyond) = f
      BY <1>4, <2>1 DEF ReadHeader, NOTHING_READ
    <3> QED
      BY <3>1
  <2>2. CASE f.expired
    <3> DEFINE r == Return(f, n, TRUE)
    <3>1. ReadHeader(f, n, beyond) = r
      BY <1>4, <2>2 DEF ReadHeader, NOTHING_READ
    <3>2. r.expired
      BY <1>1, <2>2 DEF Return, ExchangeFields
    <3>3. Owes(r, c)
      BY <3>2 DEF Owes, Fine
    <3>4. Accounts(r, c)
      BY <1>1, <1>2, <3>3, ReturnAccounts
    <3> QED
      BY <3>1, <3>4
  <2> QED
    BY <2>1, <2>2
<1>5. CASE ~(n > 0) /\ n # NOTHING_READ
  <2>1. f.disturbed /\ (n = READ_ERROR \/ (n = 0 /\ f.secured))
    BY <1>2, <1>5
  <2>2. ReadHeader(f, n, beyond) = Return(f, n, TRUE)
    BY <1>5 DEF ReadHeader
  <2> QED
    BY <1>1, <1>2, <2>1, <2>2, DisturbedAccounts
<1> QED
  BY <1>3, <1>4, <1>5

LEMMA ReadForCallbackAccounts ==
  ASSUME NEW v \in Versions, NEW c, c.version = v,
         NEW f, DOMAIN f = ExchangeFields, f.fn = "perform", f.pc = "callback", Accounts(f, c),
         NEW early \in BOOLEAN, NEW n \in Reads(f, Size(f) - 1, early)
  PROVE  Accounts(ReadForCallback(f, n), c)
<1>1. /\ Holds(f, v) /\ InBody(f, c) /\ f.link \in {"up", "closing", "dead"} /\ Size(f) = OtaBufLen
      /\ OtaBufLen \in Nat /\ OtaBufLen >= 3 /\ Reading(f) /\ f.wire \in Seq(Tokens(v))
      /\ Len(f.wire) \in Nat /\ f.received \in Int
  BY FirmwareType DEF Accounts, Calling, Holds, Size, Reading
<1>2. /\ n \in Int
      /\ \/ n > 0 /\ n <= OtaBufLen - 1 /\ n \in 1..Len(f.wire)
         \/ n = NOTHING_READ
         \/ /\ f.disturbed
            /\ n = READ_ERROR \/ (n = 0 /\ f.secured)
  <2> DEFINE len == Size(f) - 1
  <2>1. len \in Nat /\ len = OtaBufLen - 1
    BY <1>1
  <2> HIDE DEF len
  <2>2. n \in Reads(f, len, early)
    BY DEF len
  <2> QED
    BY <1>1, <2>1, <2>2, ReadsAre DEF IsRead
<1>3. CASE n > 0
  <2>1. n \in 0..Len(f.wire) /\ n \in 1..Len(f.wire) /\ n \in Nat
    BY <1>1, <1>2, <1>3 DEF NOTHING_READ, READ_ERROR
  <2>2. PICK handed \in 0..Size0(v) :
           /\ Follow(f.wire, Len(f.wire), Firmware[v], handed)
           /\ f.received <= handed
           /\ f.parser.sound => f.parser.length = Size0(v)
           /\ EndsWith(c.digest, handed, v)
    BY <1>1 DEF InBody
  <2> DEFINE given == Piece(f.wire, n)
             rest == Rest(f.wire, n)
             g == ReadForCallback(f, n)
  <2>3. /\ g.fn = "perform" /\ g.pc = "called" /\ g.later /\ g.given = given /\ g.wire = rest
        /\ g.received = f.received + n /\ g.parser = f.parser /\ g.buffer = f.buffer /\ g.left = f.left
        /\ g.method = f.method /\ g.whole = f.whole /\ g.connect = f.connect /\ g.secured = f.secured
        /\ g.expired = f.expired /\ g.disturbed = f.disturbed /\ g.link = f.link
    BY <1>3 DEF ReadForCallback, Took, ExchangeFields, Piece, Rest
  <2>4. /\ given \in Seq(Tokens(v)) /\ Len(given) = n /\ Follow(given, n, Firmware[v], handed)
        /\ rest \in Seq(Tokens(v)) /\ Len(rest) = Len(f.wire) - n
        /\ Follow(rest, Len(f.wire) - n, Firmware[v], handed + n)
    <3> DEFINE w == f.wire
               text == Firmware[v]
    <3>1. /\ w \in Seq(Tokens(v)) /\ n \in 0..Len(w) /\ text \in Seq(Tokens(v)) /\ handed \in Nat
          /\ Follow(w, Len(w), text, handed)
      BY <1>1, <2>1, <2>2, FirmwareType
    <3> HIDE DEF w, text
    <3>2. /\ Piece(w, n) \in Seq(Tokens(v)) /\ Len(Piece(w, n)) = n /\ Follow(Piece(w, n), n, text, handed)
          /\ Rest(w, n) \in Seq(Tokens(v)) /\ Len(Rest(w, n)) = Len(w) - n
          /\ Follow(Rest(w, n), Len(w) - n, text, handed + n)
      BY <3>1, PartFollows
    <3> QED
      BY <3>2 DEF w, text
  <2> HIDE DEF g, given, rest
  <2>5. Holds(g, v)
    BY <1>1, <2>1, <2>3, <2>4 DEF Holds
  <2>6. handed + n \in 0..Size0(v)
    <3>1. handed + n <= Len(Firmware[v])
      <4>1. handed + Len(f.wire) <= Len(Firmware[v])
        BY <2>2 DEF Follow
      <4>2. Len(f.wire) \in Nat /\ n <= Len(f.wire) /\ handed \in Nat /\ Len(Firmware[v]) \in Nat
        BY <1>1, <2>1, FirmwareType
      <4> QED
        BY <2>1, <4>1, <4>2
    <3>2. Size0(v) \in Nat /\ Size0(v) = Len(Firmware[v]) /\ handed \in Nat
      BY FirmwareType
    <3> QED
      BY <2>1, <3>1, <3>2
  <2>7. InBody(g, c)
    <3> DEFINE more == handed + n
    <3>1. more \in 0..Size0(v) /\ more - Len(g.given) = handed /\ Len(g.given) <= more /\ g.received <= more
          /\ Len(g.given) = n /\ Len(g.wire) = Len(f.wire) - n
      <4>1. Len(g.given) = n /\ Len(g.wire) = Len(f.wire) - n /\ g.received = f.received + n
        BY <2>3, <2>4
      <4>2. f.received \in Int /\ f.received <= handed /\ handed \in Nat /\ n \in Nat
        BY <1>1, <2>1, <2>2, FirmwareType DEF Holds
      <4>3. more - n = handed /\ n <= more /\ f.received + n <= more
        BY <4>2
      <4> QED
        BY <2>6, <4>1, <4>3
    <3>2. Follow(g.wire, Len(g.wire), Firmware[v], more)
      BY <2>3, <2>4, <3>1
    <3>3. Follow(g.given, Len(g.given), Firmware[v], handed)
      BY <2>3, <2>4, <3>1
    <3> HIDE DEF more
    <3> QED
      BY <2>2, <2>3, <3>1, <3>2, <3>3 DEF InBody
  <2>8. Accounts(g, c)
    BY <2>3, <2>5, <2>7 DEF Accounts, Calling
  <2> QED
    BY <2>8 DEF g
<1>4. CASE n = NOTHING_READ
  <2>1. ReadForCallback(f, n) = f
    BY <1>4 DEF ReadForCallback, NOTHING_READ
  <2> QED
    BY <2>1
<1>5. CASE ~(n > 0) /\ n # NOTHING_READ
  <2>1. f.disturbed /\ (n = READ_ERROR \/ (n = 0 /\ f.secured))
    BY <1>2, <1>5
  <2>2. ReadForCallback(f, n) = Return(f, n, TRUE)
    BY <1>5 DEF ReadForCallback
  <2> QED
    BY <1>1, <1>2, <2>1, <2>2, DisturbedAccounts
<1> QED
  BY <1>3, <1>4, <1>5

\* What is not sound owes nothing.
LEMMA UnsoundAccounts ==
  ASSUME NEW v \in Versions, NEW c, c.version = v, NEW f, DOMAIN f = ExchangeFields, Holds(f, v),
         f.link \in {"up", "closing", "dead"}, ~f.parser.sound, NEW n \in Int
  PROVE  Accounts(Return(f, n, TRUE), c)
<1> DEFINE r == Return(f, n, TRUE)
<1>1. r.parser = f.parser
  BY DEF Return, ExchangeFields
<1>2. Owes(r, c)
  <2> HIDE DEF r
  <2> QED
    BY <1>1 DEF Owes, Fine
<1> QED
  BY <1>2, ReturnAccounts

LEMMA ReadIdentityAccounts ==
  ASSUME NEW v \in Versions, NEW c, c.version = v,
         NEW f, DOMAIN f = ExchangeFields, f.fn = "perform", f.pc = "identity", Accounts(f, c)
  PROVE  /\ Accounts(IdentityEnds(f), c)
         /\ \A early \in BOOLEAN : \A n \in Reads(f, Size(f) - f.received, early) :
              ~(f.received >= f.parser.length) => Accounts(ReadIdentity(f, n), c)
<1>1. /\ Holds(f, v) /\ ~f.parser.sound /\ f.method = "GET" /\ f.link \in {"up", "closing", "dead"}
      /\ Size(f) = OtaBufLen /\ OtaBufLen \in Nat /\ Reading(f) /\ f.wire \in Seq(Tokens(v))
      /\ Len(f.wire) \in Nat /\ f.received \in Int
      /\ f.parser.length <= OtaBufLen /\ f.received >= 0 /\ f.parser.length \in Nat
  BY FirmwareType DEF Accounts, Holds, Size, Reading, Parsers
<1>2. ASSUME NEW g, DOMAIN g = ExchangeFields, g.fn = "perform", g.pc = "identity", Holds(g, v),
             ~g.parser.sound, g.method = "GET", g.parser.length <= OtaBufLen, g.received >= 0
      PROVE  Accounts(IdentityEnds(g), c)
  <2>1. Accounts(g, c)
    BY <1>2 DEF Accounts, Calling
  <2>2. g.link \in {"up", "closing", "dead"} /\ g.received \in Int
    BY <1>2 DEF Holds
  <2>3. Accounts(Return(g, g.received, TRUE), c)
    BY <1>2, <2>2, UnsoundAccounts
  <2> QED
    BY <2>1, <2>3 DEF IdentityEnds
<1>3. ASSUME NEW early \in BOOLEAN, NEW n \in Reads(f, Size(f) - f.received, early),
             ~(f.received >= f.parser.length)
      PROVE  Accounts(ReadIdentity(f, n), c)
  <2>1. /\ n \in Int
        /\ n > 0 => n <= OtaBufLen - f.received /\ n \in 1..Len(f.wire)
    <3> DEFINE len == Size(f) - f.received
    <3>1. len \in Nat /\ len = OtaBufLen - f.received
      BY <1>1, <1>3
    <3> HIDE DEF len
    <3>2. n \in Reads(f, len, early)
      BY DEF len
    <3>3. Holds(f, v) /\ Reading(f) /\ len \in Nat
      BY <1>1, <3>1
    <3>4. IsRead(f, n, len)
      BY <3>2, <3>3, ReadsAre
    <3> QED
      BY <3>1, <3>4 DEF IsRead, NOTHING_READ, READ_ERROR
  <2>2. CASE n > 0
    <3> DEFINE len == Size(f) - f.received
               took == Took(f, n, f.received, len)
               g == [took EXCEPT !.received = @ + n]
    <3>1. ReadIdentity(f, n) = IdentityEnds(g)
      BY <2>2 DEF ReadIdentity
    <3>2. n \in 1..Len(f.wire) /\ f.received \in Nat /\ f.received + n <= OtaBufLen
      BY <1>1, <1>3, <2>1, <2>2
    <3>3. KeepsBut(f, took) /\ DOMAIN took = ExchangeFields /\ Holds(took, v)
      <4> DEFINE at == f.received
      <4>1. at \in Nat /\ at + n <= OtaBufLen /\ took = Took(f, n, at, len)
        BY <3>2
      <4>2. Holds(f, v) /\ n \in 1..Len(f.wire) /\ v \in Versions /\ DOMAIN f = ExchangeFields
        BY <1>1, <3>2
      <4> HIDE DEF took, at, len
      <4>3. Takes(f, took, n, len, v)
        BY <4>1, <4>2, TookHolds
      <4> QED
        BY <4>3 DEF Takes
    <3> HIDE DEF took
    <3>4. /\ DOMAIN g = ExchangeFields /\ g.fn = "perform" /\ g.pc = "identity"
          /\ ~g.parser.sound /\ g.method = "GET" /\ g.parser.length <= OtaBufLen
      BY <1>1, <3>3 DEF KeepsBut, ExchangeFields
    <3>5. Holds(g, v)
      <4>1. took.received + n \in Int
        BY <3>2, <3>3 DEF KeepsBut
      <4> DEFINE sum == took.received + n
      <4>2. /\ g.pc = took.pc /\ g.received = sum /\ g.wire = took.wire /\ g.buffer = took.buffer
            /\ g.method = took.method /\ g.whole = took.whole /\ g.parser = took.parser /\ g.left = took.left
            /\ g.connect = took.connect /\ g.given = took.given /\ g.secured = took.secured
            /\ g.expired = took.expired /\ g.later = took.later /\ g.disturbed = took.disturbed
            /\ g.link = took.link
        BY <3>3 DEF ExchangeFields
      <4> HIDE DEF g, sum
      <4> QED
        BY <3>3, <4>1, <4>2 DEF Holds, sum
    <3>6. g.received >= 0
      <4>1. g.received = f.received + n
        BY <3>3 DEF KeepsBut, ExchangeFields
      <4> HIDE DEF g
      <4> QED
        BY <1>1, <3>2, <4>1
    <3> HIDE DEF g
    <3> QED
      BY <1>2, <3>1, <3>4, <3>5, <3>6
  <2>3. CASE ~(n > 0)
    <3>1. ReadIdentity(f, n) = f \/ ReadIdentity(f, n) = Return(f, n, TRUE)
      BY <2>3 DEF ReadIdentity
    <3>2. Accounts(Return(f, n, TRUE), c)
      BY <1>1, <2>1, UnsoundAccounts
    <3> QED
      BY <3>1, <3>2
  <2> QED
    BY <2>2, <2>3
<1>4. Accounts(IdentityEnds(f), c)
  BY <1>1, <1>2
<1> QED
  BY <1>3, <1>4

\* A callback was given the first `handed' tokens of the firmware, which its command digested.
Handed(f, d, handed) ==
  /\ handed \in 0..Size0(d.version) /\ f.received <= handed
  /\ Follow(f.wire, Len(f.wire), Firmware[d.version], handed)
  /\ f.parser.sound => f.parser.length = Size0(d.version)
  /\ ~f.later => handed <= OtaBufLen
  /\ EndsWith(d.digest, handed, d.version)

LEMMA CallbackReturnsAccounts ==
  ASSUME NEW v \in Versions, NEW d, d.version = v, NEW handed,
         NEW f, DOMAIN f = ExchangeFields, f.fn = "perform", f.pc \in Calling, f.method = "GET",
         Holds(f, v), Handed(f, d, handed)
  PROVE  Accounts(CallbackReturns(f), d)
<1> DEFINE received == f.received + (IF f.later THEN f.connect ELSE 0)
           goes == [f EXCEPT !.pc = "callback", !.received = received]
           result == IF f.later THEN TC_IOT_SUCCESS ELSE received
           r == Return(f, result, TRUE)
<1>1. /\ received \in Int /\ received <= handed /\ handed \in Nat /\ handed <= Size0(v) /\ Size0(v) \in Nat
      /\ f.link \in {"up", "closing", "dead"} /\ OtaBufLen \in Nat /\ Size0(v) > OtaBufLen
      /\ f.parser.length \in Nat
  <2>1. /\ handed \in 0..Size0(v) /\ f.received <= handed /\ Size0(v) \in Nat /\ OtaBufLen \in Nat
        /\ Size0(v) > OtaBufLen
    BY FirmwareType DEF Handed
  <2>2. f.received \in Int /\ f.connect \in Int /\ f.connect <= 0 /\ f.parser \in Parsers
        /\ f.link \in {"up", "closing", "dead"}
    BY DEF Holds, Calling
  <2> QED
    BY <2>1, <2>2 DEF Parsers
<1>2. CallbackReturns(f) = IF received < f.parser.length THEN goes ELSE r
  BY DEF CallbackReturns
<1>3. CASE received < f.parser.length
  <2> HIDE DEF received
  <2>1. /\ goes.fn = "perform" /\ goes.pc = "callback" /\ goes.received = received
        /\ goes.method = f.method /\ goes.buffer = f.buffer /\ goes.wire = f.wire
        /\ goes.whole = f.whole /\ goes.parser = f.parser /\ goes.left = f.left
        /\ goes.connect = f.connect /\ goes.given = f.given /\ goes.secured = f.secured
        /\ goes.expired = f.expired /\ goes.later = f.later /\ goes.disturbed = f.disturbed
        /\ goes.link = f.link
    BY DEF ExchangeFields
  <2> HIDE DEF goes
  <2>2. Holds(goes, v)
    BY <1>1, <2>1 DEF Holds
  <2>3. InBody(goes, d)
    BY <1>1, <2>1 DEF InBody, Handed
  <2>4. Accounts(goes, d)
    BY <2>1, <2>2, <2>3 DEF Accounts, Calling
  <2> QED
    BY <1>2, <1>3, <2>4
<1>4. CASE ~(received < f.parser.length)
  <2>1. result \in Int
    BY <1>1 DEF TC_IOT_SUCCESS
  <2>2. f.parser.sound => handed = Size0(v) /\ result = TC_IOT_SUCCESS
    <3>1. SUFFICES ASSUME f.parser.sound PROVE handed = Size0(v) /\ result = TC_IOT_SUCCESS
      OBVIOUS
    <3>2. f.parser.length = Size0(v)
      BY <3>1 DEF Handed
    <3>3. handed = Size0(v)
      <4> HIDE DEF received
      <4> QED
        BY <1>1, <1>4, <3>2
    <3>4. f.later
      BY <1>1, <3>3 DEF Handed
    <3> QED
      BY <3>3, <3>4
  <2>3. r.parser = f.parser /\ r.received = result /\ r.method = "GET"
    BY DEF Return, ExchangeFields
  <2>4. EndsWith(d.digest, handed, v)
    BY DEF Handed
  <2> HIDE DEF result, r
  <2>5. Owes(r, d)
    <3>1. TC_IOT_SUCCESS >= 0
      BY DEF TC_IOT_SUCCESS
    <3> QED
      BY <2>2, <2>3, <2>4, <3>1 DEF Owes, Fine
  <2>6. Accounts(r, d)
    BY <1>1, <2>1, <2>5, ReturnAccounts DEF r
  <2> QED
    BY <1>2, <1>4, <2>6
<1> QED
  BY <1>3, <1>4

\* A digest ends with the piece it was just computed from, after what it ended with.
LEMMA DigestEnds ==
  ASSUME NEW v \in Versions, NEW S, NEW digest \in Seq(S), NEW given \in Seq(S),
         NEW handed \in 0..Size0(v), Len(given) <= handed,
         Follow(given, Len(given), Firmware[v], handed - Len(given)),
         EndsWith(digest, handed - Len(given), v)
  PROVE  EndsWith(digest \o given, handed, v)
<1> DEFINE all == digest \o given
           before == handed - Len(given)
<1>1. Len(digest) \in Nat /\ Len(given) \in Nat /\ handed \in Nat /\ before \in Nat /\ before <= Len(digest)
  BY FirmwareType DEF EndsWith
<1>2. /\ DOMAIN all = 1..(Len(digest) + Len(given)) /\ all \in Seq(S)
      /\ \A i \in 1..(Len(digest) + Len(given)) :
           all[i] = IF i <= Len(digest) THEN digest[i] ELSE given[i - Len(digest)]
  BY ConcatType
<1>3. EndsWith(digest, before, v) /\ Follow(given, Len(given), Firmware[v], before)
  OBVIOUS
<1>4. handed = before + Len(given)
  BY <1>1
<1> HIDE DEF all, before
<1>5. Len(all) = Len(digest) + Len(given)
  BY <1>1, <1>2
<1>6. ASSUME NEW i \in 1..handed PROVE all[Len(all) - handed + i] = Firmware[v][i]
  <2> DEFINE k == Len(all) - handed + i
  <2>1. k = Len(digest) - before + i /\ k \in 1..(Len(digest) + Len(given))
    BY <1>1, <1>4, <1>5
  <2>2. CASE i <= before
    <3>1. i \in 1..before /\ k <= Len(digest)
      BY <1>1, <2>1, <2>2
    <3>2. digest[Len(digest) - before + i] = Firmware[v][i]
      BY <1>3, <3>1 DEF EndsWith
    <3> HIDE DEF k
    <3>3. all[k] = Firmware[v][i]
      BY <1>2, <2>1, <3>1, <3>2
    <3> QED
      BY <3>3 DEF k
  <2>3. CASE ~(i <= before)
    <3>1. i - before \in 1..Len(given) /\ ~(k <= Len(digest)) /\ k - Len(digest) = i - before
          /\ before + (i - before) = i
      BY <1>1, <1>4, <2>1, <2>3
    <3>2. given[i - before] = Firmware[v][i]
      BY <1>3, <3>1 DEF Follow
    <3> HIDE DEF k
    <3>3. all[k] = Firmware[v][i]
      BY <1>2, <2>1, <3>1, <3>2
    <3> QED
      BY <3>3 DEF k
  <2> QED
    BY <2>2, <2>3
<1>7. handed <= Len(all)
  BY <1>1, <1>4, <1>5
<1> QED
  BY <1>6, <1>7 DEF EndsWith, all

LEMMA FetchesIs ==
  ASSUME NEW f, NEW c, Fetches(f, c)
  PROVE  /\ IsExchange(f) /\ IsCommand(c) /\ Accounts(f, c) /\ c.version \in Versions
         /\ c.digest \in Seq(Range(Firmware[c.version])) /\ c.pending \in Seq(Range(Firmware[c.version]))
         /\ f.method \in {"HEAD", "GET"} /\ f.callback = (f.method = "GET") /\ DOMAIN f = ExchangeFields
         /\ Holds(f, c.version)
  BY DEF Fetches, IsCommand, IsExchange, Accounts, Early

\* A read keeps what a fetch owes.
LEMMA ReadAccounts ==
  ASSUME NEW f, NEW c, Fetches(f, c), Reading(f), NEW early \in BOOLEAN, NEW g \in AfterRead(f, early)
  PROVE  Accounts(g, c)
<1> DEFINE v == c.version
<1>1. /\ IsExchange(f) /\ Accounts(f, c) /\ v \in Versions /\ c.digest \in Seq(Range(Firmware[v]))
      /\ f.method \in {"HEAD", "GET"} /\ f.callback = (f.method = "GET") /\ DOMAIN f = ExchangeFields
      /\ Holds(f, v) /\ f.fn = "perform" /\ f.pc # "chunk" /\ c.version = v
  BY FetchesIs DEF Reading, Accounts
<1> HIDE DEF v
<1>2. CASE f.pc = "header"
  <2>1. HeaderFrame(f, v)
    BY <1>1, <1>2 DEF HeaderFrame, Accounts, InHeader
  <2>2. PICK n \in Reads(f, Size(f) - f.left, early) : \E b \in Memory : g = ReadHeader(f, n, b)
    BY <1>2, ReadCases
  <2> QED
    BY <1>1, <2>1, <2>2, ReadHeaderAccounts
<1>3. CASE f.pc = "callback"
  <2>1. PICK n \in Reads(f, Size(f) - 1, early) : g = ReadForCallback(f, n)
    BY <1>3, ReadCases
  <2> QED
    BY <1>1, <1>3, <2>1, ReadForCallbackAccounts
<1>4. CASE f.pc = "identity"
  <2>1. \/ g = IdentityEnds(f)
        \/ /\ ~(f.received >= f.parser.length)
           /\ \E n \in Reads(f, Size(f) - f.received, early) : g = ReadIdentity(f, n)
    BY <1>4, ReadCases
  <2> QED
    BY <1>1, <1>4, <2>1, ReadIdentityAccounts
<1> QED
  BY <1>1, <1>2, <1>3, <1>4 DEF Reading

\* A result of do_connect is an error, or TC_IOT_SUCCESS.
LEMMA ConnectResults ==
  ASSUME NEW net, NEW c \in Connects(net)
  PROVE  c.rc \in Int /\ c.rc <= 0
<1>1. CASE ~net.secured
  <2>1. c \in SocketConnects(net)
    BY <1>1 DEF Connects
  <2>2. c.rc = UNKNOWN_HOST \/ c.rc = TC_IOT_SUCCESS \/ c.rc = CONNECT_FAILED
    BY <2>1 DEF SocketConnects
  <2> QED
    BY <2>2 DEF UNKNOWN_HOST, TC_IOT_SUCCESS, CONNECT_FAILED
<1>2. CASE net.secured
  <2> DEFINE begun == [net EXCEPT !.contexts = TRUE]
             reached == [begun EXCEPT !.fd = "open", !.connected = TRUE]
             begun1(s) == [reached EXCEPT !.session = s]
  <2>1. c \in TlsConnects(net)
    BY <1>2 DEF Connects
  <2>2. \/ c \in {[rc |-> r, net |-> begun] : r \in {SEED_FAILED, UNKNOWN_HOST, SOCKET_FAILED, CONNECT_FAILED}}
        \/ c \in {[rc |-> r, net |-> reached] : r \in SETUP_ERRORS}
        \/ c \in {[rc |-> HANDSHAKE_FAILED, net |-> begun1(s)] : s \in {"none", "begun"}}
        \/ c \in {[rc |-> TC_IOT_SUCCESS, net |-> begun1("up")]}
    BY <2>1 DEF TlsConnects
  <2> HIDE DEF begun, reached, begun1
  <2>3. \/ c.rc \in {SEED_FAILED, UNKNOWN_HOST, SOCKET_FAILED, CONNECT_FAILED}
        \/ c.rc \in SETUP_ERRORS
        \/ c.rc \in {HANDSHAKE_FAILED, TC_IOT_SUCCESS}
    BY <2>2
  <2> QED
    BY <2>3 DEF SEED_FAILED, UNKNOWN_HOST, SOCKET_FAILED, CONNECT_FAILED, SETUP_ERRORS, HANDSHAKE_FAILED, TC_IOT_SUCCESS
<1> QED
  BY <1>1, <1>2

LEMMA ConnectedAccounts ==
  ASSUME NEW f, NEW c, Fetches(f, c), f.fn = "perform", f.pc = "connect", NEW n \in Connects(f.net)
  PROVE  Accounts(Connected(f, n), c)
<1> DEFINE g == Connected(f, n)
<1>1. DOMAIN f = ExchangeFields /\ Holds(f, c.version) /\ BeforeHeader(f, c.version)
  BY FetchesIs DEF Accounts
<1>2. n.rc \in Int /\ n.rc <= 0
  BY ConnectResults
<1>3. /\ g.fn = "perform" /\ g.pc = "write" /\ g.received = f.received
      /\ g.method = f.method /\ g.buffer = f.buffer /\ g.wire = f.wire
      /\ g.whole = f.whole /\ g.parser = f.parser /\ g.left = f.left
      /\ g.connect = n.rc /\ g.given = f.given /\ g.secured = f.secured
      /\ g.expired = f.expired /\ g.later = f.later /\ g.disturbed = (n.net.session # "up")
      /\ g.link = f.link /\ g.net = n.net
  BY <1>1 DEF Connected, ExchangeFields
<1> HIDE DEF g
<1>4. Holds(g, c.version)
  <2>1. f.link \in {"closing", "dead"} => f.disturbed
    BY <1>1 DEF Holds
  <2>2. ~f.disturbed
    BY <1>1 DEF BeforeHeader
  <2>3. g.link \notin {"closing", "dead"}
    BY <1>3, <2>1, <2>2
  <2>4. g.disturbed \in BOOLEAN
    BY <1>3
  <2> QED
    BY <1>1, <1>2, <1>3, <2>3, <2>4 DEF Holds
<1>5. BeforeHeader(g, c.version)
  BY <1>1, <1>3 DEF BeforeHeader
<1>6. Accounts(g, c)
  BY <1>3, <1>4, <1>5 DEF Accounts, Calling
<1> QED
  BY <1>6 DEF g

LEMMA WrittenAccounts ==
  ASSUME NEW f, NEW c, Fetches(f, c), f.fn = "perform", f.pc = "write", NEW net \in Writes(f.net)
  PROVE  Accounts(Written(f, net), c)
<1> DEFINE v == c.version
           g == [f EXCEPT !.net = net, !.request = <<>>]
           up == [g EXCEPT !.pc = "header", !.link = "up"]
           r == Return(g, SEND_PACK_FAILED, FALSE)
<1>1. /\ DOMAIN f = ExchangeFields /\ Holds(f, v) /\ BeforeHeader(f, v) /\ v \in Versions /\ c.version = v
      /\ f.method \in {"HEAD", "GET"}
  BY FetchesIs DEF Accounts
<1> HIDE DEF v
<1>2. /\ g.fn = "perform" /\ g.pc = "write" /\ g.received = f.received
      /\ g.method = f.method /\ g.buffer = f.buffer /\ g.wire = f.wire
      /\ g.whole = f.whole /\ g.parser = f.parser /\ g.left = f.left
      /\ g.connect = f.connect /\ g.given = f.given /\ g.secured = f.secured
      /\ g.expired = f.expired /\ g.later = f.later /\ g.disturbed = f.disturbed
      /\ g.link = f.link /\ DOMAIN g = ExchangeFields
  BY <1>1 DEF ExchangeFields
<1>3. Written(f, net) = IF net.session = "up" THEN up ELSE r
  BY DEF Written
<1> HIDE DEF g
<1>4. Holds(g, v)
  BY <1>1, <1>2 DEF Holds
<1>5. CASE net.session = "up"
  <2>1. /\ up.fn = "perform" /\ up.pc = "header" /\ up.received = f.received
        /\ up.method = f.method /\ up.buffer = f.buffer /\ up.wire = f.wire
        /\ up.whole = f.whole /\ up.parser = f.parser /\ up.left = f.left
        /\ up.connect = f.connect /\ up.given = f.given /\ up.secured = f.secured
        /\ up.expired = f.expired /\ up.later = f.later /\ up.disturbed = f.disturbed
        /\ up.link = "up"
    BY <1>2 DEF ExchangeFields
  <2> HIDE DEF up
  <2>2. Holds(up, v)
    BY <1>1, <2>1 DEF Holds
  <2>3. /\ up.parser = NewParser /\ up.left = 0 /\ up.wire = up.whole /\ ~up.later
        /\ up.whole = Sent(up.method, v)
    BY <1>1, <2>1, <2>2 DEF BeforeHeader, Holds
  <2>4. Parsed(up.parser, 0, v)
    BY <2>3 DEF Parsed, Parsers, NewParser
  <2>5. Follow(up.buffer, 0, Answer(v), 0)
    BY <1>1, AnswerIs, FirmwareType DEF Follow, HeaderLen
  <2>6. Follow(up.wire, Len(up.wire), Answer(v), 0)
    <3>1. CASE up.wire = Answer(v)
      BY <1>1, <3>1, AnswerIs DEF Follow
    <3>2. CASE up.wire = Responded(v)
      <4> DEFINE w == up.wire
      <4>1. Len(w) = HeaderLen /\ \A i \in 1..HeaderLen : w[i] = Answer(v)[i]
        BY <1>1, <3>2, AnswerIs
      <4>2. HeaderLen <= Len(Answer(v)) /\ HeaderLen \in Nat
        <5>1. v \in Versions
          BY <1>1
        <5>2. Len(Answer(v)) = HeaderLen + Size0(v)
          BY <5>1, AnswerIs
        <5>3. Size0(v) \in Nat
          BY <5>1, FirmwareType
        <5> QED
          BY <5>2, <5>3 DEF HeaderLen
      <4> HIDE DEF w
      <4>3. Follow(w, Len(w), Answer(v), 0)
        BY <4>1, <4>2 DEF Follow
      <4> QED
        BY <4>3 DEF w
    <3> QED
      BY <2>3, <3>1, <3>2 DEF Sent
  <2>7. InHeader(up, v)
    <3>1. 0 \in 0..HeaderLen /\ 0 + 0 = 0
      BY DEF HeaderLen
    <3>2. up.parser.state = "start"
      BY <2>3 DEF NewParser
    <3> QED
      BY <2>3, <2>4, <2>5, <2>6, <3>1, <3>2 DEF InHeader
  <2>8. Accounts(up, c)
    BY <1>1, <2>1, <2>2, <2>7 DEF Accounts, Calling
  <2> QED
    BY <1>3, <1>5, <2>8
<1>6. CASE net.session # "up"
  <2>1. f.disturbed
    BY <1>1, <1>6 DEF BeforeHeader, Writes
  <2>2. /\ r.fn = "returned" /\ r.pc = "returned" /\ r.received = SEND_PACK_FAILED
        /\ r.method = g.method /\ r.buffer = g.buffer /\ r.wire = g.wire
        /\ r.whole = g.whole /\ r.parser = g.parser /\ r.left = g.left
        /\ r.connect = g.connect /\ r.given = g.given /\ r.secured = g.secured
        /\ r.expired = g.expired /\ r.later = g.later /\ r.disturbed = g.disturbed
        /\ r.link = g.link
    BY <1>2 DEF Return, ExchangeFields
  <2> HIDE DEF r
  <2>3. Holds(r, v)
    BY <1>4, <2>2 DEF Holds, SEND_PACK_FAILED
  <2>4. Owes(r, c)
    BY <1>2, <2>1, <2>2 DEF Owes, Quiet, SEND_PACK_FAILED
  <2>5. Accounts(r, c)
    BY <1>1, <2>2, <2>3, <2>4 DEF Accounts, Calling
  <2> QED
    BY <1>3, <1>6, <2>5
<1> QED
  BY <1>5, <1>6

LEMMA ExpiredAccounts ==
  ASSUME NEW f, NEW c, Fetches(f, c), f.fn = "perform", f.pc = "header"
  PROVE  Accounts([f EXCEPT !.expired = TRUE], c)
<1> DEFINE g == [f EXCEPT !.expired = TRUE]
<1>1. DOMAIN f = ExchangeFields /\ Holds(f, c.version) /\ InHeader(f, c.version)
  BY FetchesIs DEF Accounts
<1>2. /\ g.fn = "perform" /\ g.pc = "header" /\ g.received = f.received
      /\ g.method = f.method /\ g.buffer = f.buffer /\ g.wire = f.wire
      /\ g.whole = f.whole /\ g.parser = f.parser /\ g.left = f.left
      /\ g.connect = f.connect /\ g.given = f.given /\ g.secured = f.secured
      /\ g.expired /\ g.later = f.later /\ g.disturbed = f.disturbed
      /\ g.link = f.link
  BY <1>1 DEF ExchangeFields
<1> HIDE DEF g
<1>3. Holds(g, c.version)
  BY <1>1, <1>2 DEF Holds
<1>4. InHeader(g, c.version)
  BY <1>1, <1>2 DEF InHeader
<1>5. Accounts(g, c)
  BY <1>2, <1>3, <1>4 DEF Accounts, Calling
<1> QED
  BY <1>5 DEF g

\* What a broken connection still carries follows what came before.
LEMMA BrokenAccounts ==
  ASSUME NEW f, NEW c, Fetches(f, c), Reading(f), NEW l \in Links, NEW k \in 0..Len(f.wire)
  PROVE  Accounts(Broken(f, l, k), c)
<1> DEFINE v == c.version
           g == Broken(f, l, k)
           w == Piece(f.wire, k)
<1>1. DOMAIN f = ExchangeFields /\ Holds(f, v) /\ v \in Versions /\ Accounts(f, c) /\ f.fn = "perform"
  BY FetchesIs DEF Reading
<1>2. /\ g.fn = f.fn /\ g.pc = f.pc /\ g.received = f.received
      /\ g.method = f.method /\ g.buffer = f.buffer /\ g.wire = w
      /\ g.whole = f.whole /\ g.parser = f.parser /\ g.left = f.left
      /\ g.connect = f.connect /\ g.given = f.given /\ g.secured = f.secured
      /\ g.expired = f.expired /\ g.later = f.later /\ g.disturbed
      /\ g.link = l
  BY <1>1 DEF Broken, ExchangeFields, Piece
<1>3. l \in {"up", "closing", "dead"}
  BY OtaAssumption
<1>4. f.wire \in Seq(Tokens(v)) /\ k \in Nat /\ Len(f.wire) \in Nat
  BY <1>1 DEF Holds
<1>5. ASSUME NEW text, text \in Seq(Tokens(v)), NEW at \in Nat, Follow(f.wire, Len(f.wire), text, at)
      PROVE  Follow(w, Len(w), text, at)
  <2> DEFINE wire == f.wire
  <2>1. wire \in Seq(Tokens(v)) /\ k \in 0..Len(wire) /\ Follow(wire, Len(wire), text, at)
    BY <1>4, <1>5
  <2> HIDE DEF wire
  <2>2. Len(Piece(wire, k)) = k /\ Follow(Piece(wire, k), k, text, at)
    BY <1>5, <2>1, PartFollows
  <2> QED
    BY <2>2 DEF wire
<1>6. w \in Seq(Tokens(v))
  BY <1>4, PrefixIs
<1> HIDE DEF g, w
<1>7. Holds(g, v)
  BY <1>1, <1>2, <1>3, <1>6 DEF Holds
<1>8. CASE f.pc = "header"
  <2>1. InHeader(f, v)
    BY <1>1, <1>8 DEF Accounts
  <2>2. PICK at \in 0..HeaderLen :
           /\ Parsed(f.parser, at, v)
           /\ Follow(f.buffer, f.left, Answer(v), at)
           /\ Follow(f.wire, Len(f.wire), Answer(v), at + f.left)
    BY <2>1 DEF InHeader
  <2>3. at + f.left \in Nat
    BY <1>1, FirmwareType DEF Holds, HeaderLen
  <2>4. Follow(w, Len(w), Answer(v), at + f.left)
    BY <1>1, <1>5, <2>2, <2>3, AnswerIs
  <2>5. InHeader(g, v)
    BY <1>2, <2>1, <2>2, <2>4 DEF InHeader
  <2>6. Accounts(g, c)
    BY <1>1, <1>2, <1>7, <1>8, <2>5 DEF Accounts, Calling
  <2> QED
    BY <2>6 DEF g
<1>9. CASE f.pc = "callback"
  <2>1. InBody(f, c)
    BY <1>1, <1>9 DEF Accounts, Calling
  <2>2. PICK handed \in 0..Size0(v) :
           /\ Follow(f.wire, Len(f.wire), Firmware[v], handed)
           /\ f.received <= handed
           /\ f.parser.sound => f.parser.length = Size0(v)
           /\ EndsWith(c.digest, handed, v)
    BY <1>9, <2>1 DEF InBody
  <2>3. handed \in Nat /\ Firmware[v] \in Seq(Tokens(v))
    BY <1>1, FirmwareType
  <2>4. Follow(w, Len(w), Firmware[v], handed)
    BY <1>5, <2>2, <2>3
  <2>5. InBody(g, c)
    BY <1>2, <1>9, <2>2, <2>4 DEF InBody
  <2>6. Accounts(g, c)
    BY <1>1, <1>2, <1>7, <1>9, <2>5 DEF Accounts, Calling
  <2> QED
    BY <2>6 DEF g
<1>10. CASE f.pc = "identity"
  <2>1. Accounts(g, c)
    BY <1>1, <1>2, <1>7, <1>10 DEF Accounts, Calling
  <2> QED
    BY <2>1 DEF g
<1>11. f.pc # "chunk"
  BY <1>1 DEF Accounts
<1> QED
  BY <1>8, <1>9, <1>10, <1>11 DEF Reading

\* The requests for a url.
LEMMA UrlRequestIs ==
  ASSUME NEW method \in {"HEAD", "GET"}, NEW url \in Urls
  PROVE  UrlRequest[method][url].method = method /\ UrlRequest[method][url].secured \in BOOLEAN
<1> DEFINE p == UrlParse(Spelled(url))
<1>1. UrlRequest[method][url] = Only({Asked(method, q) : q \in {p}})
  BY DEF UrlRequest
<1>2. p.secured \in BOOLEAN
  BY DEF UrlParse
<1> HIDE DEF p
<1>3. {Asked(method, q) : q \in {p}} = {Asked(method, p)}
  OBVIOUS
<1>4. Only({Asked(method, p)}) = Asked(method, p)
  BY OnlyOne
<1>5. Asked(method, p).method = method /\ Asked(method, p).secured = p.secured
  BY DEF Asked
<1> QED
  BY <1>1, <1>2, <1>3, <1>4, <1>5

\* An exchange begins.
LEMMA PerformIs ==
  ASSUME NEW request, request.method \in {"POST", "HEAD", "GET"}, request.secured \in BOOLEAN,
         NEW callback, callback = (request.method = "GET"), NEW response, NEW size
  PROVE  /\ IsExchange(Perform(request, callback, response, size))
         /\ Perform(request, callback, response, size).fn = "perform"
         /\ Perform(request, callback, response, size).pc = "connect"
         /\ Perform(request, callback, response, size).method = request.method
<1> DEFINE f == Perform(request, callback, response, size)
<1>1. /\ DOMAIN f = ExchangeFields /\ f.net = Prepared(request.secured) /\ f.method = request.method
      /\ f.callback = callback /\ f.fn = "perform" /\ f.pc = "connect"
  BY DEF Perform, ExchangeFields
<1> HIDE DEF f
<1>2. f.net \in Nets
  BY <1>1 DEF Prepared, Nets
<1>3. IsExchange(f)
  BY <1>1, <1>2 DEF IsExchange, Performing, Calling
<1> QED
  BY <1>1, <1>3 DEF f

LEMMA BeginsAccounts ==
  ASSUME NEW c, c.version \in Versions, NEW method \in {"HEAD", "GET"}, NEW url \in Urls
  PROVE  LET f == Perform(UrlRequest[method][url], method = "GET", Sent(method, c.version), OtaBufLen) IN
         IsExchange(f) /\ f.fn = "perform" /\ f.pc = "connect" /\ f.method = method /\ Accounts(f, c)
<1> DEFINE v == c.version
           request == UrlRequest[method][url]
           callback == method = "GET"
           response == Sent(method, v)
           f == Perform(request, callback, response, OtaBufLen)
<1>1. request.method = method /\ request.secured \in BOOLEAN
  BY UrlRequestIs
<1>2. v \in Versions /\ OtaBufLen \in Nat /\ response \in Seq(Tokens(v)) /\ response = Sent(method, v)
  BY AnswerIs, FirmwareType DEF Sent
<1> HIDE DEF request, callback, response, v
<1>3. IsExchange(f) /\ f.fn = "perform" /\ f.pc = "connect" /\ f.method = method
  <2>1. callback = (request.method = "GET")
    BY <1>1 DEF callback
  <2> QED
    BY <1>1, <2>1, PerformIs
<1>4. /\ f.received = 0 /\ f.wire = response /\ f.whole = response /\ f.parser = NewParser /\ f.left = 0
      /\ f.connect = TC_IOT_SUCCESS /\ f.given = <<>> /\ f.secured = request.secured /\ ~f.expired
      /\ ~f.later /\ ~f.disturbed /\ f.link = "down"
      /\ f.expired \in BOOLEAN /\ f.later \in BOOLEAN /\ f.disturbed \in BOOLEAN
  BY DEF Perform
<1>5. f.buffer \in Seq(Tokens(v)) /\ Len(f.buffer) = OtaBufLen
  <2>1. f.buffer = [i \in 1..OtaBufLen |-> "request"]
    BY DEF Perform
  <2>2. "request" \in Tokens(v)
    BY DEF Tokens
  <2> HIDE DEF f
  <2> QED
    BY <1>2, <2>1, <2>2
<1> HIDE DEF f
<1>6. NewParser \in Parsers
  BY DEF NewParser, Parsers
<1>7. Holds(f, v)
  <2>1. TC_IOT_SUCCESS \in Int /\ TC_IOT_SUCCESS <= 0
    BY DEF TC_IOT_SUCCESS
  <2>2. f.given \in Seq(Tokens(v))
    BY <1>4
  <2> QED
    BY <1>1, <1>2, <1>3, <1>4, <1>5, <1>6, <2>1, <2>2 DEF Holds
<1>8. BeforeHeader(f, v)
  BY <1>3, <1>4 DEF BeforeHeader
<1>9. Accounts(f, c)
  BY <1>3, <1>7, <1>8 DEF Accounts, Calling, v
<1> QED
  BY <1>3, <1>9 DEF f, request, callback, response, v

-----------------------------------------------------------------------------
(* The stack.                                                              *)

LEMMA NoFrames == IsStack(<<>>) /\ Len(<<>>) = 0
<1>1. <<>> \in Seq({}) /\ Len(<<>>) = 0
  OBVIOUS
<1> QED
  BY <1>1 DEF IsStack

LEMMA TwoFrames ==
  ASSUME NEW x, NEW y
  PROVE  IsStack(<<x, y>>) /\ Len(<<x, y>>) = 2 /\ <<x, y>>[1] = x /\ <<x, y>>[2] = y
<1>1. <<x, y>> \in Seq({x, y})
  OBVIOUS
<1> QED
  BY <1>1 DEF IsStack

LEMMA Push ==
  ASSUME NEW t, IsStack(t), NEW x
  PROVE  /\ IsStack(<<x>> \o t) /\ Len(t) \in Nat /\ Len(<<x>> \o t) = Len(t) + 1 /\ <<x>> \o t # <<>>
         /\ (<<x>> \o t)[1] = x /\ \A i \in 1..Len(t) : (<<x>> \o t)[i + 1] = t[i]
<1>1. PICK S : t \in Seq(S)
  BY DEF IsStack
<1> DEFINE T == S \cup {x}
           a == <<x>>
           s == a \o t
<1>2. t \in Seq(T) /\ x \in T /\ Len(t) \in Nat
  BY <1>1
<1> HIDE DEF T
<1>3. a \in Seq(T) /\ Len(a) = 1 /\ a[1] = x
  BY <1>2
<1> HIDE DEF a
<1>4. /\ s \in Seq(T) /\ DOMAIN s = 1..(Len(a) + Len(t))
      /\ \A i \in 1..(Len(a) + Len(t)) : s[i] = IF i <= Len(a) THEN a[i] ELSE t[i - Len(a)]
  BY <1>2, <1>3, ConcatType
<1> HIDE DEF s
<1>5. Len(s) = Len(t) + 1 /\ s[1] = x
  BY <1>2, <1>3, <1>4
<1>6. ASSUME NEW i \in 1..Len(t) PROVE s[i + 1] = t[i]
  <2>1. i + 1 \in 1..(Len(a) + Len(t)) /\ ~(i + 1 <= Len(a)) /\ (i + 1) - Len(a) = i
    BY <1>2, <1>3
  <2> QED
    BY <1>4, <2>1
<1>7. s # <<>>
  BY <1>2, <1>4, <1>5
<1>8. IsStack(s)
  BY <1>4 DEF IsStack
<1> QED
  BY <1>2, <1>5, <1>6, <1>7, <1>8 DEF s, a

LEMMA Push2 ==
  ASSUME NEW t, IsStack(t), NEW x, NEW y
  PROVE  /\ IsStack(<<x, y>> \o t) /\ Len(t) \in Nat /\ Len(<<x, y>> \o t) = Len(t) + 2 /\ <<x, y>> \o t # <<>>
         /\ (<<x, y>> \o t)[1] = x /\ (<<x, y>> \o t)[2] = y
         /\ \A i \in 1..Len(t) : (<<x, y>> \o t)[i + 2] = t[i]
<1>1. PICK S : t \in Seq(S)
  BY DEF IsStack
<1> DEFINE T == S \cup {x, y}
           a == <<x, y>>
           s == a \o t
<1>2. t \in Seq(T) /\ x \in T /\ y \in T /\ Len(t) \in Nat
  BY <1>1
<1> HIDE DEF T
<1>3. a \in Seq(T) /\ Len(a) = 2 /\ a[1] = x /\ a[2] = y
  BY <1>2
<1> HIDE DEF a
<1>4. /\ s \in Seq(T) /\ DOMAIN s = 1..(Len(a) + Len(t))
      /\ \A i \in 1..(Len(a) + Len(t)) : s[i] = IF i <= Len(a) THEN a[i] ELSE t[i - Len(a)]
  BY <1>2, <1>3, ConcatType
<1> HIDE DEF s
<1>5. Len(s) = Len(t) + 2 /\ s[1] = x /\ s[2] = y
  BY <1>2, <1>3, <1>4
<1>6. ASSUME NEW i \in 1..Len(t) PROVE s[i + 2] = t[i]
  <2>1. i + 2 \in 1..(Len(a) + Len(t)) /\ ~(i + 2 <= Len(a)) /\ (i + 2) - Len(a) = i
    BY <1>2, <1>3
  <2> QED
    BY <1>4, <2>1
<1>7. s # <<>>
  BY <1>2, <1>4, <1>5
<1>8. IsStack(s)
  BY <1>4 DEF IsStack
<1> QED
  BY <1>2, <1>5, <1>6, <1>7, <1>8 DEF s, a

LEMMA Pop ==
  ASSUME NEW s, IsStack(s)
  PROVE  /\ Len(s) \in Nat /\ (s = <<>> <=> Len(s) = 0)
         /\ s # <<>> => /\ Head(s) = s[1] /\ IsStack(Tail(s)) /\ Len(Tail(s)) = Len(s) - 1
                        /\ \A i \in 1..Len(Tail(s)) : Tail(s)[i] = s[i + 1]
<1>1. PICK S : s \in Seq(S)
  BY DEF IsStack
<1>2. Len(s) \in Nat /\ (s = <<>> <=> Len(s) = 0)
  BY <1>1
<1>3. ASSUME s # <<>>
      PROVE  Head(s) = s[1] /\ Tail(s) \in Seq(S) /\ Len(Tail(s)) = Len(s) - 1
             /\ \A i \in 1..(Len(s) - 1) : Tail(s)[i] = s[i + 1]
  BY <1>1, <1>3, StackType
<1>4. ASSUME s # <<>> PROVE IsStack(Tail(s)) /\ \A i \in 1..Len(Tail(s)) : Tail(s)[i] = s[i + 1]
  BY <1>3, <1>4 DEF IsStack
<1> QED
  BY <1>2, <1>3, <1>4

LEMMA Kinds == ASSUME NEW x PROVE ~(IsExchange(x) /\ IsCommand(x))
  BY DEF IsExchange, IsCommand

\* The calls below another that runs: their commands are marked, and wait for reports.
Suspended(t) ==
  /\ Calls(t)
  /\ \A i \in 1..Len(t) : IsCommand(t[i]) => t[i].nested
  /\ Len(t) >= 1 /\ IsExchange(t[1]) => t[1].pc = "reporting"

\* A call that waits is no request for a length.
LEMMA SuspendedWaits ==
  ASSUME NEW t, IsStack(t), Suspended(t), NEW i \in 1..Len(t), IsCommand(t[i])
  PROVE  t[i].nested /\ t[i].pc # "head"
<1>1. t[i].nested /\ Calls(t) /\ Len(t) \in Nat
  BY Pop DEF Suspended
<1>2. SUFFICES ASSUME t[i].pc = "head" PROVE FALSE
  BY <1>1
<1>3. i > 1 /\ IsExchange(t[i - 1])
  BY <1>1, <1>2 DEF Calls, Fetching
<1>4. i - 1 \in 1..Len(t) /\ (i - 1) + 1 = i
  BY <1>1, <1>3
<1>5. Fetches(t[i - 1], t[i])
  BY <1>1, <1>3, <1>4 DEF Calls
<1>6. t[i - 1].pc = "reporting"
  <2>1. CASE i - 1 > 1
    BY <1>1, <1>3, <1>4, <2>1 DEF Calls
  <2>2. CASE ~(i - 1 > 1)
    <3>1. i - 1 = 1 /\ Len(t) >= 1
      BY <1>1, <1>4, <2>2
    <3> QED
      BY <1>3, <3>1 DEF Suspended
  <2> QED
    BY <2>1, <2>2
<1> QED
  BY <1>2, <1>5, <1>6 DEF Fetches, IsExchange, Calling

\* The first of s, s[1..k], is on t.
On(s, k, t) == Len(s) = Len(t) + k /\ \A i \in 1..Len(t) : s[i + k] = t[i]

\* What is on top of the stack may be taken away.
LEMMA Unstacked ==
  ASSUME NEW s, NEW t, IsStack(s), IsStack(t), Calls(s), NEW k \in {1, 2}, On(s, k, t),
         (k = 1 /\ IsCommand(s[1])) \/ (k = 2 /\ IsExchange(s[1]))
  PROVE  Suspended(t)
<1>1. /\ Len(t) \in Nat /\ Len(s) = Len(t) + k /\ k \in Nat /\ k >= 1
      /\ \A i \in 1..Len(t) : i + k \in 1..Len(s) /\ s[i + k] = t[i] /\ i + k > 1
  BY Pop DEF On
<1>2. k \in 1..Len(s) /\ IsCommand(s[k])
  <2>1. CASE k = 1
    BY <1>1, <2>1
  <2>2. CASE k = 2
    <3>1. 1 \in 1..Len(s) /\ IsExchange(s[1])
      BY <1>1, <2>2
    <3>2. 2 \in 1..Len(s) /\ IsCommand(s[2])
      BY <3>1 DEF Calls, Fetches
    <3> QED
      BY <2>2, <3>2
  <2> QED
    BY <2>1, <2>2
<1>3. \A i \in 1..Len(t) : IsExchange(t[i]) \/ IsCommand(t[i])
  BY <1>1 DEF Calls
<1>4. ASSUME NEW i \in 1..Len(t), IsExchange(t[i])
      PROVE  i + 1 \in 1..Len(t) /\ Fetches(t[i], t[i + 1]) /\ t[i].pc = "reporting"
  <2>1. (i + k) + 1 \in 1..Len(s) /\ Fetches(s[i + k], s[(i + k) + 1]) /\ s[i + k].pc = "reporting"
    BY <1>1, <1>4 DEF Calls
  <2>2. i + 1 \in 1..Len(t) /\ (i + 1) + k = (i + k) + 1
    BY <1>1, <2>1
  <2>3. s[(i + k) + 1] = t[i + 1]
    BY <1>1, <2>2
  <2> QED
    BY <1>1, <2>1, <2>2, <2>3
<1>5. ASSUME NEW i \in 1..Len(t), IsCommand(t[i]), t[i].pc \in Fetching
      PROVE  i > 1 /\ IsExchange(t[i - 1])
  <2>1. IsExchange(s[i + k - 1])
    BY <1>1, <1>5 DEF Calls
  <2>2. i # 1
    <3>1. SUFFICES ASSUME i = 1 PROVE FALSE
      OBVIOUS
    <3>2. i + k - 1 = k
      BY <1>1, <3>1
    <3> QED
      BY <1>2, <2>1, <3>2, Kinds
  <2>3. i - 1 \in 1..Len(t) /\ (i - 1) + k = i + k - 1 /\ i > 1
    BY <1>1, <2>2
  <2>4. s[i + k - 1] = t[i - 1]
    BY <1>1, <2>3
  <2> QED
    BY <2>1, <2>3, <2>4
<1>6. ASSUME NEW i \in 1..Len(t), IsCommand(t[i]) PROVE t[i].nested
  <2>1. k < i + k /\ i + k \in 1..Len(s) /\ IsCommand(s[i + k])
    BY <1>1, <1>6
  <2> QED
    BY <1>1, <1>2, <2>1 DEF Calls
<1>7. Calls(t)
  BY <1>3, <1>4, <1>5, <1>6 DEF Calls
<1>8. Len(t) >= 1 /\ IsExchange(t[1]) => t[1].pc = "reporting"
  BY <1>1, <1>4
<1> QED
  BY <1>6, <1>7, <1>8 DEF Suspended

\* A command that fetches nothing, or a fetch, may be put on others that wait.
LEMMA Stacked ==
  ASSUME NEW s, NEW t, IsStack(s), IsStack(t), Suspended(t), NEW k \in {1, 2}, On(s, k, t),
         (k = 1 /\ IsCommand(s[1]) /\ s[1].pc \notin Fetching) \/ (k = 2 /\ Fetches(s[1], s[2]))
  PROVE  /\ Calls(s) /\ IsCommand(s[k])
         /\ \A i \in 1..Len(s) : IsCommand(s[i]) /\ i # k => s[i].nested /\ s[i].pc # "head"
<1>1. /\ Len(t) \in Nat /\ Len(s) = Len(t) + k /\ k \in Nat /\ k >= 1 /\ k <= Len(s)
      /\ \A i \in 1..Len(t) : i + k \in 1..Len(s) /\ s[i + k] = t[i] /\ i + k > 1
  BY Pop DEF On
<1>2. IsCommand(s[k]) /\ Calls(t)
  BY DEF Fetches, Suspended
<1>3. ASSUME NEW i \in 1..Len(s)
      PROVE  \/ i = k
             \/ i = 1 /\ k = 2 /\ IsExchange(s[i]) /\ Fetches(s[i], s[i + 1]) /\ i + 1 \in 1..Len(s)
             \/ i - k \in 1..Len(t) /\ s[i] = t[i - k]
  <2>1. CASE i > k
    <3>1. i - k \in 1..Len(t) /\ (i - k) + k = i
      BY <1>1, <2>1
    <3> QED
      BY <1>1, <3>1
  <2>2. CASE i < k
    <3>1. i = 1 /\ k = 2
      BY <1>1, <2>2
    <3>2. i + 1 \in 1..Len(s) /\ i + 1 = 2
      BY <1>1, <3>1
    <3> QED
      BY <3>1, <3>2 DEF Fetches
  <2> QED
    BY <1>1, <2>1, <2>2
<1>4. \A i \in 1..Len(s) : IsExchange(s[i]) \/ IsCommand(s[i])
  BY <1>2, <1>3 DEF Calls
<1>5. ASSUME NEW i \in 1..Len(s), IsExchange(s[i])
      PROVE  i + 1 \in 1..Len(s) /\ Fetches(s[i], s[i + 1]) /\ (i > 1 => s[i].pc = "reporting")
  <2>1. i # k
    BY <1>2, <1>5, Kinds
  <2>2. CASE i - k \in 1..Len(t) /\ s[i] = t[i - k]
    <3> DEFINE j == i - k
    <3>1. j \in 1..Len(t) /\ IsExchange(t[j]) /\ s[i] = t[j]
      BY <1>5, <2>2
    <3>2. j + 1 \in 1..Len(t) /\ Fetches(t[j], t[j + 1])
      BY <1>2, <3>1 DEF Calls
    <3>3. (j + 1) + k = i + 1 /\ i + 1 \in 1..Len(s)
      BY <1>1, <3>2
    <3>4. s[i + 1] = t[j + 1]
      BY <1>1, <3>2, <3>3
    <3>5. t[j].pc = "reporting"
      <4>1. CASE j > 1
        BY <1>2, <3>1, <4>1 DEF Calls
      <4>2. CASE ~(j > 1)
        <5>1. j = 1 /\ Len(t) >= 1
          BY <1>1, <3>1, <4>2
        <5> QED
          BY <3>1, <5>1 DEF Suspended
      <4> QED
        BY <4>1, <4>2
    <3> HIDE DEF j
    <3> QED
      BY <3>1, <3>2, <3>3, <3>4, <3>5
  <2> QED
    BY <1>3, <2>1, <2>2
<1>6. ASSUME NEW i \in 1..Len(s), IsCommand(s[i]), s[i].pc \in Fetching
      PROVE  i > 1 /\ IsExchange(s[i - 1])
  <2>1. CASE i = k
    <3>1. k = 2 /\ Fetches(s[1], s[2])
      BY <1>6, <2>1
    <3> QED
      BY <2>1, <3>1 DEF Fetches
  <2>2. CASE i # k
    <3>1. i - k \in 1..Len(t) /\ s[i] = t[i - k]
      BY <1>3, <1>6, <2>2, Kinds
    <3> DEFINE j == i - k
    <3>2. j > 1 /\ IsExchange(t[j - 1]) /\ j \in 1..Len(t)
      BY <1>2, <1>6, <3>1 DEF Calls
    <3>3. j - 1 \in 1..Len(t) /\ (j - 1) + k = i - 1 /\ i > 1
      BY <1>1, <3>2
    <3>4. s[i - 1] = t[j - 1]
      BY <1>1, <3>3
    <3> HIDE DEF j
    <3> QED
      BY <3>2, <3>3, <3>4
  <2> QED
    BY <2>1, <2>2
<1>7. ASSUME NEW i \in 1..Len(s), IsCommand(s[i]), i # k
      PROVE  s[i].nested /\ s[i].pc # "head"
  <2> DEFINE j == i - k
  <2>1. j \in 1..Len(t) /\ s[i] = t[j]
    BY <1>3, <1>7, Kinds
  <2> HIDE DEF j
  <2>2. t[j].nested /\ t[j].pc # "head"
    BY <1>7, <2>1, SuspendedWaits
  <2> QED
    BY <2>1, <2>2
<1>8. ASSUME NEW i \in 1..Len(s), NEW j \in 1..Len(s), i < j, IsCommand(s[i]), IsCommand(s[j])
      PROVE  s[j].nested
  <2>1. j # k
    <3>1. SUFFICES ASSUME j = k PROVE FALSE
      OBVIOUS
    <3>2. i = 1 /\ k = 2
      BY <1>1, <1>8, <3>1
    <3>3. IsExchange(s[1])
      BY <3>2 DEF Fetches
    <3> QED
      BY <1>8, <3>2, <3>3, Kinds
  <2> QED
    BY <1>7, <1>8, <2>1
<1>9. Calls(s)
  BY <1>4, <1>5, <1>6, <1>8 DEF Calls
<1> QED
  BY <1>2, <1>7, <1>9

\* Calls of which each command vouches for its digest.
Good(s, asked, files) == IsStack(s) /\ Calls(s) /\ Vouched(s, asked, files)

LEMMA GoodBelow ==
  ASSUME NEW t, IsStack(t), Suspended(t), NEW asked, NEW files
  PROVE  Good(t, asked, files)
<1>1. \A i \in 1..Len(t) : IsCommand(t[i]) => t[i].nested /\ t[i].pc # "head"
  BY SuspendedWaits
<1> QED
  BY <1>1 DEF Good, Suspended, Vouched, Vouches

\* A command, or a fetch, put on calls that wait.
LEMMA GoodOn ==
  ASSUME NEW s, NEW t, IsStack(s), IsStack(t), Suspended(t), NEW k \in {1, 2}, On(s, k, t),
         (k = 1 /\ IsCommand(s[1]) /\ s[1].pc \notin Fetching) \/ (k = 2 /\ Fetches(s[1], s[2])),
         NEW asked, NEW files, Vouches(s[k], asked, files)
  PROVE  Good(s, asked, files)
<1>1. /\ Calls(s) /\ IsCommand(s[k])
      /\ \A i \in 1..Len(s) : IsCommand(s[i]) /\ i # k => s[i].nested /\ s[i].pc # "head"
  BY Stacked
<1>2. ASSUME NEW i \in 1..Len(s), IsCommand(s[i]) PROVE Vouches(s[i], asked, files)
  <2>1. CASE i = k
    BY <2>1
  <2>2. CASE i # k
    BY <1>1, <1>2, <2>2 DEF Vouches
  <2> QED
    BY <2>1, <2>2
<1>3. Vouched(s, asked, files)
  BY <1>2 DEF Vouched
<1> QED
  BY <1>1, <1>3 DEF Good

LEMMA CommandOn ==
  ASSUME NEW t, IsStack(t), Suspended(t), NEW c, IsCommand(c), c.pc \notin Fetching,
         NEW asked, NEW files, Vouches(c, asked, files)
  PROVE  Good(<<c>> \o t, asked, files) /\ <<c>> \o t # <<>>
<1> DEFINE s == <<c>> \o t
<1>1. IsStack(s) /\ s # <<>> /\ s[1] = c /\ On(s, 1, t)
  BY Push DEF On
<1> HIDE DEF s
<1>2. Good(s, asked, files)
  BY <1>1, GoodOn
<1> QED
  BY <1>1, <1>2 DEF s

LEMMA FetchOn ==
  ASSUME NEW t, IsStack(t), Suspended(t), NEW f, NEW c, Fetches(f, c),
         NEW asked, NEW files, Vouches(c, asked, files)
  PROVE  Good(<<f, c>> \o t, asked, files) /\ <<f, c>> \o t # <<>>
<1> DEFINE s == <<f, c>> \o t
<1>1. IsStack(s) /\ s # <<>> /\ s[1] = f /\ s[2] = c /\ On(s, 2, t)
  BY Push2 DEF On
<1> HIDE DEF s
<1>2. Good(s, asked, files)
  BY <1>1, GoodOn
<1> QED
  BY <1>1, <1>2 DEF s

\* The command on top of the stack.
LEMMA CommandOff ==
  ASSUME NEW s, NEW asked, NEW files, Good(s, asked, files), s # <<>>, IsCommand(Head(s))
  PROVE  /\ IsStack(Tail(s)) /\ Suspended(Tail(s)) /\ Vouches(Head(s), asked, files)
         /\ Head(s).pc \notin Fetching
<1> DEFINE t == Tail(s)
<1>1. /\ IsStack(s) /\ Calls(s) /\ Vouched(s, asked, files)
      /\ Len(s) \in Nat /\ Len(s) >= 1 /\ Head(s) = s[1] /\ IsStack(t) /\ Len(t) = Len(s) - 1
      /\ \A i \in 1..Len(t) : t[i] = s[i + 1]
  BY Pop DEF Good
<1> HIDE DEF t
<1>2. On(s, 1, t)
  BY <1>1 DEF On
<1>3. Suspended(t)
  BY <1>1, <1>2, Unstacked
<1>4. 1 \in 1..Len(s) /\ IsCommand(s[1])
  BY <1>1
<1>5. Vouches(s[1], asked, files) /\ s[1].pc \notin Fetching
  BY <1>1, <1>4 DEF Vouched, Calls
<1> QED
  BY <1>1, <1>3, <1>5 DEF t

\* The exchange on top of the stack, and the command that it fetches for.
LEMMA FetchOff ==
  ASSUME NEW s, NEW asked, NEW files, Good(s, asked, files), s # <<>>, IsExchange(Head(s))
  PROVE  /\ IsStack(Tail(Tail(s))) /\ Suspended(Tail(Tail(s))) /\ Vouches(s[2], asked, files)
         /\ Fetches(Head(s), s[2]) /\ IsStack(Tail(s)) /\ On(s, 2, Tail(Tail(s)))
         /\ \A g : On(<<g>> \o Tail(s), 2, Tail(Tail(s))) /\ (<<g>> \o Tail(s))[2] = s[2]
<1> DEFINE u == Tail(s)
           t == Tail(u)
<1>1. /\ IsStack(s) /\ Calls(s) /\ Vouched(s, asked, files)
      /\ Len(s) \in Nat /\ Len(s) >= 1 /\ Head(s) = s[1] /\ IsStack(u) /\ Len(u) = Len(s) - 1
      /\ \A i \in 1..Len(u) : u[i] = s[i + 1]
  BY Pop DEF Good
<1> HIDE DEF u
<1>2. 1 \in 1..Len(s) /\ IsExchange(s[1])
  BY <1>1
<1>3. 2 \in 1..Len(s) /\ Fetches(s[1], s[2])
  BY <1>1, <1>2 DEF Calls
<1>4. Len(u) >= 1 /\ IsStack(u)
  BY <1>1, <1>3
<1>5. /\ IsStack(t) /\ Len(t) = Len(u) - 1 /\ Len(t) \in Nat /\ \A i \in 1..Len(t) : t[i] = u[i + 1]
  <2>1. u # <<>>
    BY <1>4, Pop
  <2>2. IsStack(t) /\ Len(t) = Len(u) - 1 /\ \A i \in 1..Len(t) : t[i] = u[i + 1]
    BY <1>4, <2>1, Pop
  <2> HIDE DEF t
  <2>3. Len(t) \in Nat
    BY <2>2, Pop
  <2> QED
    BY <2>2, <2>3
<1> HIDE DEF t
<1>6. On(s, 2, t)
  <2>1. ASSUME NEW i \in 1..Len(t) PROVE s[i + 2] = t[i]
    <3>1. i + 1 \in 1..Len(u) /\ (i + 1) + 1 = i + 2
      BY <1>1, <1>5
    <3> QED
      BY <1>1, <1>5, <3>1
  <2> QED
    BY <1>1, <1>5, <2>1 DEF On
<1>7. Suspended(t)
  BY <1>1, <1>2, <1>5, <1>6, Unstacked
<1>8. Vouches(s[2], asked, files)
  BY <1>1, <1>3 DEF Vouched, Fetches
<1>9. ASSUME NEW g PROVE On(<<g>> \o u, 2, t) /\ (<<g>> \o u)[2] = s[2]
  <2> DEFINE r == <<g>> \o u
  <2>1. Len(r) = Len(u) + 1 /\ \A i \in 1..Len(u) : r[i + 1] = u[i]
    BY <1>1, Push
  <2> HIDE DEF r
  <2>2. r[2] = s[2]
    <3>1. 1 \in 1..Len(u) /\ 1 + 1 = 2
      BY <1>1, <1>4
    <3> QED
      BY <1>1, <2>1, <3>1
  <2>3. ASSUME NEW i \in 1..Len(t) PROVE r[i + 2] = t[i]
    <3>1. i + 1 \in 1..Len(u) /\ (i + 1) + 1 = i + 2
      BY <1>1, <1>5
    <3> QED
      BY <1>5, <2>1, <3>1
  <2>4. Len(r) = Len(t) + 2
    BY <1>1, <1>5, <2>1
  <2> QED
    BY <2>2, <2>3, <2>4 DEF On, r
<1> QED
  BY <1>1, <1>3, <1>5, <1>6, <1>7, <1>8, <1>9 DEF t, u

\* A step of the exchange on top.
LEMMA FetchGoesOn ==
  ASSUME NEW s, NEW asked, NEW files, Good(s, asked, files), s # <<>>, IsExchange(Head(s)),
         NEW g, Steps(Head(s), g), Accounts(g, s[2])
  PROVE  Good(<<g>> \o Tail(s), asked, files) /\ <<g>> \o Tail(s) # <<>>
<1> DEFINE t == Tail(Tail(s))
           u == Tail(s)
           r == <<g>> \o u
           c == s[2]
           f == Head(s)
<1>1. /\ IsStack(t) /\ Suspended(t) /\ Vouches(c, asked, files) /\ Fetches(f, c) /\ IsStack(u)
      /\ \A x : On(<<x>> \o u, 2, t) /\ (<<x>> \o u)[2] = c
  BY FetchOff
<1>2. On(r, 2, t) /\ r[2] = c
  <2> HIDE DEF t, u, c
  <2> QED
    BY <1>1
<1>3. /\ IsStack(t) /\ Suspended(t) /\ Vouches(c, asked, files) /\ Fetches(f, c)
      /\ IsStack(u) /\ On(r, 2, t) /\ r[2] = c
  BY <1>1, <1>2
<1>4. IsExchange(g) /\ g.method = f.method /\ Accounts(g, c)
  BY DEF Steps, Same
<1> HIDE DEF t, u, c, f
<1>5. IsStack(r) /\ r # <<>> /\ r[1] = g
  BY <1>3, Push
<1> HIDE DEF r
<1>6. Fetches(g, c)
  BY <1>3, <1>4 DEF Fetches
<1>7. Good(r, asked, files)
  BY <1>3, <1>5, <1>6, GoodOn
<1> QED
  BY <1>5, <1>7 DEF r, u

\* Another command is received: those below are marked.
Marked(c) == [c EXCEPT !.nested = TRUE]
Interrupted(s) == [i \in DOMAIN s |-> IF s[i].fn = "command" THEN Marked(s[i]) ELSE s[i]]

LEMMA MarkedIs ==
  ASSUME NEW c, IsCommand(c)
  PROVE  /\ IsCommand(Marked(c)) /\ Marked(c).nested /\ Marked(c).pc = c.pc
         /\ \A f : Fetches(f, c) => Fetches(f, Marked(c))
<1> DEFINE m == Marked(c)
<1>1. /\ DOMAIN m = CommandFields /\ m.fn = c.fn /\ m.pc = c.pc /\ m.version = c.version /\ m.digest = c.digest
      /\ m.pending = c.pending /\ m.nested = TRUE
  BY DEF Marked, IsCommand, CommandFields
<1> HIDE DEF m
<1>2. IsCommand(m)
  BY <1>1 DEF IsCommand
<1>3. ASSUME NEW f, Fetches(f, c) PROVE Fetches(f, m)
  <2>1. Accounts(f, c)
    BY <1>3 DEF Fetches
  <2>2. InBody(f, c) => InBody(f, m)
    BY <1>1 DEF InBody
  <2>3. Owes(f, c) => Owes(f, m)
    BY <1>1 DEF Owes
  <2>4. Accounts(f, m)
    BY <1>1, <2>1, <2>2, <2>3 DEF Accounts
  <2> QED
    BY <1>1, <1>2, <1>3, <2>4 DEF Fetches
<1> QED
  BY <1>1, <1>2, <1>3 DEF m

LEMMA InterruptedWaits ==
  ASSUME NEW s, IsStack(s), Calls(s), Len(s) >= 1 /\ IsExchange(s[1]) => s[1].pc = "reporting"
  PROVE  IsStack(Interrupted(s)) /\ Suspended(Interrupted(s))
<1> DEFINE t == Interrupted(s)
<1>1. /\ IsStack(t) /\ Len(t) = Len(s) /\ Len(s) \in Nat
      /\ \A i \in 1..Len(s) : t[i] = IF s[i].fn = "command" THEN Marked(s[i]) ELSE s[i]
  <2>1. PICK S : s \in Seq(S)
    BY DEF IsStack
  <2> DEFINE turned(x) == IF x.fn = "command" THEN Marked(x) ELSE x
             T == {turned(x) : x \in S}
  <2>2. \A x \in S : turned(x) \in T
    OBVIOUS
  <2>3. t = [i \in DOMAIN s |-> turned(s[i])]
    BY DEF Interrupted
  <2> HIDE DEF t, T, turned
  <2>4. DOMAIN s = 1..Len(s) /\ Len(s) \in Nat /\ \A i \in DOMAIN s : s[i] \in S
    BY <2>1
  <2>5. t \in [1..Len(s) -> T]
    BY <2>2, <2>3, <2>4
  <2>6. t \in Seq(T) /\ Len(t) = Len(s)
    BY <2>4, <2>5
  <2>7. IsStack(t)
    BY <2>6 DEF IsStack
  <2>8. \A i \in 1..Len(s) : t[i] = turned(s[i])
    BY <2>3, <2>4
  <2> QED
    BY <2>4, <2>6, <2>7, <2>8 DEF turned
<1> HIDE DEF t
<1>2. ASSUME NEW i \in 1..Len(s)
      PROVE  \/ /\ IsCommand(s[i]) /\ IsCommand(t[i]) /\ t[i].nested /\ t[i].pc = s[i].pc
                /\ \A f : Fetches(f, s[i]) => Fetches(f, t[i])
             \/ IsExchange(s[i]) /\ t[i] = s[i]
  <2>1. CASE IsCommand(s[i])
    <3>1. s[i].fn = "command"
      BY <2>1 DEF IsCommand
    <3>2. t[i] = Marked(s[i])
      BY <1>1, <3>1
    <3>3. IsCommand(Marked(s[i])) /\ Marked(s[i]).nested /\ Marked(s[i]).pc = s[i].pc
          /\ \A f : Fetches(f, s[i]) => Fetches(f, Marked(s[i]))
      BY <2>1, MarkedIs
    <3> QED
      BY <2>1, <3>2, <3>3
  <2>2. CASE IsExchange(s[i])
    <3>1. s[i].fn # "command"
      BY <2>2 DEF IsExchange
    <3> QED
      BY <1>1, <2>2, <3>1
  <2> QED
    BY <2>1, <2>2 DEF Calls
<1>3. \A i \in 1..Len(t) : IsExchange(t[i]) \/ IsCommand(t[i])
  BY <1>1, <1>2
<1>4. ASSUME NEW i \in 1..Len(t), IsExchange(t[i])
      PROVE  i + 1 \in 1..Len(t) /\ Fetches(t[i], t[i + 1]) /\ t[i].pc = "reporting"
  <2>1. i \in 1..Len(s) /\ t[i] = s[i] /\ IsExchange(s[i])
    BY <1>1, <1>2, <1>4, Kinds
  <2>2. i + 1 \in 1..Len(s) /\ Fetches(s[i], s[i + 1]) /\ (i > 1 => s[i].pc = "reporting")
    BY <2>1 DEF Calls
  <2>3. IsCommand(s[i + 1])
    BY <2>2 DEF Fetches
  <2>4. Fetches(s[i], t[i + 1])
    BY <1>2, <2>2, <2>3, Kinds
  <2>5. i = 1 => Len(s) >= 1
    BY <1>1, <2>1
  <2> QED
    BY <1>1, <2>1, <2>2, <2>4, <2>5
<1>5. ASSUME NEW i \in 1..Len(t), IsCommand(t[i])
      PROVE  t[i].nested /\ (t[i].pc \in Fetching => i > 1 /\ IsExchange(t[i - 1]))
  <2>1. i \in 1..Len(s) /\ IsCommand(s[i]) /\ t[i].nested /\ t[i].pc = s[i].pc
    BY <1>1, <1>2, <1>5, Kinds
  <2>2. s[i].pc \in Fetching => i > 1 /\ IsExchange(s[i - 1])
    BY <2>1 DEF Calls
  <2>3. i > 1 => i - 1 \in 1..Len(s)
    BY <1>1, <2>1
  <2>4. i > 1 /\ IsExchange(s[i - 1]) => t[i - 1] = s[i - 1]
    BY <1>2, <2>3, Kinds
  <2> QED
    BY <2>1, <2>2, <2>4
<1>6. Calls(t)
  BY <1>3, <1>4, <1>5 DEF Calls
<1>7. Suspended(t)
  BY <1>4, <1>5, <1>6 DEF Suspended
<1> QED
  BY <1>1, <1>7 DEF t

-----------------------------------------------------------------------------
(* The actions.                                                            *)

Files(files) == DOMAIN files = Versions /\ \A v \in Versions : files[v] \in Seq(Range(Firmware[v]))

\* What run_mqtt finds when its calls run.
LEMMA Yielding ==
  ASSUME TypeInv, DigestInv, main = "yield", stack # <<>>
  PROVE  /\ Good(stack, handler.version, file) /\ (IsExchange(Top) \/ IsCommand(Top))
         /\ handler.version \in Versions /\ handler.url \in Urls /\ Files(file)
         /\ Performs \/ Top.fn = "returned" => IsExchange(Top) /\ Fetches(Top, Below)
         /\ Top.fn = "command" => IsCommand(Top)
<1>1. IsStack(stack) /\ Calls(stack) /\ DigestInv /\ handler.version \in Versions /\ handler.url \in Urls
      /\ Files(file)
  BY DEF TypeInv, StackInv, HandlerInv, FileInv, Files
<1>2. Good(stack, handler.version, file)
  BY <1>1 DEF Good, DigestInv
<1>3. Top = stack[1] /\ 1 \in 1..Len(stack)
  BY <1>1, Pop DEF Top
<1>4. IsExchange(Top) \/ IsCommand(Top)
  BY <1>1, <1>3 DEF Calls
<1>5. IsExchange(Top) => Fetches(Top, Below)
  BY <1>1, <1>3 DEF Calls, Below
<1>6. Performs \/ Top.fn = "returned" => IsExchange(Top)
  BY <1>4 DEF Performs, IsCommand
<1>7. Top.fn = "command" => IsCommand(Top)
  BY <1>4 DEF IsExchange
<1> QED
  BY <1>1, <1>2, <1>4, <1>5, <1>6, <1>7

\* What its calls leave.
LEMMA Yields ==
  ASSUME TypeInv, main' = "yield", Good(stack', handler'.version, file'), Files(file'),
         DOMAIN handler' = {"version", "url"}, handler'.version \in Versions, handler'.url \in Urls,
         outcome' \in [Versions -> {"none", "upgrading", "refused"}], faults' \in 0..MaxFaults
  PROVE  TypeInv' /\ DigestInv'
<1>1. StackInv'
  BY DEF StackInv, Good
<1>2. HandlerInv' /\ FileInv'
  BY DEF HandlerInv, FileInv, Files
<1>3. DigestInv'
  BY DEF DigestInv, Good
<1> QED
  BY <1>1, <1>2, <1>3 DEF TypeInv

LEMMA YieldsOn ==
  ASSUME TypeInv, main = "yield", stack # <<>>, UNCHANGED <<main, handler, outcome>>,
         Good(stack', handler.version, file'), Files(file'), faults' \in 0..MaxFaults
  PROVE  TypeInv' /\ DigestInv'
<1>1. /\ main' = "yield" /\ Good(stack', handler'.version, file')
      /\ DOMAIN handler' = {"version", "url"} /\ handler'.version \in Versions /\ handler'.url \in Urls
      /\ outcome' \in [Versions -> {"none", "upgrading", "refused"}]
  BY DEF TypeInv, HandlerInv
<1> QED
  BY <1>1, Yields

\* Calls that end.
LEMMA NoCalls ==
  ASSUME TypeInv, stack' = <<>>, main' \in {"off", "yield"}, DOMAIN handler' = {"version", "url"},
         handler'.version \in Versions \cup {0}, UNCHANGED <<file, outcome>>, faults' \in 0..MaxFaults
  PROVE  TypeInv' /\ DigestInv'
<1>1. IsStack(stack') /\ Len(stack') = 0
  BY NoFrames
<1>2. Calls(stack') /\ DigestInv'
  BY <1>1 DEF Calls, DigestInv, Vouched
<1>3. StackInv' /\ HandlerInv' /\ FileInv'
  BY <1>1, <1>2 DEF StackInv, HandlerInv, FileInv, TypeInv
<1> QED
  BY <1>2, <1>3 DEF TypeInv

\* A step of the exchange on top of the stack.
LEMMA ExchangeStep ==
  ASSUME TypeInv, DigestInv, Performs, NEW g, Steps(Top, g), main = "yield" => Accounts(g, Below),
         stack' = <<g>> \o Tail(stack), UNCHANGED <<main, handler, file, outcome>>, faults' \in 0..MaxFaults
  PROVE  TypeInv' /\ DigestInv'
<1>1. stack # <<>> /\ IsStack(stack)
  BY DEF Performs, TypeInv, StackInv
<1>2. CASE main = "yield"
  <2>1. Good(stack, handler.version, file) /\ IsExchange(Top) /\ Files(file)
    BY <1>1, <1>2, Yielding
  <2>2. Good(<<g>> \o Tail(stack), handler.version, file)
    BY <1>1, <1>2, <2>1, FetchGoesOn DEF Top, Below
  <2>3. Good(stack', handler.version, file') /\ Files(file')
    BY <2>1, <2>2
  <2> QED
    BY <1>1, <1>2, <2>3, YieldsOn
<1>3. CASE main = "token"
  <2>1. /\ Len(stack) = 2 /\ IsExchange(stack[1]) /\ stack[1].method = "POST" /\ stack[2].fn = "token"
        /\ Top = stack[1]
    BY <1>1, <1>3, Pop DEF TypeInv, StackInv, Top
  <2>2. IsStack(Tail(stack)) /\ Len(Tail(stack)) = 1 /\ Tail(stack)[1] = stack[2]
    BY <1>1, <2>1, Pop
  <2>3. IsStack(stack') /\ Len(stack') = 2 /\ stack'[1] = g /\ stack'[2] = stack[2] /\ stack' # <<>>
    BY <2>2, Push
  <2>4. IsExchange(g) /\ g.method = "POST"
    BY <2>1 DEF Steps, Same
  <2>5. StackInv'
    BY <1>3, <2>1, <2>3, <2>4 DEF StackInv
  <2>6. DigestInv'
    <3>1. ASSUME NEW i \in 1..Len(stack'), IsCommand(stack'[i]) PROVE FALSE
      <4>1. i = 1 \/ i = 2
        BY <2>3
      <4> QED
        BY <2>1, <2>3, <2>4, <3>1, <4>1, Kinds DEF IsCommand
    <3> QED
      BY <3>1 DEF DigestInv, Vouched
  <2>7. HandlerInv' /\ FileInv'
    BY <1>3 DEF TypeInv, HandlerInv, FileInv
  <2> QED
    BY <2>5, <2>6, <2>7 DEF TypeInv
<1> QED
  BY <1>1, <1>2, <1>3 DEF TypeInv, StackInv

LEMMA PerformsIs ==
  ASSUME TypeInv, DigestInv, Performs
  PROVE  /\ IsExchange(Top) /\ Top.fn = "perform" /\ (main = "yield" => Fetches(Top, Below))
         /\ faults \in Nat /\ MaxFaults \in Nat /\ faults <= MaxFaults
<1>1. stack # <<>> /\ Top.fn = "perform" /\ IsStack(stack) /\ main \in {"token", "yield"}
  BY DEF Performs, TypeInv, StackInv
<1>2. main = "token" => IsExchange(Top)
  BY <1>1, Pop DEF TypeInv, StackInv, Top
<1>3. main = "yield" => IsExchange(Top) /\ Fetches(Top, Below)
  BY <1>1, Yielding
<1>4. faults \in Nat /\ MaxFaults \in Nat /\ faults <= MaxFaults
  BY OtaAssumption DEF TypeInv
<1> QED
  BY <1>1, <1>2, <1>3, <1>4

LEMMA ConnectKeeps == TypeInv /\ DigestInv /\ Connect => TypeInv' /\ DigestInv'
<1> SUFFICES ASSUME TypeInv, DigestInv, Connect PROVE TypeInv' /\ DigestInv'
  OBVIOUS
<1>1. Performs /\ Top.pc = "connect" /\ UNCHANGED <<main, handler, file, outcome>>
  BY DEF Connect
<1>2. PICK c \in Connects(Top.net) :
        /\ c.net.session = "up" \/ faults < MaxFaults
        /\ faults' = IF c.net.session = "up" THEN faults ELSE faults + 1
        /\ stack' = <<Connected(Top, c)>> \o Tail(stack)
  BY DEF Connect, Step
<1>3. /\ IsExchange(Top) /\ Top.fn = "perform" /\ (main = "yield" => Fetches(Top, Below))
      /\ faults \in Nat /\ MaxFaults \in Nat /\ faults <= MaxFaults
  BY <1>1, PerformsIs
<1>4. Steps(Top, Connected(Top, c))
  BY <1>1, <1>3, WireSteps DEF Goes
<1>5. main = "yield" => Accounts(Connected(Top, c), Below)
  BY <1>1, <1>3, ConnectedAccounts
<1>6. faults' \in 0..MaxFaults
  BY <1>2, <1>3
<1> QED
  BY <1>1, <1>2, <1>4, <1>5, <1>6, ExchangeStep

LEMMA WriteKeeps == TypeInv /\ DigestInv /\ Write => TypeInv' /\ DigestInv'
<1> SUFFICES ASSUME TypeInv, DigestInv, Write PROVE TypeInv' /\ DigestInv'
  OBVIOUS
<1>1. Performs /\ Top.pc = "write" /\ UNCHANGED <<main, handler, file, outcome, faults>>
  BY DEF Write
<1>2. PICK net \in Writes(Top.net) : stack' = <<Written(Top, net)>> \o Tail(stack)
  BY DEF Write, Step
<1>3. /\ IsExchange(Top) /\ Top.fn = "perform" /\ (main = "yield" => Fetches(Top, Below))
      /\ faults \in Nat /\ MaxFaults \in Nat /\ faults <= MaxFaults
  BY <1>1, PerformsIs
<1>4. Steps(Top, Written(Top, net))
  BY <1>3, WireSteps
<1>5. main = "yield" => Accounts(Written(Top, net), Below)
  BY <1>1, <1>3, WrittenAccounts
<1>6. faults' \in 0..MaxFaults
  BY <1>1, <1>3
<1> QED
  BY <1>1, <1>2, <1>4, <1>5, <1>6, ExchangeStep

LEMMA ReadKeeps == TypeInv /\ DigestInv /\ Read => TypeInv' /\ DigestInv'
<1> SUFFICES ASSUME TypeInv, DigestInv, Read PROVE TypeInv' /\ DigestInv'
  OBVIOUS
<1>1. Performs /\ Reading(Top) /\ UNCHANGED <<main, handler, file, outcome>>
  BY DEF Read
<1> DEFINE early == faults < MaxFaults
<1>2. PICK f \in AfterRead(Top, early) :
        /\ f.cuts = Top.cuts \/ faults < MaxFaults
        /\ stack' = <<f>> \o Tail(stack)
        /\ faults' = IF f.cuts = Top.cuts THEN faults ELSE faults + 1
  BY DEF Read, Step
<1>3. /\ IsExchange(Top) /\ Top.fn = "perform" /\ (main = "yield" => Fetches(Top, Below))
      /\ faults \in Nat /\ MaxFaults \in Nat /\ faults <= MaxFaults
  BY <1>1, PerformsIs
<1>4. early \in BOOLEAN
  BY <1>3
<1>6. faults' \in 0..MaxFaults
  BY <1>2, <1>3
<1> HIDE DEF early
<1>5. Steps(Top, f)
  BY <1>1, <1>3, <1>4, ReadSteps
<1>7. main = "yield" => Accounts(f, Below)
  BY <1>1, <1>3, <1>4, ReadAccounts
<1> QED
  BY <1>1, <1>2, <1>5, <1>6, <1>7, ExchangeStep

LEMMA TokenRequestIs ==
  ASSUME NEW d \in Devices, NEW s \in BOOLEAN
  PROVE  TokenRequest[d][s].method = "POST" /\ TokenRequest[d][s].secured = s
  BY DEF TokenRequest

LEMMA ExpireKeeps == TypeInv /\ DigestInv /\ Expire => TypeInv' /\ DigestInv'
<1> SUFFICES ASSUME TypeInv, DigestInv, Expire PROVE TypeInv' /\ DigestInv'
  OBVIOUS
<1> DEFINE g == [Top EXCEPT !.expired = TRUE]
<1>1. /\ Performs /\ Top.pc = "header" /\ UNCHANGED <<main, handler, file, outcome>>
      /\ stack' = <<g>> \o Tail(stack)
  BY DEF Expire, Step
<1>2. /\ IsExchange(Top) /\ Top.fn = "perform" /\ (main = "yield" => Fetches(Top, Below))
      /\ faults \in Nat /\ MaxFaults \in Nat /\ faults <= MaxFaults
  BY <1>1, PerformsIs
<1>3. faults' \in 0..MaxFaults
  BY <1>2 DEF Expire
<1>4. Steps(Top, g)
  BY <1>2, WireSteps DEF Goes
<1>5. main = "yield" => Accounts(g, Below)
  BY <1>1, <1>2, ExpiredAccounts
<1> HIDE DEF g
<1> QED
  BY <1>1, <1>3, <1>4, <1>5, ExchangeStep

LEMMA BreakKeeps == TypeInv /\ DigestInv /\ Break => TypeInv' /\ DigestInv'
<1> SUFFICES ASSUME TypeInv, DigestInv, Break PROVE TypeInv' /\ DigestInv'
  OBVIOUS
<1>1. Performs /\ Reading(Top) /\ UNCHANGED <<main, handler, file, outcome>>
  BY DEF Break
<1>2. PICK l \in Links, k \in 0..Len(Top.wire) : stack' = <<Broken(Top, l, k)>> \o Tail(stack)
  BY DEF Break, Step
<1>3. /\ IsExchange(Top) /\ Top.fn = "perform" /\ (main = "yield" => Fetches(Top, Below))
      /\ faults \in Nat /\ MaxFaults \in Nat /\ faults <= MaxFaults
  BY <1>1, PerformsIs
<1>4. faults' \in 0..MaxFaults
  BY <1>3 DEF Break
<1>5. Steps(Top, Broken(Top, l, k))
  BY <1>3, WireSteps DEF Goes
<1>6. main = "yield" => Accounts(Broken(Top, l, k), Below)
  BY <1>1, <1>3, BrokenAccounts
<1> QED
  BY <1>1, <1>2, <1>4, <1>5, <1>6, ExchangeStep

LEMMA StartKeeps == TypeInv /\ DigestInv /\ Start => TypeInv' /\ DigestInv'
<1> SUFFICES ASSUME TypeInv, DigestInv, Start PROVE TypeInv' /\ DigestInv'
  OBVIOUS
<1>1. main = "off" /\ main' = "token" /\ UNCHANGED <<handler, file, outcome>>
  BY DEF Start
<1>2. PICK response \in GoodResponses \cup BadResponses, s \in Schemes, d \in Devices :
        /\ response \in GoodResponses \/ faults < MaxFaults
        /\ faults' = IF response \in GoodResponses THEN faults ELSE faults + 1
        /\ stack' = <<Perform(TokenRequest[d][s], FALSE, response, TokenBufLen), [fn |-> "token"]>>
  BY DEF Start
<1> DEFINE request == TokenRequest[d][s]
           f == Perform(request, FALSE, response, TokenBufLen)
           token == [fn |-> "token"]
<1>3. request.method = "POST" /\ request.secured \in BOOLEAN
  BY TokenRequestIs, OtaAssumption
<1> HIDE DEF request
<1>4. IsExchange(f) /\ f.method = "POST"
  <2> DEFINE callback == FALSE
  <2>1. /\ request.method \in {"POST", "HEAD", "GET"} /\ request.secured \in BOOLEAN
        /\ callback = (request.method = "GET")
    BY <1>3
  <2>2. f = Perform(request, callback, response, TokenBufLen)
    OBVIOUS
  <2> HIDE DEF callback, f
  <2>3. IsExchange(f) /\ f.method = request.method
    BY <2>1, <2>2, PerformIs
  <2> QED
    BY <1>3, <2>3
<1> HIDE DEF f
<1>5. token.fn = "token"
  OBVIOUS
<1> HIDE DEF token
<1>6. stack' = <<f, token>>
  BY <1>2 DEF f, request, token
<1>7. IsStack(stack') /\ Len(stack') = 2 /\ stack'[1] = f /\ stack'[2] = token
  <2>1. IsStack(<<f, token>>) /\ Len(<<f, token>>) = 2 /\ <<f, token>>[1] = f /\ <<f, token>>[2] = token
    BY TwoFrames
  <2> QED
    BY <1>6, <2>1
<1>8. StackInv'
  BY <1>1, <1>4, <1>5, <1>7 DEF StackInv
<1>9. DigestInv'
  <2>1. ASSUME NEW i \in 1..Len(stack'), IsCommand(stack'[i]) PROVE FALSE
    <3>1. i = 1 \/ i = 2
      BY <1>7
    <3> QED
      BY <1>4, <1>5, <1>7, <2>1, <3>1, Kinds DEF IsCommand
  <2> QED
    BY <2>1 DEF DigestInv, Vouched
<1>10. HandlerInv' /\ FileInv'
  BY <1>1 DEF TypeInv, HandlerInv, FileInv
<1>11. faults' \in 0..MaxFaults
  BY <1>2, OtaAssumption DEF TypeInv
<1> QED
  BY <1>1, <1>8, <1>9, <1>10, <1>11 DEF TypeInv

LEMMA TokenReturnsKeeps == TypeInv /\ DigestInv /\ TokenReturns => TypeInv' /\ DigestInv'
<1> SUFFICES ASSUME TypeInv, DigestInv, TokenReturns PROVE TypeInv' /\ DigestInv'
  OBVIOUS
<1>1. stack' = <<>> /\ main' \in {"off", "yield"} /\ UNCHANGED <<handler, file, outcome, faults>>
  BY DEF TokenReturns
<1>2. DOMAIN handler' = {"version", "url"} /\ handler'.version \in Versions \cup {0} /\ faults' \in 0..MaxFaults
  BY <1>1 DEF TypeInv, HandlerInv
<1> QED
  BY <1>1, <1>2, NoCalls

LEMMA CrashKeeps == TypeInv /\ DigestInv /\ Crash => TypeInv' /\ DigestInv'
<1> SUFFICES ASSUME TypeInv, DigestInv, Crash PROVE TypeInv' /\ DigestInv'
  OBVIOUS
<1>1. stack' = <<>> /\ main' = "off" /\ handler' = NoCommand /\ UNCHANGED <<file, outcome>>
      /\ faults < MaxFaults /\ faults' = faults + 1
  BY DEF Crash
<1>2. DOMAIN NoCommand = {"version", "url"} /\ NoCommand.version = 0
  BY DEF NoCommand
<1>3. faults' \in 0..MaxFaults
  BY <1>1, OtaAssumption DEF TypeInv
<1> QED
  BY <1>1, <1>2, <1>3, NoCalls

LEMMA ReceiveKeeps == TypeInv /\ DigestInv /\ Receive => TypeInv' /\ DigestInv'
<1> SUFFICES ASSUME TypeInv, DigestInv, Receive PROVE TypeInv' /\ DigestInv'
  OBVIOUS
<1>1. main = "yield" /\ UNCHANGED <<main, file, outcome>>
  BY DEF Receive
<1> DEFINE t == Interrupted(stack)
<1>2. PICK v \in Versions, u \in Urls :
        handler' = [version |-> v, url |-> u] /\ stack' = <<Command>> \o t
  BY DEF Receive, Interrupted, Marked
<1>3. IsStack(stack) /\ Calls(stack) /\ Files(file)
  BY <1>1 DEF TypeInv, StackInv, FileInv, Files
<1>4. Len(stack) >= 1 /\ IsExchange(stack[1]) => stack[1].pc = "reporting"
  <2>1. SUFFICES ASSUME Len(stack) >= 1, IsExchange(stack[1]) PROVE stack[1].pc = "reporting"
    OBVIOUS
  <2>2. stack # <<>> /\ Top = stack[1]
    BY <1>3, <2>1, Pop DEF Top
  <2>3. Reporting(Top)
    BY <2>2 DEF Receive
  <2> QED
    BY <2>1, <2>2, <2>3 DEF Reporting, IsExchange
<1>5. IsStack(t) /\ Suspended(t)
  BY <1>3, <1>4, InterruptedWaits
<1>6. IsCommand(Command) /\ Command.pc = "received"
  BY DEF IsCommand, Command, CommandFields, Early
<1>7. Command.pc \notin Fetching /\ Vouches(Command, v, file)
  BY <1>6 DEF Fetching, Vouches, Early
<1> HIDE DEF t
<1>8. Good(stack', v, file)
  BY <1>2, <1>5, <1>6, <1>7, CommandOn
<1>9. faults' \in 0..MaxFaults
  BY OtaAssumption DEF Receive, TypeInv
<1>10. DOMAIN handler' = {"version", "url"} /\ handler'.version = v /\ handler'.url = u
  BY <1>2
<1>11. /\ main' = "yield" /\ Good(stack', handler'.version, file') /\ Files(file')
       /\ DOMAIN handler' = {"version", "url"} /\ handler'.version \in Versions /\ handler'.url \in Urls
       /\ outcome' \in [Versions -> {"none", "upgrading", "refused"}] /\ faults' \in 0..MaxFaults
  BY <1>1, <1>3, <1>8, <1>9, <1>10 DEF TypeInv
<1> QED
  BY <1>11, Yields

LEMMA ReportReturnsKeeps == TypeInv /\ DigestInv /\ ReportReturns => TypeInv' /\ DigestInv'
<1> SUFFICES ASSUME TypeInv, DigestInv, ReportReturns PROVE TypeInv' /\ DigestInv'
  OBVIOUS
<1> DEFINE c == Top
           next == Follows(c)
           d == [c EXCEPT !.pc = next]
           t == Tail(stack)
<1>1. stack # <<>> /\ c.fn = "command" /\ c.pc # "open" /\ Reporting(c) /\ UNCHANGED <<main, handler, file>>
  BY DEF ReportReturns
<1>2. main = "yield"
  BY <1>1, Pop DEF TypeInv, StackInv, Top, IsExchange
<1>3. /\ Good(stack, handler.version, file) /\ handler.version \in Versions /\ Files(file) /\ IsCommand(c)
      /\ handler.url \in Urls
  BY <1>1, <1>2, Yielding
<1>4. IsStack(t) /\ Suspended(t) /\ Vouches(c, handler.version, file) /\ c.pc \notin Fetching
  BY <1>1, <1>3, CommandOff DEF Top
<1>5. c.pc \in {"received", "checked", "refused", "progress", "matched", "differs", "upgrading"}
  BY <1>1 DEF Reporting
<1>6. IF next = "end" THEN stack' = t ELSE stack' = <<d>> \o t
  BY DEF ReportReturns, Step
<1> HIDE DEF c, t
<1>7. next # "end" => \/ c.pc \in Early /\ next \in Early
                      \/ c.pc = "matched" /\ next = "upgrading"
  BY <1>5 DEF Follows, Early
<1> HIDE DEF next
<1>8. Good(stack', handler.version, file)
  <2>1. CASE next = "end"
    <3>1. Good(t, handler.version, file)
      BY <1>4, GoodBelow
    <3> QED
      BY <1>6, <2>1, <3>1
  <2>2. CASE next # "end"
    <3>1. /\ DOMAIN d = CommandFields /\ d.fn = "command" /\ d.pc = next /\ d.version = c.version
          /\ d.digest = c.digest /\ d.pending = c.pending /\ d.nested = c.nested
      BY <1>1, <1>3 DEF IsCommand, CommandFields
    <3> HIDE DEF d
    <3>2. IsCommand(d) /\ d.pc \notin Fetching
      BY <1>3, <1>7, <2>2, <3>1 DEF IsCommand, Early, Late, Fetching
    <3>3. Vouches(d, handler.version, file)
      <4>1. CASE next \in Early
        BY <3>1, <4>1 DEF Vouches, Early
      <4>2. CASE c.pc = "matched" /\ next = "upgrading"
        BY <1>4, <3>1, <4>2 DEF Vouches, Digested, Early
      <4> QED
        BY <1>7, <2>2, <4>1, <4>2
    <3>4. Good(<<d>> \o t, handler.version, file)
      BY <1>4, <3>2, <3>3, CommandOn
    <3> QED
      BY <1>6, <2>2, <3>4
  <2> QED
    BY <2>1, <2>2
<1>9. faults' \in 0..MaxFaults
  BY OtaAssumption DEF ReportReturns, TypeInv
<1>10. outcome' \in [Versions -> {"none", "upgrading", "refused"}]
  <2>1. \A r : \A o \in {"none", "upgrading", "refused"} : Concluded(r, o) \in {"none", "upgrading", "refused"}
    BY DEF Concluded
  <2>2. outcome \in [Versions -> {"none", "upgrading", "refused"}]
    BY DEF TypeInv
  <2>3. \/ outcome' = [outcome EXCEPT ![handler.version] = Concluded(Report(Top), outcome[handler.version])]
        \/ outcome' = outcome
    BY DEF ReportReturns
  <2> QED
    BY <1>3, <2>1, <2>2, <2>3
<1>11. /\ main' = "yield" /\ Good(stack', handler'.version, file') /\ Files(file')
       /\ DOMAIN handler' = {"version", "url"} /\ handler'.version \in Versions /\ handler'.url \in Urls
  BY <1>1, <1>2, <1>3, <1>8 DEF TypeInv, HandlerInv
<1> QED
  BY <1>9, <1>10, <1>11, Yields

LEMMA NothingAfter == ASSUME NEW S, NEW s \in Seq(S) PROVE s \o <<>> = s /\ <<>> \in Seq(S)
  OBVIOUS

LEMMA OpenKeeps == TypeInv /\ DigestInv /\ Open => TypeInv' /\ DigestInv'
<1> SUFFICES ASSUME TypeInv, DigestInv, Open PROVE TypeInv' /\ DigestInv'
  OBVIOUS
<1> DEFINE c == Top
           v == handler.version
           u == handler.url
           d == [c EXCEPT !.pc = "head", !.version = v, !.digest = file[v], !.start = Len(file[v])]
           f == Perform(UrlRequest["HEAD"][u], FALSE, Responded(v), OtaBufLen)
           t == Tail(stack)
<1>1. /\ stack # <<>> /\ c.fn = "command" /\ c.pc = "open" /\ UNCHANGED <<main, handler, file, outcome, faults>>
      /\ stack' = <<f, d>> \o t
  BY DEF Open, Call
<1>2. main = "yield"
  BY <1>1, Pop DEF TypeInv, StackInv, Top, IsExchange
<1>3. Good(stack, v, file) /\ v \in Versions /\ Files(file) /\ IsCommand(c) /\ u \in Urls
  BY <1>1, <1>2, Yielding
<1>4. IsStack(t) /\ Suspended(t)
  BY <1>1, <1>3, CommandOff DEF Top
<1> HIDE DEF c, t
<1>5. /\ DOMAIN d = CommandFields /\ d.fn = "command" /\ d.pc = "head" /\ d.version = v
      /\ d.digest = file[v] /\ d.pending = c.pending /\ d.nested = c.nested
  BY <1>1, <1>3 DEF IsCommand, CommandFields
<1> HIDE DEF d
<1>6. c.pending = <<>> /\ c.nested \in BOOLEAN
  BY <1>1, <1>3 DEF IsCommand
<1>7. file[v] \in Seq(Range(Firmware[v])) /\ file[v] \o <<>> = file[v] /\ <<>> \in Seq(Range(Firmware[v]))
  <2>1. file[v] \in Seq(Range(Firmware[v]))
    BY <1>3 DEF Files
  <2> QED
    BY <2>1, NothingAfter
<1>8. IsCommand(d)
  BY <1>3, <1>5, <1>6, <1>7 DEF IsCommand, Early, Fetching
<1>9. Vouches(d, v, file)
  BY <1>5, <1>6, <1>7 DEF Vouches, Digested
<1>10. IsExchange(f) /\ f.method = "HEAD" /\ Accounts(f, d)
  <2> DEFINE method == "HEAD"
  <2>1. method \in {"HEAD", "GET"} /\ d.version \in Versions /\ FALSE = (method = "GET") /\ Responded(v) = Sent(method, d.version)
    BY <1>3, <1>5 DEF Sent
  <2>2. f = Perform(UrlRequest[method][u], method = "GET", Sent(method, d.version), OtaBufLen)
    BY <2>1
  <2>3. u \in Urls
    BY <1>3
  <2> HIDE DEF f, method, u
  <2>4. IsExchange(f) /\ f.method = method /\ Accounts(f, d)
    BY <2>1, <2>2, <2>3, BeginsAccounts
  <2> QED
    BY <2>4 DEF method
<1> HIDE DEF f
<1>11. Fetches(f, d)
  BY <1>5, <1>8, <1>10 DEF Fetches
<1>12. Good(stack', v, file')
  BY <1>1, <1>4, <1>9, <1>11, FetchOn
<1>13. Files(file') /\ faults' \in 0..MaxFaults
  BY <1>1, <1>3 DEF TypeInv
<1> QED
  BY <1>1, <1>2, <1>12, <1>13, YieldsOn

\* The digest of a command is compared with that of its firmware.
LEMMA ComparedIs ==
  ASSUME NEW d, IsCommand(d), d.pc \notin Early, d.pending = <<>>, NEW files,
         ~d.nested => Digested(d, handler.version, files)
  PROVE  /\ IsCommand(Compared(d)) /\ Compared(d).pc \notin Fetching
         /\ Vouches(Compared(d), handler.version, files)
<1> DEFINE pc == IF d.digest = Firmware[handler.version] THEN "matched" ELSE "differs"
           e == [d EXCEPT !.pc = pc]
<1>1. /\ DOMAIN e = CommandFields /\ e.fn = "command" /\ e.pc = pc /\ e.version = d.version
      /\ e.digest = d.digest /\ e.pending = d.pending /\ e.nested = d.nested
  BY DEF IsCommand, CommandFields
<1>2. Compared(d) = e
  BY DEF Compared
<1> HIDE DEF e
<1>3. pc \in Late /\ pc \notin Early /\ pc \notin Fetching /\ pc # "head" /\ pc # "upgrading"
      /\ (pc = "matched" => d.digest = Firmware[handler.version])
  BY DEF Late, Early, Fetching
<1> HIDE DEF pc
<1>4. IsCommand(e)
  BY <1>1, <1>3 DEF IsCommand
<1>5. ASSUME ~d.nested PROVE Digested(e, handler.version, files)
  BY <1>1, <1>3, <1>5 DEF Digested
<1>6. Vouches(e, handler.version, files)
  BY <1>1, <1>3, <1>5 DEF Vouches
<1> QED
  BY <1>1, <1>2, <1>3, <1>4, <1>6

LEMMA ReturnedIs ==
  ASSUME TypeInv, DigestInv, Len(stack) > 1, Top.fn = "returned", Below.fn = "command"
  PROVE  main = "yield" /\ stack # <<>>
<1>1. IsStack(stack)
  BY DEF TypeInv, StackInv
<1>2. stack # <<>>
  BY <1>1, Pop
<1>3. main # "token"
  BY DEF TypeInv, StackInv, Below
<1> QED
  BY <1>2, <1>3 DEF TypeInv, StackInv

LEMMA HeadReturnsKeeps == TypeInv /\ DigestInv /\ HeadReturns => TypeInv' /\ DigestInv'
<1> SUFFICES ASSUME TypeInv, DigestInv, HeadReturns PROVE TypeInv' /\ DigestInv'
  OBVIOUS
<1> DEFINE f == Top
           c == Below
           v == c.version
           t == Tail(Tail(stack))
           length == IF f.received < 0 THEN f.received ELSE f.parser.length
           anew == length < c.start
           d == IF anew THEN [c EXCEPT !.digest = <<>>, !.start = 0] ELSE c
           e == [d EXCEPT !.pc = "get"]
<1>1. /\ Len(stack) > 1 /\ f.fn = "returned" /\ c.fn = "command" /\ c.pc = "head"
      /\ UNCHANGED <<main, handler, outcome, faults>>
      /\ IF length = c.start THEN stack' = <<Compared(c)>> \o t /\ file' = file
         ELSE /\ file' = IF anew THEN [file EXCEPT ![v] = <<>>] ELSE file
              /\ stack' = <<Download, e>> \o t
  BY DEF HeadReturns, ReturnTo
<1>2. main = "yield" /\ stack # <<>>
  BY <1>1, ReturnedIs
<1>3. /\ Good(stack, handler.version, file) /\ handler.version \in Versions /\ handler.url \in Urls
      /\ Files(file) /\ IsExchange(f) /\ Fetches(f, c) /\ faults \in 0..MaxFaults
  BY <1>1, <1>2, Yielding DEF TypeInv
<1>4. IsStack(t) /\ Suspended(t) /\ Vouches(c, handler.version, file)
  BY <1>2, <1>3, FetchOff DEF Top, Below
<1> HIDE DEF f, t, length, anew, c
<1>5. IsCommand(c) /\ c.pending = <<>> /\ c.nested \in BOOLEAN /\ v \in Versions
  BY <1>1, <1>3 DEF Fetches, IsCommand, Early
<1>6. handler.version = v /\ (~c.nested => Digested(c, handler.version, file))
  BY <1>1, <1>4 DEF Vouches, Early
<1>7. CASE length = c.start
  <2>1. IsCommand(Compared(c)) /\ Compared(c).pc \notin Fetching /\ Vouches(Compared(c), handler.version, file)
    BY <1>1, <1>5, <1>6, ComparedIs DEF Early
  <2>2. Good(<<Compared(c)>> \o t, handler.version, file)
    BY <1>4, <2>1, CommandOn
  <2>3. Good(stack', handler.version, file') /\ Files(file') /\ faults' \in 0..MaxFaults
    BY <1>1, <1>3, <1>7, <2>2
  <2> QED
    BY <1>1, <1>2, <2>3, YieldsOn
<1>8. CASE length # c.start
  <2>1. /\ DOMAIN e = CommandFields /\ e.fn = "command" /\ e.pc = "get" /\ e.version = v
        /\ e.pending = <<>> /\ e.nested = c.nested
        /\ e.digest = IF anew THEN <<>> ELSE c.digest
    BY <1>1, <1>5 DEF IsCommand, CommandFields
  <2> HIDE DEF d, e, v
  <2>2. IsCommand(e)
    <3>1. c.digest \in Seq(Range(Firmware[v])) /\ <<>> \in Seq(Range(Firmware[v]))
      BY <1>1, <1>5 DEF IsCommand, Early, v
    <3> QED
      BY <1>5, <2>1, <3>1 DEF IsCommand, Fetching
  <2>3. Vouches(e, handler.version, file')
    <3>1. SUFFICES ASSUME ~e.nested PROVE Digested(e, handler.version, file')
      BY <2>1 DEF Vouches
    <3>2. c.digest = file[v] \o c.pending
      BY <1>6, <2>1, <3>1 DEF Digested, v
    <3>3. anew => file'[v] = <<>>
      BY <1>1, <1>3, <1>5, <1>8 DEF Files, v
    <3>4. ~anew => file' = file
      BY <1>1, <1>8
    <3>5. <<>> \o <<>> = <<>>
      OBVIOUS
    <3>6. e.digest = file'[v] \o e.pending
      BY <1>5, <2>1, <3>2, <3>3, <3>4, <3>5
    <3> QED
      BY <1>6, <2>1, <3>6 DEF Digested
  <2>4. Files(file')
    <3>1. \A S : <<>> \in Seq(S)
      OBVIOUS
    <3>2. file' = file \/ file' = [file EXCEPT ![v] = <<>>]
      BY <1>1, <1>8 DEF v
    <3> QED
      BY <1>3, <3>1, <3>2 DEF Files
  <2>5. IsExchange(Download) /\ Download.method = "GET" /\ Accounts(Download, e)
    <3> DEFINE method == "GET"
               u == handler.url
    <3>1. /\ method \in {"HEAD", "GET"} /\ e.version \in Versions /\ TRUE = (method = "GET")
          /\ Responded(handler.version) \o Firmware[handler.version] = Sent(method, e.version)
      BY <1>5, <1>6, <2>1 DEF Sent, Answer, v
    <3>2. Download = Perform(UrlRequest[method][u], method = "GET", Sent(method, e.version), OtaBufLen)
      BY <3>1 DEF Download
    <3>3. u \in Urls
      BY <1>3
    <3> HIDE DEF method, u
    <3>4. IsExchange(Download) /\ Download.method = method /\ Accounts(Download, e)
      BY <3>1, <3>2, <3>3, BeginsAccounts
    <3> QED
      BY <3>4 DEF method
  <2>6. Fetches(Download, e)
    BY <2>1, <2>2, <2>5 DEF Fetches
  <2>7. Good(<<Download, e>> \o t, handler.version, file')
    BY <1>4, <2>3, <2>6, FetchOn
  <2>8. Good(stack', handler.version, file') /\ faults' \in 0..MaxFaults
    BY <1>1, <1>3, <1>8, <2>7 DEF d, e, v
  <2> QED
    BY <1>1, <1>2, <2>4, <2>8, YieldsOn
<1> QED
  BY <1>7, <1>8

LEMMA GetReturnsKeeps == TypeInv /\ DigestInv /\ GetReturns => TypeInv' /\ DigestInv'
<1> SUFFICES ASSUME TypeInv, DigestInv, GetReturns PROVE TypeInv' /\ DigestInv'
  OBVIOUS
<1> DEFINE f == Top
           c == Below
           v == c.version
           t == Tail(Tail(stack))
           d == [c EXCEPT !.pending = <<>>]
           written == [file EXCEPT ![v] = file[v] \o c.pending]
<1>1. /\ Len(stack) > 1 /\ f.fn = "returned" /\ c.fn = "command" /\ c.pc = "get"
      /\ UNCHANGED <<main, handler, outcome, faults>>
      /\ file' = written /\ (stack' = <<Compared(d)>> \o t \/ stack' = t)
  BY DEF GetReturns, ReturnTo
<1>2. main = "yield" /\ stack # <<>>
  BY <1>1, ReturnedIs
<1>3. /\ Good(stack, handler.version, file) /\ Files(file) /\ IsExchange(f) /\ Fetches(f, c)
      /\ faults \in 0..MaxFaults
  BY <1>1, <1>2, Yielding DEF TypeInv
<1>4. IsStack(t) /\ Suspended(t) /\ Vouches(c, handler.version, file)
  BY <1>2, <1>3, FetchOff DEF Top, Below
<1> HIDE DEF f, t, c
<1>5. /\ IsCommand(c) /\ c.nested \in BOOLEAN /\ v \in Versions
      /\ c.pending \in Seq(Range(Firmware[v])) /\ c.digest \in Seq(Range(Firmware[v]))
  BY <1>1, <1>3 DEF Fetches, IsCommand, Early
<1>6. ~c.nested => Digested(c, handler.version, file)
  BY <1>1, <1>4 DEF Vouches, Early
<1>7. file[v] \in Seq(Range(Firmware[v])) /\ file[v] \o c.pending \in Seq(Range(Firmware[v]))
  BY <1>3, <1>5 DEF Files
<1>8. Files(written) /\ written[v] = file[v] \o c.pending
  BY <1>3, <1>5, <1>7 DEF Files
<1>9. /\ DOMAIN d = CommandFields /\ d.fn = "command" /\ d.pc = "get" /\ d.version = v
      /\ d.pending = <<>> /\ d.nested = c.nested /\ d.digest = c.digest
  BY <1>1, <1>5 DEF IsCommand, CommandFields
<1> HIDE DEF d, written
<1>10. IsCommand(d)
  <2>1. <<>> \in Seq(Range(Firmware[v]))
    OBVIOUS
  <2> QED
    BY <1>5, <1>9, <2>1 DEF IsCommand, Fetching
<1>11. ~d.nested => Digested(d, handler.version, written)
  <2>1. SUFFICES ASSUME ~d.nested PROVE Digested(d, handler.version, written)
    OBVIOUS
  <2>2. c.digest = file[v] \o c.pending /\ handler.version = v
    BY <1>6, <1>9, <2>1 DEF Digested
  <2>3. written[v] \o <<>> = written[v]
    BY <1>7, <1>8, NothingAfter
  <2> QED
    BY <1>8, <1>9, <2>2, <2>3 DEF Digested
<1>12. IsCommand(Compared(d)) /\ Compared(d).pc \notin Fetching /\ Vouches(Compared(d), handler.version, written)
  BY <1>9, <1>10, <1>11, ComparedIs DEF Early
<1>13. Good(<<Compared(d)>> \o t, handler.version, written)
  BY <1>4, <1>12, CommandOn
<1>14. Good(t, handler.version, written)
  BY <1>4, GoodBelow
<1>15. Good(stack', handler.version, file') /\ Files(file') /\ faults' \in 0..MaxFaults
  BY <1>1, <1>3, <1>8, <1>13, <1>14
<1> QED
  BY <1>1, <1>2, <1>15, YieldsOn

LEMMA SeqWithin ==
  ASSUME NEW S, NEW T, NEW s \in Seq(S), \A i \in 1..Len(s) : s[i] \in T
  PROVE  s \in Seq(T)
<1>1. Len(s) \in Nat /\ s \in [1..Len(s) -> S]
  OBVIOUS
<1>2. s \in [1..Len(s) -> T]
  BY <1>1
<1> QED
  BY <1>1, <1>2

\* The callback digests what it was given.
LEMMA CalledDigests ==
  ASSUME NEW f, NEW c, Fetches(f, c), f.fn = "perform", f.pc = "called",
         NEW e, e.version = c.version, e.digest = c.digest \o f.given
  PROVE  /\ f.given \in Seq(Range(Firmware[c.version]))
         /\ Accounts([f EXCEPT !.pc = "reporting"], e) /\ IsExchange([f EXCEPT !.pc = "reporting"])
         /\ Same(f, [f EXCEPT !.pc = "reporting"])
         /\ Accounts(CallbackReturns(f), e) /\ IsExchange(CallbackReturns(f)) /\ Same(f, CallbackReturns(f))
<1> DEFINE v == c.version
           given == f.given
           g == [f EXCEPT !.pc = "reporting"]
<1>1. /\ IsExchange(f) /\ Accounts(f, c) /\ v \in Versions /\ c.digest \in Seq(Range(Firmware[v]))
      /\ DOMAIN f = ExchangeFields /\ Holds(f, v) /\ f.pc \in Calling /\ f.method = "GET"
  BY FetchesIs DEF Calling, IsExchange
<1>2. PICK handed \in 0..Size0(v) :
        /\ Follow(f.wire, Len(f.wire), Firmware[v], handed)
        /\ f.received <= handed
        /\ f.parser.sound => f.parser.length = Size0(v)
        /\ ~f.later => handed <= OtaBufLen
        /\ Len(given) <= handed
        /\ Follow(given, Len(given), Firmware[v], handed - Len(given))
        /\ EndsWith(c.digest, handed - Len(given), v)
  BY <1>1 DEF Accounts, InBody
<1> HIDE DEF v
<1>3. given \in Seq(Tokens(v)) /\ Len(given) \in Nat
  BY <1>1 DEF Holds
<1> HIDE DEF given
<1>4. given \in Seq(Range(Firmware[v]))
  <2>1. Firmware[v] \in Seq(Range(Firmware[v])) /\ Size0(v) = Len(Firmware[v]) /\ Size0(v) \in Nat
    BY <1>1, FirmwareType
  <2>2. ASSUME NEW i \in 1..Len(given) PROVE given[i] \in Range(Firmware[v])
    <3> DEFINE at == handed - Len(given) + i
    <3>1. given[i] = Firmware[v][at]
      BY <1>2, <2>2 DEF Follow
    <3>2. at \in 1..Len(Firmware[v])
      BY <1>2, <1>3, <2>1
    <3>3. Firmware[v][at] \in Range(Firmware[v])
      BY <2>1, <3>2
    <3> QED
      BY <3>1, <3>3
  <2> QED
    BY <1>3, <2>2, SeqWithin
<1>5. EndsWith(c.digest \o given, handed, v)
  BY <1>1, <1>2, <1>4, DigestEnds
<1>6. e.version = v /\ EndsWith(e.digest, handed, v)
  BY <1>5 DEF v, given
<1>7. Handed(f, e, handed)
  BY <1>2, <1>6 DEF Handed
<1>8. Accounts(CallbackReturns(f), e)
  BY <1>1, <1>6, <1>7, CallbackReturnsAccounts
<1>9. /\ g.fn = "perform" /\ g.pc = "reporting" /\ g.received = f.received
      /\ g.method = f.method /\ g.buffer = f.buffer /\ g.wire = f.wire
      /\ g.whole = f.whole /\ g.parser = f.parser /\ g.left = f.left
      /\ g.connect = f.connect /\ g.given = f.given /\ g.secured = f.secured
      /\ g.expired = f.expired /\ g.later = f.later /\ g.disturbed = f.disturbed
      /\ g.link = f.link /\ DOMAIN g = ExchangeFields /\ g.net = f.net /\ g.callback = f.callback
  BY <1>1 DEF ExchangeFields
<1> HIDE DEF g
<1>10. Holds(g, v)
  BY <1>1, <1>9 DEF Holds, Calling
<1>11. InBody(g, e)
  BY <1>2, <1>6, <1>9 DEF InBody
<1>12. Accounts(g, e)
  BY <1>6, <1>9, <1>10, <1>11 DEF Accounts
<1>13. IsExchange(g) /\ Same(f, g)
  BY <1>1, <1>9 DEF IsExchange, Same, Asking, Performing, Calling
<1>14. IsExchange(CallbackReturns(f)) /\ Same(f, CallbackReturns(f))
  <2>1. IsExchange(f) /\ f.fn = "perform" /\ f.callback
    BY <1>1 DEF IsExchange
  <2> QED
    BY <2>1, CallbackReturnsSteps DEF Steps
<1> QED
  BY <1>4, <1>8, <1>12, <1>13, <1>14 DEF v, given, g

LEMMA CallbackKeeps == TypeInv /\ DigestInv /\ Callback => TypeInv' /\ DigestInv'
<1> SUFFICES ASSUME TypeInv, DigestInv, Callback PROVE TypeInv' /\ DigestInv'
  OBVIOUS
<1> DEFINE f == Top
           c == Below
           v == c.version
           t == Tail(Tail(stack))
           percent == IF Reports(f, Percent(f)) THEN Percent(f) ELSE c.percent
           d == [c EXCEPT !.digest = c.digest \o f.given, !.percent = percent]
           g == IF Reports(f, Percent(f)) THEN [f EXCEPT !.pc = "reporting"] ELSE CallbackReturns(f)
           written == c.pending \o f.given
           kept == [d EXCEPT !.pending = written]
           flushed == [d EXCEPT !.pending = <<>>]
<1>1. Performs /\ f.pc = "called" /\ UNCHANGED <<main, handler, outcome, faults>>
  BY DEF Callback
<1>2. stack # <<>> /\ f.fn = "perform"
  BY <1>1 DEF Performs
<1>3. IsExchange(f) /\ (main = "yield" => Fetches(f, c))
  BY <1>1, PerformsIs
<1>4. main = "yield"
  <2>1. f.method = "GET"
    BY <1>1, <1>3 DEF IsExchange, Calling
  <2> QED
    BY <1>2, <2>1, Pop DEF TypeInv, StackInv, Top
<1>5. Good(stack, handler.version, file) /\ Files(file) /\ Fetches(f, c) /\ faults \in 0..MaxFaults
  BY <1>2, <1>3, <1>4, Yielding DEF TypeInv
<1>6. IsStack(t) /\ Suspended(t) /\ Vouches(c, handler.version, file)
  BY <1>2, <1>3, <1>5, FetchOff DEF Top, Below
<1>7. \/ stack' = <<g, kept>> \o t /\ file' = file
      \/ stack' = <<g, flushed>> \o t /\ file' = [file EXCEPT ![d.version] = file[d.version] \o written]
  BY DEF Callback
<1> HIDE DEF f, c, t
<1>8. /\ IsCommand(c) /\ c.pc = "get" /\ c.nested \in BOOLEAN /\ v \in Versions /\ f.method = "GET"
      /\ c.pending \in Seq(Range(Firmware[v])) /\ c.digest \in Seq(Range(Firmware[v]))
      /\ file[v] \in Seq(Range(Firmware[v]))
  BY <1>1, <1>3, <1>5 DEF Fetches, IsCommand, Early, IsExchange, Calling, Files
<1>9. ~c.nested => Digested(c, handler.version, file)
  BY <1>6, <1>8 DEF Vouches, Early
<1>10. /\ DOMAIN d = CommandFields /\ d.fn = "command" /\ d.pc = "get" /\ d.version = v
       /\ d.digest = c.digest \o f.given /\ d.nested = c.nested
  BY <1>8 DEF IsCommand, CommandFields
<1>11. /\ DOMAIN kept = CommandFields /\ kept.fn = "command" /\ kept.pc = "get" /\ kept.version = v
       /\ kept.digest = c.digest \o f.given /\ kept.nested = c.nested /\ kept.pending = written
  BY <1>10 DEF CommandFields
<1>12. /\ DOMAIN flushed = CommandFields /\ flushed.fn = "command" /\ flushed.pc = "get" /\ flushed.version = v
       /\ flushed.digest = c.digest \o f.given /\ flushed.nested = c.nested /\ flushed.pending = <<>>
  BY <1>10 DEF CommandFields
<1> DEFINE new == [file EXCEPT ![v] = file[v] \o written]
<1>13. \/ stack' = <<g, kept>> \o t /\ file' = file
       \/ stack' = <<g, flushed>> \o t /\ file' = new
  BY <1>7, <1>10
<1> HIDE DEF d, kept, flushed
<1>14. f.given \in Seq(Range(Firmware[v]))
  BY <1>1, <1>2, <1>5, <1>8, <1>11, CalledDigests
<1>15. ASSUME NEW e, e.version = v, e.digest = c.digest \o f.given
       PROVE  Accounts(g, e) /\ IsExchange(g) /\ g.method = "GET"
  <2>1. /\ Accounts([f EXCEPT !.pc = "reporting"], e) /\ IsExchange([f EXCEPT !.pc = "reporting"])
        /\ Same(f, [f EXCEPT !.pc = "reporting"])
        /\ Accounts(CallbackReturns(f), e) /\ IsExchange(CallbackReturns(f)) /\ Same(f, CallbackReturns(f))
    BY <1>1, <1>2, <1>5, <1>15, CalledDigests
  <2>2. g = [f EXCEPT !.pc = "reporting"] \/ g = CallbackReturns(f)
    OBVIOUS
  <2> HIDE DEF g
  <2>3. Accounts(g, e) /\ IsExchange(g) /\ Same(f, g)
    BY <2>1, <2>2
  <2> QED
    BY <1>8, <2>3 DEF Same
<1> HIDE DEF g
<1>16. written \in Seq(Range(Firmware[v])) /\ c.digest \o f.given \in Seq(Range(Firmware[v]))
       /\ <<>> \in Seq(Range(Firmware[v])) /\ file[v] \o written \in Seq(Range(Firmware[v]))
       /\ (file[v] \o c.pending) \o f.given = file[v] \o written
       /\ (file[v] \o written) \o <<>> = file[v] \o written
  <2> DEFINE S == Seq(Range(Firmware[v]))
  <2>1. \A a, b \in S : a \o b \in S
    OBVIOUS
  <2>2. \A a, b, x \in S : (a \o b) \o x = a \o (b \o x)
    OBVIOUS
  <2>3. <<>> \in S /\ \A a \in S : a \o <<>> = a
    OBVIOUS
  <2>4. c.pending \in S /\ f.given \in S /\ c.digest \in S /\ file[v] \in S
    BY <1>8, <1>14
  <2> HIDE DEF S
  <2>5. written = c.pending \o f.given /\ written \in S
    BY <2>1, <2>4
  <2> HIDE DEF written
  <2>6. c.digest \o f.given \in S /\ file[v] \o written \in S /\ <<>> \in S
    BY <2>1, <2>3, <2>4, <2>5
  <2>7. (file[v] \o c.pending) \o f.given = file[v] \o written
    <3>1. (file[v] \o c.pending) \o f.given = file[v] \o (c.pending \o f.given)
      BY <2>2, <2>4
    <3> QED
      BY <2>5, <3>1
  <2>8. (file[v] \o written) \o <<>> = file[v] \o written
    BY <2>3, <2>6
  <2> QED
    BY <2>5, <2>6, <2>7, <2>8 DEF S
<1>17. Files(new) /\ new[v] = file[v] \o written
  BY <1>5, <1>8, <1>16 DEF Files
<1> HIDE DEF new, written
<1>18. Fetches(g, kept) /\ Fetches(g, flushed)
  <2>1. IsCommand(kept) /\ IsCommand(flushed)
    BY <1>8, <1>11, <1>12, <1>16 DEF IsCommand, Fetching
  <2> QED
    BY <1>11, <1>12, <1>15, <2>1 DEF Fetches
<1>19. Vouches(kept, handler.version, file) /\ Vouches(flushed, handler.version, new)
  <2>1. CASE c.nested
    BY <1>11, <1>12, <2>1 DEF Vouches
  <2>2. CASE ~c.nested
    <3>1. c.digest = file[v] \o c.pending /\ handler.version = v
      BY <1>9, <2>2 DEF Digested
    <3>2. Digested(kept, handler.version, file) /\ Digested(flushed, handler.version, new)
      BY <1>11, <1>12, <1>16, <1>17, <3>1 DEF Digested
    <3> QED
      BY <1>11, <1>12, <3>2 DEF Vouches
  <2> QED
    BY <1>8, <2>1, <2>2
<1>20. Good(<<g, kept>> \o t, handler.version, file) /\ Good(<<g, flushed>> \o t, handler.version, new)
  BY <1>6, <1>18, <1>19, FetchOn
<1>21. Good(stack', handler.version, file') /\ Files(file') /\ faults' \in 0..MaxFaults
  BY <1>1, <1>5, <1>13, <1>17, <1>20
<1> QED
  BY <1>1, <1>2, <1>4, <1>21, YieldsOn

LEMMA ProgressReportedKeeps == TypeInv /\ DigestInv /\ ProgressReported => TypeInv' /\ DigestInv'
<1> SUFFICES ASSUME TypeInv, DigestInv, ProgressReported PROVE TypeInv' /\ DigestInv'
  OBVIOUS
<1> DEFINE f == Top
           c == Below
           g == CallbackReturns(f)
<1>1. Performs /\ f.pc = "reporting" /\ UNCHANGED <<main, handler, file, outcome, faults>>
      /\ stack' = <<g>> \o Tail(stack)
  BY DEF ProgressReported, Step
<1>2. /\ IsExchange(f) /\ f.fn = "perform" /\ (main = "yield" => Fetches(f, c)) /\ faults' \in 0..MaxFaults
  BY <1>1, PerformsIs DEF TypeInv
<1> HIDE DEF f, c
<1>3. f.pc \in Calling /\ f.method = "GET" /\ f.callback
  BY <1>1, <1>2 DEF IsExchange, Calling
<1>4. Steps(f, g)
  BY <1>1, <1>2, <1>3, CallbackReturnsSteps
<1>5. ASSUME Fetches(f, c) PROVE Accounts(g, c)
  <2> DEFINE v == c.version
  <2>1. DOMAIN f = ExchangeFields /\ Holds(f, v) /\ v \in Versions /\ InBody(f, c)
    BY <1>3, <1>5, FetchesIs DEF Accounts
  <2>2. PICK handed \in 0..Size0(v) : Handed(f, c, handed)
    BY <1>1, <2>1 DEF InBody, Handed
  <2> HIDE DEF v
  <2>3. c.version = v
    BY DEF v
  <2> QED
    BY <1>2, <1>3, <2>1, <2>2, <2>3, CallbackReturnsAccounts
<1> HIDE DEF g
<1>6. Steps(Top, g) /\ (main = "yield" => Accounts(g, Below))
  BY <1>2, <1>4, <1>5 DEF f, c
<1> QED
  BY <1>1, <1>2, <1>6, ExchangeStep

LEMMA SuffixIs ==
  ASSUME NEW v \in Versions, NEW digest \in Seq(Range(Firmware[v])), EndsWith(digest, Size0(v), v)
  PROVE  IsSuffix(Firmware[v], digest)
<1> DEFINE firmware == Firmware[v]
           S == Range(firmware)
           n == Len(firmware)
           m == Len(digest)
<1>1. firmware \in Seq(S) /\ n = Size0(v) /\ n \in Nat /\ m \in Nat
  BY FirmwareType
<1>2. n <= m /\ \A i \in 1..n : digest[m - n + i] = firmware[i]
  BY <1>1 DEF EndsWith
<1> HIDE DEF firmware, S
<1> DEFINE a == Reverse(firmware)
           b == Reverse(digest)
<1>3. /\ a \in Seq(S) /\ Len(a) = n
      /\ \A i \in 1..n : a[i] = firmware[n - i + 1]
  BY <1>1 DEF Reverse
<1>4. digest \in Seq(S)
  BY DEF S, firmware
<1>5. /\ b \in Seq(S) /\ Len(b) = m
      /\ \A i \in 1..m : b[i] = digest[m - i + 1]
  BY <1>1, <1>4 DEF Reverse
<1> HIDE DEF a, b
<1>6. ASSUME NEW i \in 1..n PROVE a[i] = b[i]
  <2> DEFINE j == n - i + 1
  <2>1. j \in 1..n /\ m - n + j = m - i + 1 /\ i \in 1..m
    BY <1>1, <1>2
  <2>2. digest[m - n + j] = firmware[j]
    BY <1>2, <2>1
  <2> QED
    BY <1>3, <1>5, <2>1, <2>2
<1>7. 1 \in 1..(n + 1) /\ n \in (1 - 1)..n /\ 1 \in 1..(m + 1) /\ n \in (1 - 1)..m /\ n - 1 + 1 = n
  BY <1>1, <1>2
<1>8. /\ Piece(a, n) \in Seq(S) /\ Len(Piece(a, n)) = n
      /\ \A i \in 1..n : Piece(a, n)[i] = a[1 + i - 1]
  BY <1>3, <1>7, PartType DEF Piece
<1>9. /\ Piece(b, n) \in Seq(S) /\ Len(Piece(b, n)) = n
      /\ \A i \in 1..n : Piece(b, n)[i] = b[1 + i - 1]
  BY <1>5, <1>7, PartType DEF Piece
<1>10. Piece(a, n) = Piece(b, n)
  <2>1. ASSUME NEW i \in 1..n PROVE Piece(a, n)[i] = Piece(b, n)[i]
    <3>1. 1 + i - 1 = i
      OBVIOUS
    <3> QED
      BY <1>6, <1>8, <1>9, <3>1
  <2> HIDE DEF n
  <2> QED
    BY <1>8, <1>9, <2>1
<1>11. IsPrefix(a, b)
  BY <1>2, <1>3, <1>5, <1>10 DEF IsPrefix, Piece
<1> QED
  BY <1>11 DEF IsSuffix, a, b, firmware

-----------------------------------------------------------------------------
(* The theorems.                                                           *)

LEMMA InitInv == Init => TypeInv /\ DigestInv
<1> SUFFICES ASSUME Init PROVE TypeInv /\ DigestInv
  OBVIOUS
<1>1. IsStack(stack) /\ Len(stack) = 0
  BY NoFrames DEF Init
<1>2. StackInv /\ DigestInv
  BY <1>1 DEF Init, StackInv, DigestInv, Vouched
<1>3. HandlerInv
  BY DEF Init, HandlerInv, NoCommand
<1>4. FileInv
  <2>1. \A S : <<>> \in Seq(S)
    OBVIOUS
  <2> QED
    BY <2>1 DEF Init, FileInv
<1>5. outcome \in [Versions -> {"none", "upgrading", "refused"}] /\ faults \in 0..MaxFaults
  BY OtaAssumption DEF Init
<1> QED
  BY <1>2, <1>3, <1>4, <1>5 DEF TypeInv

LEMMA NextInv == TypeInv /\ DigestInv /\ [Next]_vars => TypeInv' /\ DigestInv'
<1> SUFFICES ASSUME TypeInv, DigestInv, [Next]_vars PROVE TypeInv' /\ DigestInv'
  OBVIOUS
<1>1. CASE Progress
  BY <1>1, ConnectKeeps, WriteKeeps, ReadKeeps, StartKeeps, TokenReturnsKeeps, ReportReturnsKeeps,
     OpenKeeps, HeadReturnsKeeps, CallbackKeeps, ProgressReportedKeeps, GetReturnsKeeps DEF Progress
<1>2. CASE Receive \/ Expire \/ Break \/ Crash
  BY <1>2, ReceiveKeeps, ExpireKeeps, BreakKeeps, CrashKeeps
<1>3. CASE UNCHANGED vars
  BY <1>3 DEF vars, TypeInv, DigestInv, StackInv, HandlerInv, FileInv
<1> QED
  BY <1>1, <1>2, <1>3 DEF Next

\* The inductive invariant: what the calls in progress are, and what each exchange accounts for
\* (do_read, tc_iot_http_parser_analysis, my_http_download_callback).
THEOREM Invariant == Spec => [](TypeInv /\ DigestInv)
  BY InitInv, NextInv, PTL DEF Spec

\* What an exchange of a command owes when it returned (tc_iot_http_client_internal_perform).
LEMMA ReturnedOwes ==
  ASSUME TypeInv, DigestInv, main = "yield", stack # <<>>, Top.fn = "returned"
  PROVE  /\ Owes(Top, Below) /\ Top.method \in {"HEAD", "GET"}
         /\ Top.method = "GET" =>
              Below.digest \in Seq(Range(Firmware[Below.version])) /\ Below.version \in Versions
<1>1. Fetches(Top, Below)
  BY Yielding
<1> QED
  BY <1>1, FetchesIs DEF Accounts

\* The state of the program has its type: run_mqtt is where it may be, the last command is one
\* the server may send, and the files hold tokens of their firmware (fwrite in my_http_download_callback).
THEOREM TypeCorrect == Spec => []TypeOK
<1>1. TypeInv => TypeOK
  <2> SUFFICES ASSUME TypeInv PROVE TypeOK
    OBVIOUS
  <2>1. ASSUME NEW v \in Versions, NEW i \in DOMAIN file[v] PROVE file[v][i] \in Range(Firmware[v])
    <3>1. file[v] \in Seq(Range(Firmware[v]))
      BY DEF TypeInv, FileInv
    <3> QED
      BY <3>1
  <2> QED
    BY <2>1 DEF TypeInv, StackInv, HandlerInv, FileInv, TypeOK
<1> QED
  BY <1>1, Invariant, PTL

\* An exchange that got through gives its connection back, unless it asked for a length only
\* (do_disconnect in tc_iot_http_client_internal_perform).
THEOREM ConnectionsGivenBack == Spec => []ConnectionsReleased
<1>1. TypeInv /\ DigestInv => ConnectionsReleased
  <2> SUFFICES ASSUME TypeInv, DigestInv, stack # <<>>, Top.fn = "returned",
                      Top.received # SEND_PACK_FAILED, Top.method # "HEAD"
               PROVE  Released(Top.net)
    BY DEF ConnectionsReleased
  <2>1. main = "yield" => IsExchange(Top)
    BY Yielding
  <2>2. main # "yield" => IsExchange(Top)
    BY Pop DEF TypeInv, StackInv, Top
  <2> QED
    BY <2>1, <2>2 DEF IsExchange
<1> QED
  BY <1>1, Invariant, PTL

\* What a successful exchange of a command hands over is the length of the firmware, or the
\* whole firmware, however the response was cut (tc_iot_http_client_internal_perform and
\* my_http_download_callback).
THEOREM DownloadsAreRight == Spec => [](main = "yield" => BodyIsRight)
<1>1. TypeInv /\ DigestInv => (main = "yield" => BodyIsRight)
  <2> SUFFICES ASSUME TypeInv, DigestInv, main = "yield", stack # <<>>, Top.fn = "returned",
                      Top.received >= 0, Top.parser.sound, ~Top.expired, ~(Top.secured /\ Top.disturbed)
               PROVE  CASE Top.method = "POST" -> IsPrefix(TokenBody, Top.buffer)
                        [] Top.method = "HEAD" -> Top.parser.length = Len(Firmware[Below.version])
                        [] Top.method = "GET" -> IsSuffix(Firmware[Below.version], Below.digest)
    BY DEF BodyIsRight
  <2> DEFINE v == Below.version
             digest == Below.digest
  <2>1. /\ Owes(Top, Below) /\ Top.method \in {"HEAD", "GET"}
        /\ Top.method = "GET" => digest \in Seq(Range(Firmware[v])) /\ v \in Versions
    BY ReturnedOwes
  <2>2. IF Top.method = "HEAD" THEN Top.parser.length = Size0(v) ELSE EndsWith(digest, Size0(v), v)
    BY <2>1 DEF Owes, Fine
  <2>3. CASE Top.method = "HEAD"
    BY <2>2, <2>3 DEF Size0
  <2>4. CASE Top.method = "GET"
    <3> HIDE DEF v, digest
    <3>1. v \in Versions /\ digest \in Seq(Range(Firmware[v])) /\ EndsWith(digest, Size0(v), v)
      BY <2>1, <2>2, <2>4
    <3>2. IsSuffix(Firmware[v], digest)
      BY <3>1, SuffixIs
    <3> QED
      BY <2>4, <3>2 DEF v, digest
  <2> QED
    BY <2>1, <2>3, <2>4
<1> QED
  BY <1>1, Invariant, PTL

\* A download that nothing disturbed succeeds, wherever its response was cut
\* (tc_iot_http_client_internal_perform).
THEOREM DownloadsSucceed == Spec => [](main = "yield" => UndisturbedSucceeds)
<1>1. TypeInv /\ DigestInv => (main = "yield" => UndisturbedSucceeds)
  <2> SUFFICES ASSUME TypeInv, DigestInv, main = "yield", stack # <<>>, Top.fn = "returned",
                      Top.parser.sound, ~Top.disturbed, ~Top.expired, Harmless(Top)
               PROVE  Top.received >= 0 /\ (Top.method = "GET" => Top.received = TC_IOT_SUCCESS)
    BY DEF UndisturbedSucceeds
  <2>1. Owes(Top, Below)
    BY ReturnedOwes
  <2>2. Fine(Top) /\ Quiet(Top)
    BY DEF Fine, Quiet, Harmless
  <2> QED
    BY <2>1, <2>2 DEF Owes
<1> QED
  BY <1>1, Invariant, PTL

\* When a command reports the upgrade its file is the firmware of that command, unless another
\* command was processed within it (do_download and my_http_download_callback).
THEOREM UpgradesAreFirmware == Spec => []UpgradedIsFirmware
<1>1. TypeInv /\ DigestInv => UpgradedIsFirmware
  <2> SUFFICES ASSUME TypeInv, DigestInv, stack # <<>>, Top.fn = "command", Top.pc = "upgrading", ~Top.nested
               PROVE  handler.version = Top.version /\ file[Top.version] = Firmware[Top.version]
    BY DEF UpgradedIsFirmware
  <2> DEFINE v == Top.version
  <2>1. main = "yield"
    BY Pop DEF TypeInv, StackInv, Top, IsExchange
  <2>2. Good(stack, handler.version, file) /\ IsCommand(Top) /\ Files(file)
    BY <2>1, Yielding
  <2>3. Vouches(Top, handler.version, file)
    BY <2>2, CommandOff DEF Top
  <2>4. handler.version = v /\ Firmware[v] = file[v] \o Top.pending
    BY <2>3 DEF Vouches, Early, Digested
  <2>5. Top.pending = <<>> /\ v \in Versions
    BY <2>2 DEF IsCommand, Early
  <2>6. file[v] \o <<>> = file[v]
    BY <2>2, <2>5, NothingAfter DEF Files
  <2> QED
    BY <2>4, <2>5, <2>6
<1> QED
  BY <1>1, Invariant, PTL

-----------------------------------------------------------------------------
(* Requests.                                                               *)

\* What an exchange that still has its request asks for.
Asks(f, url) ==
  \/ \E d \in Devices : \E s \in BOOLEAN : f.request = TokenRequest[d][s] /\ f.method = "POST"
  \/ /\ f.method \in {"HEAD", "GET"} /\ url \in Urls
     /\ f.request = UrlRequest[f.method][url] /\ f.secured = f.request.secured

RequestInv == stack # <<>> /\ Top.fn = "perform" /\ Top.pc \in Asking => Asks(Top, handler.url)

LEMMA RequestReaches ==
  ASSUME RequestsFit, RequestInv
  PROVE  RequestIsRight
<1> DEFINE asked == ServerReads(Top.request.text)
           Right(a) ==
             /\ a.whole /\ a.method = Top.method
             /\ CASE Top.method = "POST" -> Decoded(a.body) = FormOf(Top.request.device)
                  [] OTHER -> /\ a.path = handler.url.path /\ a.host = handler.url.host
                              /\ Top.request.port = PortOf(handler.url) /\ Top.secured = handler.url.secured
<1>1. SUFFICES ASSUME Performs, Top.pc \in Asking PROVE Right(asked)
  BY DEF RequestIsRight, Asking
<1>2. Asks(Top, handler.url)
  BY <1>1 DEF RequestInv, Performs
<1>3. ASSUME NEW d \in Devices, NEW s \in BOOLEAN, Top.request = TokenRequest[d][s], Top.method = "POST"
      PROVE  Right(asked)
  <2>1. asked.whole /\ asked.method = "POST" /\ Decoded(asked.body) = FormOf(d) /\ Top.request.device = d
    BY <1>3, TokenReads
  <2> HIDE DEF asked
  <2> QED
    BY <1>3, <2>1
<1>4. ASSUME Top.method \in {"HEAD", "GET"}, handler.url \in Urls, Top.request = UrlRequest[Top.method][handler.url],
             Top.secured = Top.request.secured
      PROVE  Right(asked)
  <2>1. /\ asked.whole /\ asked.method = Top.method
        /\ asked.path = handler.url.path /\ asked.host = handler.url.host
        /\ Top.request.port = PortOf(handler.url) /\ Top.secured = handler.url.secured
    BY <1>4, UrlReads
  <2> HIDE DEF asked
  <2> QED
    BY <1>4, <2>1
<1> HIDE DEF Right
<1> QED
  BY <1>2, <1>3, <1>4 DEF Asks

-----------------------------------------------------------------------------
LEMMA PerformAsks ==
  ASSUME NEW request, NEW callback, NEW response, NEW size
  PROVE  /\ Perform(request, callback, response, size).request = request
         /\ Perform(request, callback, response, size).method = request.method
         /\ Perform(request, callback, response, size).secured = request.secured
  BY DEF Perform

LEMMA UrlAsks ==
  ASSUME NEW method \in {"HEAD", "GET"}, NEW url \in Urls, NEW callback, NEW response, NEW size
  PROVE  Asks(Perform(UrlRequest[method][url], callback, response, size), url)
<1>1. PICK request : request = UrlRequest[method][url]
  OBVIOUS
<1>2. PICK f : f = Perform(request, callback, response, size)
  OBVIOUS
<1>3. f.request = request /\ f.method = request.method /\ f.secured = request.secured
  BY <1>2, PerformAsks
<1>4. request.method = method
  BY <1>1, UrlRequestIs
<1> QED
  BY <1>1, <1>2, <1>3, <1>4 DEF Asks

\* The frame on top of others.
LEMMA TopIs ==
  ASSUME NEW f, NEW c, NEW t, IsStack(t)
  PROVE  Head(<<f>> \o t) = f /\ Head(<<f, c>> \o t) = f
<1>1. IsStack(<<f>> \o t) /\ <<f>> \o t # <<>> /\ (<<f>> \o t)[1] = f
  BY Push
<1>2. IsStack(<<f, c>> \o t) /\ <<f, c>> \o t # <<>> /\ (<<f, c>> \o t)[1] = f
  BY Push2
<1> QED
  BY <1>1, <1>2, Pop

\* A step of an exchange keeps its request until it is written.
LEMMA StepAsks ==
  ASSUME RequestInv, Performs, IsStack(stack), NEW g, Steps(Top, g), stack' = <<g>> \o Tail(stack), UNCHANGED handler
  PROVE  RequestInv'
<1>1. stack # <<>> /\ Top.fn = "perform"
  BY DEF Performs
<1>2. Head(<<g>> \o Tail(stack)) = g
  BY <1>1, Pop, TopIs
<1>3. Top' = g
  BY <1>2 DEF Top
<1>4. SUFFICES ASSUME g.pc \in Asking PROVE Asks(g, handler.url)
  BY <1>3 DEF RequestInv
<1>5. g.request = Top.request /\ g.method = Top.method /\ g.secured = Top.secured /\ Top.pc \in Asking
  BY <1>4 DEF Steps, Same
<1>6. Asks(Top, handler.url)
  BY <1>1, <1>5 DEF RequestInv
<1> QED
  BY <1>5, <1>6 DEF Asks

-----------------------------------------------------------------------------
(* Each action keeps it.                                                   *)

LEMMA WireAsks ==
  ASSUME TypeInv, DigestInv, RequestInv, Connect \/ Write \/ Expire \/ Break \/ Read \/ ProgressReported
  PROVE  RequestInv'
<1>1. Performs /\ UNCHANGED handler /\ IsStack(stack)
  BY DEF Connect, Write, Expire, Break, Read, ProgressReported, TypeInv, StackInv
<1>2. IsExchange(Top) /\ Top.fn = "perform"
  BY <1>1, PerformsIs
<1>3. SUFFICES \E g : Steps(Top, g) /\ stack' = <<g>> \o Tail(stack)
  BY <1>1, StepAsks
<1>4. CASE Connect
  <2>1. Top.pc = "connect" /\ \E c \in Connects(Top.net) : stack' = <<Connected(Top, c)>> \o Tail(stack)
    BY <1>4 DEF Connect, Step
  <2> QED
    BY <1>2, <2>1, WireSteps DEF Goes
<1>5. CASE Write
  <2>1. \E net \in Writes(Top.net) : stack' = <<Written(Top, net)>> \o Tail(stack)
    BY <1>5 DEF Write, Step
  <2> QED
    BY <1>2, <2>1, WireSteps
<1>6. CASE Expire
  <2>1. stack' = <<[Top EXCEPT !.expired = TRUE]>> \o Tail(stack)
    BY <1>6 DEF Expire, Step
  <2> QED
    BY <1>2, <2>1, WireSteps DEF Goes
<1>7. CASE Break
  <2>1. \E l, k : stack' = <<Broken(Top, l, k)>> \o Tail(stack)
    BY <1>7 DEF Break, Step
  <2> QED
    BY <1>2, <2>1, WireSteps DEF Goes
<1>8. CASE Read
  <2> DEFINE early == faults < MaxFaults
  <2>1. Reading(Top) /\ \E g \in AfterRead(Top, early) : stack' = <<g>> \o Tail(stack)
    BY <1>8 DEF Read, Step
  <2>2. early \in BOOLEAN
    OBVIOUS
  <2> HIDE DEF early
  <2> QED
    BY <1>2, <2>1, <2>2, ReadSteps
<1>9. CASE ProgressReported
  <2>1. Top.pc = "reporting" /\ stack' = <<CallbackReturns(Top)>> \o Tail(stack)
    BY <1>9 DEF ProgressReported, Step
  <2>2. Top.callback
    BY <1>2, <2>1 DEF IsExchange, Calling
  <2> QED
    BY <1>2, <2>1, <2>2, CallbackReturnsSteps
<1> QED
  BY <1>4, <1>5, <1>6, <1>7, <1>8, <1>9

\* The frame on top after a step.
LEMMA AskedBy ==
  ASSUME NEW f, NEW s, NEW t, IsStack(t), stack' = <<f>> \o t \/ stack' = <<f, s>> \o t,
         f.fn = "perform" /\ f.pc \in Asking => Asks(f, handler.url')
  PROVE  RequestInv'
<1>1. Head(<<f>> \o t) = f /\ Head(<<f, s>> \o t) = f
  BY TopIs
<1>2. Top' = f
  BY <1>1 DEF Top
<1> QED
  BY <1>2 DEF RequestInv

\* What waits for a report has written its request.
LEMMA SuspendedAsks ==
  ASSUME NEW t, IsStack(t), Suspended(t), stack' = t
  PROVE  RequestInv'
<1>1. Top' = Head(t)
  BY DEF Top
<1>2. SUFFICES ASSUME t # <<>>, Head(t).fn = "perform", Head(t).pc \in Asking PROVE FALSE
  BY <1>1 DEF RequestInv
<1>3. Head(t) = t[1] /\ Len(t) >= 1 /\ 1 \in 1..Len(t)
  BY <1>2, Pop
<1>4. IsExchange(t[1])
  BY <1>2, <1>3 DEF Suspended, Calls, IsCommand
<1>5. t[1].pc = "reporting"
  BY <1>3, <1>4 DEF Suspended
<1> QED
  BY <1>2, <1>3, <1>5 DEF Asking

LEMMA StartAsks == ASSUME Start PROVE RequestInv'
<1>1. PICK response \in GoodResponses \cup BadResponses, s \in Schemes, d \in Devices :
        stack' = <<Perform(TokenRequest[d][s], FALSE, response, TokenBufLen), [fn |-> "token"]>>
  BY DEF Start
<1>2. PICK request, token : request = TokenRequest[d][s] /\ token = [fn |-> "token"]
  OBVIOUS
<1>3. PICK f, callback : callback = FALSE /\ f = Perform(request, callback, response, TokenBufLen)
  OBVIOUS
<1>4. stack' = <<f, token>>
  BY <1>1, <1>2, <1>3, Zenon
<1>5. f.request = request /\ f.method = request.method
  BY <1>3, PerformAsks
<1>6. s \in BOOLEAN
  BY OtaAssumption
<1>7. request.method = "POST"
  BY <1>2, <1>6, TokenRequestIs
<1>8. Asks(f, handler.url')
  BY <1>2, <1>5, <1>6, <1>7, Zenon DEF Asks
<1>9. Top' = f
  <2>1. IsStack(<<f, token>>) /\ Len(<<f, token>>) = 2 /\ <<f, token>>[1] = f
    BY TwoFrames
  <2>2. Head(<<f, token>>) = f
    BY <2>1, Pop
  <2> QED
    BY <1>4, <2>2 DEF Top
<1> QED
  BY <1>8, <1>9 DEF RequestInv

LEMMA EndAsks == ASSUME TokenReturns \/ Crash PROVE RequestInv'
  BY DEF TokenReturns, Crash, RequestInv

LEMMA ReceiveAsks == ASSUME TypeInv, DigestInv, Receive PROVE RequestInv'
<1> DEFINE t == Interrupted(stack)
<1>1. stack' = <<Command>> \o t /\ main = "yield"
  BY DEF Receive, Interrupted, Marked
<1>2. IsStack(stack) /\ Calls(stack)
  BY <1>1 DEF TypeInv, StackInv
<1>3. Len(stack) >= 1 /\ IsExchange(stack[1]) => stack[1].pc = "reporting"
  <2>1. SUFFICES ASSUME Len(stack) >= 1, IsExchange(stack[1]) PROVE stack[1].pc = "reporting"
    OBVIOUS
  <2>2. stack # <<>> /\ Top = stack[1]
    BY <1>2, <2>1, Pop DEF Top
  <2>3. Reporting(Top)
    BY <2>2 DEF Receive
  <2> QED
    BY <2>1, <2>2, <2>3 DEF Reporting, IsExchange
<1>4. IsStack(t)
  BY <1>2, <1>3, InterruptedWaits
<1>5. Command.fn # "perform"
  BY DEF Command
<1> HIDE DEF t
<1> QED
  BY <1>1, <1>4, <1>5, AskedBy

LEMMA ReportReturnsAsks == ASSUME TypeInv, DigestInv, ReportReturns PROVE RequestInv'
<1> DEFINE t == Tail(stack)
<1>1. stack # <<>> /\ Top.fn = "command" /\ UNCHANGED handler
  BY DEF ReportReturns
<1>2. main = "yield"
  BY <1>1, Pop DEF TypeInv, StackInv, Top, IsExchange
<1>3. Good(stack, handler.version, file) /\ IsCommand(Top)
  BY <1>1, <1>2, Yielding
<1>4. IsStack(t) /\ Suspended(t)
  BY <1>1, <1>3, CommandOff DEF Top
<1>5. PICK c : c = [Top EXCEPT !.pc = Follows(Top)]
  OBVIOUS
<1>6. c.fn = "command"
  BY <1>1, <1>3, <1>5 DEF IsCommand, CommandFields
<1>7. stack' = t \/ stack' = <<c>> \o t
  BY <1>5 DEF ReportReturns, Step
<1> HIDE DEF t
<1> QED
  BY <1>4, <1>6, <1>7, AskedBy, SuspendedAsks

LEMMA OpenAsks == ASSUME TypeInv, DigestInv, Open PROVE RequestInv'
<1> DEFINE t == Tail(stack)
           f == Perform(UrlRequest["HEAD"][handler.url], FALSE, Responded(handler.version), OtaBufLen)
<1>1. stack # <<>> /\ Top.fn = "command" /\ UNCHANGED handler /\ \E c : stack' = <<f, c>> \o t
  BY DEF Open, Call
<1>2. main = "yield"
  BY <1>1, Pop DEF TypeInv, StackInv, Top, IsExchange
<1>3. Good(stack, handler.version, file) /\ IsCommand(Top) /\ handler.url \in Urls
  BY <1>1, <1>2, Yielding
<1>4. IsStack(t)
  BY <1>1, <1>3, CommandOff DEF Top
<1>5. Asks(f, handler.url)
  BY <1>3, UrlAsks
<1> HIDE DEF f, t
<1> QED
  BY <1>1, <1>4, <1>5, AskedBy

LEMMA HeadReturnsAsks == ASSUME TypeInv, DigestInv, HeadReturns PROVE RequestInv'
<1> DEFINE t == Tail(Tail(stack))
<1>1. /\ Len(stack) > 1 /\ Top.fn = "returned" /\ Below.fn = "command" /\ UNCHANGED handler
      /\ stack' = <<Compared(Below)>> \o t \/ \E c : stack' = <<Download, c>> \o t
  BY DEF HeadReturns, ReturnTo
<1>2. main = "yield" /\ stack # <<>>
  BY <1>1, ReturnedIs
<1>3. Good(stack, handler.version, file) /\ handler.url \in Urls /\ IsExchange(Top) /\ Fetches(Top, Below)
  BY <1>1, <1>2, Yielding
<1>4. IsStack(t)
  BY <1>2, <1>3, FetchOff DEF Top
<1>5. Asks(Download, handler.url)
  BY <1>3, UrlAsks DEF Download
<1>6. Compared(Below).fn = "command"
  BY <1>3 DEF Compared, Fetches, IsCommand, CommandFields
<1> HIDE DEF t
<1> QED
  BY <1>1, <1>4, <1>5, <1>6, AskedBy

LEMMA GetReturnsAsks == ASSUME TypeInv, DigestInv, GetReturns PROVE RequestInv'
<1> DEFINE t == Tail(Tail(stack))
<1>1. PICK d : d = [Below EXCEPT !.pending = <<>>]
  OBVIOUS
<1>2. /\ Len(stack) > 1 /\ Top.fn = "returned" /\ Below.fn = "command"
      /\ stack' = <<Compared(d)>> \o t \/ stack' = t
  BY <1>1 DEF GetReturns, ReturnTo
<1>3. main = "yield" /\ stack # <<>>
  BY <1>2, ReturnedIs
<1>4. Good(stack, handler.version, file) /\ IsExchange(Top) /\ Fetches(Top, Below)
  BY <1>2, <1>3, Yielding
<1>5. IsStack(t) /\ Suspended(t)
  BY <1>3, <1>4, FetchOff DEF Top
<1>6. DOMAIN d = CommandFields /\ d.fn = "command"
  BY <1>1, <1>4 DEF Fetches, IsCommand, CommandFields
<1>7. Compared(d).fn = "command"
  BY <1>6 DEF Compared, CommandFields
<1> HIDE DEF t
<1> QED
  BY <1>2, <1>5, <1>7, AskedBy, SuspendedAsks

LEMMA CallbackAsks == ASSUME TypeInv, DigestInv, Callback PROVE RequestInv'
<1> DEFINE t == Tail(Tail(stack))
<1>1. PICK g : /\ g = [Top EXCEPT !.pc = "reporting"] \/ g = CallbackReturns(Top)
               /\ \E c : stack' = <<g, c>> \o t
  BY DEF Callback
<1>2. Performs /\ Top.pc = "called" /\ stack # <<>> /\ Top.fn = "perform"
  BY DEF Callback, Performs
<1>3. IsExchange(Top) /\ Top.method = "GET"
  BY <1>2, PerformsIs DEF IsExchange, Calling
<1>4. main = "yield"
  BY <1>2, <1>3, Pop DEF TypeInv, StackInv, Top
<1>5. Good(stack, handler.version, file)
  BY <1>2, <1>4, Yielding
<1>6. IsStack(t)
  BY <1>2, <1>3, <1>5, FetchOff DEF Top
<1>7. g.pc \notin Asking
  <2>1. CASE g = [Top EXCEPT !.pc = "reporting"]
    BY <1>3, <2>1 DEF IsExchange, ExchangeFields, Asking
  <2>2. CASE g = CallbackReturns(Top)
    <3>1. Same(Top, g)
      BY <1>2, <1>3, <2>2, CallbackReturnsSteps DEF Steps, IsExchange
    <3> QED
      BY <1>2, <3>1 DEF Same, Asking
  <2> QED
    BY <1>1, <2>1, <2>2
<1> HIDE DEF t
<1> QED
  BY <1>1, <1>6, <1>7, AskedBy

LEMMA NextAsks == TypeInv /\ DigestInv /\ RequestInv /\ [Next]_vars => RequestInv'
<1> SUFFICES ASSUME TypeInv, DigestInv, RequestInv, [Next]_vars PROVE RequestInv'
  OBVIOUS
<1>1. CASE Progress
  BY <1>1, WireAsks, StartAsks, EndAsks, ReportReturnsAsks, OpenAsks, HeadReturnsAsks, CallbackAsks,
     GetReturnsAsks DEF Progress
<1>2. CASE Receive \/ Expire \/ Break \/ Crash
  BY <1>2, WireAsks, ReceiveAsks, EndAsks
<1>3. CASE UNCHANGED vars
  BY <1>3 DEF vars, RequestInv, Top
<1> QED
  BY <1>1, <1>2, <1>3 DEF Next

\* The servers read what the device means to ask: the form, with a signature that verifies, and
\* the path of the url from its host, where the buffers are large enough for them
\* (tc_iot_create_auth_device_form, tc_iot_http_request_n, tc_iot_url_parse).
THEOREM RequestsAreRight == ASSUME RequestsFit PROVE Spec => []RequestIsRight
<1>1. Init => RequestInv
  BY DEF Init, RequestInv
<1>2. RequestInv => RequestIsRight
  BY RequestReaches
<1>3. Spec => []RequestInv
  BY <1>1, NextAsks, Invariant, PTL DEF Spec
<1> QED
  BY <1>2, <1>3, PTL
=============================================================================
