------------------------------ MODULE HttpRequest ------------------------------
(***************************************************************************)
(* What the exchanges of HttpClient ask for: the url taken apart by        *)
(* src/common/tc_iot_url.c, the form of src/common/tc_iot_http_utils.c in  *)
(* the buffer of tc_iot_ya_buffer.c with the signature of                  *)
(* tc_iot_sign_utils.c, and the request tc_iot_http_client_format_buffer   *)
(* makes of them.                                                          *)
(*                                                                         *)
(* A text is a sequence of characters; a part of it that is always the     *)
(* same, or a number, is one of them.  A digest is the text it is of.      *)
(***************************************************************************)
EXTENDS HttpClient

CONSTANTS
  Urls,             \* urls of a firmware, as records [secured, host, port, path]
  Devices,          \* what a device is known by: [secret, client_id, device_name, product_id]
  FormLen,          \* TC_IOT_HTTP_TOKEN_REQUEST_FORM_LEN, in characters of a form
  RequestLen        \* the buffer of a request, in characters of a request

-----------------------------------------------------------------------------
(* tc_iot_yabuffer_t and tc_iot_url_encode, which may write two characters *)
(* more than it was given room for.                                        *)

Opened(len) == [data |-> [i \in 1..(len + 2) |-> "?"], pos |-> 0, len |-> len]
Left(b) == b.len - b.pos
Forward(b, n) == IF b.len < b.pos + n THEN b ELSE [b EXCEPT !.pos = @ + n]
Appended(b, text) ==
  IF Left(b) < Len(text) THEN b ELSE Forward([b EXCEPT !.data = Put(@, b.pos, text)], Len(text))

Escapes == [c \in {"%", "&", "+", "/", "=", "~"} |->
  CASE c = "%" -> <<"%", "2", "5">> [] c = "&" -> <<"%", "2", "6">> [] c = "+" -> <<"%", "2", "B">>
    [] c = "/" -> <<"%", "2", "F">> [] c = "=" -> <<"%", "3", "D">> [] c = "~" -> <<"%", "7", "E">>]

\* Mutant: a `+' is not escaped.
EncodedButPlus(c) == IF c \in DOMAIN Escapes \ {"+"} THEN Escapes[c] ELSE IF c = " " THEN <<"+">> ELSE <<c>>

Encoded(c) == IF c \in DOMAIN Escapes THEN Escapes[c] ELSE IF c = " " THEN <<"+">> ELSE <<c>>

UrlEncode(input, max) ==
  LET encode(in) ==
        LET out[i \in 0..Len(in)] ==
              IF i = 0 THEN <<>>
              ELSE Only({IF Len(o) < max THEN o \o Encoded(in[i]) ELSE o : o \in {out[i - 1]}})
        IN  out[Len(in)]
  IN  Only({encode(in) : in \in {input}})

PutText(buffer, output) == Only({
  Forward([b EXCEPT !.data = IF Len(text) < Left(b) THEN PutNul(Put(@, b.pos, text), b.pos + Len(text))
                             ELSE Put(@, b.pos, text)], Len(text)) :
    b \in {buffer}, text \in {output}})

\* tc_iot_add_url_encoded_field and tc_iot_add_url_uint_field, whose value is one character.
AddEncoded(b, prefix, val) ==
  Only({PutText(a, UrlEncode(val, Left(a))) : a \in {Appended(b, <<prefix>>)}})
AddUint(b, prefix, val) ==
  Only({IF Left(a) > 1 THEN PutText(a, val) ELSE Forward(a, 1) : a \in {Appended(b, <<prefix>>)}})

\* The string in a buffer: up to its first NUL.
Text(buffer) ==
  LET nul == Find(buffer, "NUL", 1) IN SubSeq(buffer, 1, IF nul = 0 THEN Len(buffer) ELSE nul - 1)

-----------------------------------------------------------------------------
(* tc_iot_create_auth_request_form.                                        *)

\* The numbers of a request.
EXPIRE == "5184000"
NONCE == "nonce"
TIMESTAMP == "timestamp"

SIGN_FORMAT == <<"clientId=", "%s", "&deviceName=", "%s", "&expire=", "%u", "&nonce=", "%u",
                 "&productId=", "%s", "&timestamp=", "%u">>

\* tc_iot_calc_sign: what is digested of a format and its arguments, n the next of these.
Signed(format, args) ==
  LET upTo[i \in 0..Len(format)] ==
        IF i = 0 THEN [text |-> <<>>, n |-> 1]
        ELSE Only({IF format[i] \in {"%s", "%u"} THEN [text |-> r.text \o args[r.n], n |-> r.n + 1]
                   ELSE [r EXCEPT !.text = @ \o <<format[i]>>] : r \in {upTo[i - 1]}})
  IN  upTo[Len(format)].text

\* HMAC-SHA256 in base64.
Signature(secret, text) == <<"+", secret>> \o text \o <<"=">>

CalcAuthSign(d) ==
  Signature(d.secret, Signed(SIGN_FORMAT,
    <<d.client_id, d.device_name, <<EXPIRE>>, <<NONCE>>, d.product_id, <<TIMESTAMP>>>>))

Fields(d) ==
  <<<<"clientId=", d.client_id>>, <<"&deviceName=", d.device_name>>, <<"&expire=", <<EXPIRE>>>>,
    <<"&nonce=", <<NONCE>>>>, <<"&productId=", d.product_id>>, <<"&timestamp=", <<TIMESTAMP>>>>,
    <<"&signature=", <<>>>>>>

\* The fields, and the signature where the last one has left the buffer.
AuthForm(d) ==
  LET form[i \in 0..7] ==
        IF i = 0 THEN Opened(FormLen)
        ELSE Only({IF i \in {3, 4, 6} THEN AddUint(b, Fields(d)[i][1], Fields(d)[i][2])
                   ELSE AddEncoded(b, Fields(d)[i][1], Fields(d)[i][2]) : b \in {form[i - 1]}})
  IN  Only({Text(PutText(b, UrlEncode(CalcAuthSign(d), Left(b))).data) : b \in {form[7]}})

-----------------------------------------------------------------------------
(* tc_iot_http_client_format_buffer and the callers that set its fields.   *)

VERSION == " HTTP/1.1, Host: "
LENGTH == "Content-Length: "
END == "end of header"

\* The buffer is one character longer than the text it may hold.
FormatBuffer(method, path, host, content) == Only({
  SubSeq(text, 1, IF Len(text) < RequestLen THEN Len(text) ELSE RequestLen - 1) :
    text \in {<<method>> \o path \o <<VERSION>> \o host \o <<LENGTH, ToString(Len(body)), END>> \o body :
                 body \in {content}}})

\* tc_iot_refresh_auth_token
API_HOST == <<"auth-device-iot.tencentcloudapi.com">>
API_TOKEN_PATH == <<"/token">>
HTTP_DEFAULT_PORT == 80
HTTPS_DEFAULT_PORT == 443

TokenRequest == [d \in Devices |-> [secured \in BOOLEAN |->
  [method |-> "POST", secured |-> secured, device |-> d, host |-> API_HOST,
   port |-> IF secured THEN HTTPS_DEFAULT_PORT ELSE HTTP_DEFAULT_PORT,
   text |-> FormatBuffer("POST", API_TOKEN_PATH, API_HOST, AuthForm(d))]]]

URL_LEAST_LEN == 10

\* Characters of the number of a port.
Digit == [c \in {"0", "1", "2", "3", "4", "5", "6", "7", "8", "9"} |->
            CHOOSE n \in 0..9 : ToString(n) = c]
Decimal(text) ==
  LET value[i \in 0..Len(text)] == IF i = 0 THEN 0 ELSE 10 * value[i - 1] + Digit[text[i]]
  IN  value[Len(text)]

\* Mutant: what follows a port is taken from where the port begins.
UrlParsePathAtPort(url) ==
  LET secured == Len(url) > 4 /\ url[5] = "s"
      split == IF secured THEN 6 ELSE 5
      start == split + 3
      from(i, stops) == CHOOSE j \in i..(Len(url) + 1) :
                          /\ j = Len(url) + 1 \/ url[j] \in stops
                          /\ \A k \in i..(j - 1) : url[k] \notin stops
      stop == from(start, {":", "/"})
      ported == stop <= Len(url) /\ url[stop] = ":"
      after == IF ported THEN from(stop + 1, {url[i] : i \in DOMAIN url} \ DOMAIN Digit) ELSE stop
  IN  [ok |-> /\ Len(url) > URL_LEAST_LEN
              /\ SubSeq(url, 1, 4) = <<"h", "t", "t", "p">> /\ SubSeq(url, split, start - 1) = <<":", "/", "/">>
              /\ ported /\ after <= Len(url) => url[after] = "/",
       secured |-> secured, host |-> SubSeq(url, start, stop - 1), path |-> SubSeq(url, stop, Len(url)),
       port |-> IF ported THEN Decimal(SubSeq(url, stop + 1, after - 1)) % 2^16
                ELSE IF secured THEN HTTPS_DEFAULT_PORT ELSE HTTP_DEFAULT_PORT]

\* tc_iot_url_parse: the host ends at the first of `:' and `/', and after a port only a `/' may
\* follow.  A url without a path leaves path_start unset, or at a character: Urls have one.
UrlParse(url) ==
  LET secured == Len(url) > 4 /\ url[5] = "s"
      split == IF secured THEN 6 ELSE 5
      start == split + 3
      from(i, stops) == CHOOSE j \in i..(Len(url) + 1) :
                          /\ j = Len(url) + 1 \/ url[j] \in stops
                          /\ \A k \in i..(j - 1) : url[k] \notin stops
      stop == from(start, {":", "/"})
      ported == stop <= Len(url) /\ url[stop] = ":"
      after == IF ported THEN from(stop + 1, {url[i] : i \in DOMAIN url} \ DOMAIN Digit) ELSE stop
  IN  [ok |-> /\ Len(url) > URL_LEAST_LEN
              /\ SubSeq(url, 1, 4) = <<"h", "t", "t", "p">> /\ SubSeq(url, split, start - 1) = <<":", "/", "/">>
              /\ ported /\ after <= Len(url) => url[after] = "/",
       secured |-> secured, host |-> SubSeq(url, start, stop - 1), path |-> SubSeq(url, after, Len(url)),
       port |-> IF ported THEN Decimal(SubSeq(url, stop + 1, after - 1)) % 2^16
                ELSE IF secured THEN HTTPS_DEFAULT_PORT ELSE HTTP_DEFAULT_PORT]

\* How the service spells a url.
Spelled(u) ==
  <<"h", "t", "t", "p">> \o (IF u.secured THEN <<"s">> ELSE <<>>) \o <<":", "/", "/">> \o u.host
    \o (IF u.port = <<>> THEN <<>> ELSE <<":">> \o u.port) \o u.path

\* tc_iot_ota_download and tc_iot_ota_request_content_length: the request for a url.
Asked(method, parsed) ==
  [method |-> method, secured |-> parsed.secured, host |-> parsed.host, port |-> parsed.port,
   text |-> FormatBuffer(method, parsed.path, parsed.host, <<>>)]
UrlRequest == [method \in {"HEAD", "GET"} |-> [url \in Urls |->
                 Only({Asked(method, p) : p \in {UrlParse(Spelled(url))}})]]
Refused(url) == ~UrlParse(Spelled(url)).ok

\* A text of a device or of a url has none of the tokens that stand for something else, and
\* no number of a request is the end of its header.
IsText(s) == s \in Seq(STRING \ {"NUL", VERSION, LENGTH, END})

ASSUME HttpRequestAssumption ==
  /\ FormLen \in Nat /\ RequestLen \in Nat \ {0}
  /\ \A n \in 0..RequestLen : ToString(n) # END
  /\ \A u \in Urls :
       /\ u.secured \in BOOLEAN /\ IsText(u.host) /\ IsText(u.port) /\ IsText(u.path)
       /\ \A i \in DOMAIN u.host : u.host[i] \notin {":", "/"}
       /\ \A i \in DOMAIN u.port : u.port[i] \in DOMAIN Digit
       /\ Decimal(u.port) \in 0..(2^16 - 1)
       /\ u.path # <<>> /\ u.path[1] = "/" /\ Len(Spelled(u)) > URL_LEAST_LEN
  /\ \A d \in Devices : \A text \in {<<d.secret>>, d.client_id, d.device_name, d.product_id} : IsText(text)

-----------------------------------------------------------------------------
(* What the servers read.                                                  *)

Decoded(text) ==
  LET from[i \in 1..(Len(text) + 3)] ==
        IF i > Len(text) THEN <<>>
        ELSE IF text[i] = "%" THEN
          <<CHOOSE c \in DOMAIN Escapes : Escapes[c] = SubSeq(text, i, i + 2)>> \o from[i + 3]
        ELSE <<CASE text[i] = "+" -> " " [] text[i] \in {"&", "="} -> "separator" [] OTHER -> text[i]>>
               \o from[i + 1]
  IN  from[1]

\* The form a server expects of a device.
FormOf(d) ==
  LET values == <<"clientId=">> \o d.client_id \o <<"&deviceName=">> \o d.device_name
                  \o <<"&expire=">> \o <<EXPIRE>> \o <<"&nonce=">> \o <<NONCE>>
                  \o <<"&productId=">> \o d.product_id \o <<"&timestamp=">> \o <<TIMESTAMP>>
  IN  values \o <<"&signature=">> \o Signature(d.secret, values)

\* A request as its parts; the body is as long as its header says.
ServerReads(text) ==
  LET version == Find(text, VERSION, 1)
      length == Find(text, LENGTH, 1)
      end == Find(text, END, 1)
  IN  [whole |-> end > 0 /\ text[length + 1] = ToString(Len(text) - end),
       method |-> text[1], path |-> SubSeq(text, 2, version - 1),
       host |-> SubSeq(text, version + 1, length - 1), body |-> SubSeq(text, end + 1, Len(text))]

PortOf(u) == IF u.port # <<>> THEN Decimal(u.port)
             ELSE IF u.secured THEN HTTPS_DEFAULT_PORT ELSE HTTP_DEFAULT_PORT

\* Every form fits its buffer when all of its characters are escaped, and every request its own.
RequestsFit ==
  /\ FormLen + 6 < RequestLen
  /\ \A u \in Urls : Len(u.path) + Len(u.host) + 5 < RequestLen
  /\ \A d \in Devices : 3 * Len(FormOf(d)) < FormLen
=============================================================================
