# A verification project for the Tencent Cloud IoT Suite embedded C SDK

TLA+ models of the SDK's own logic, model-checked with TLC and in part proved
with TLAPS.  Paths below are relative to the repository (`src/mqtt/...` is
the SDK's C code, not the whole tree).

## 1. The system

A device runs one thread.  Its main loop calls `tc_iot_server_loop`
(`tc_iot_shadow_yield`, which calls `tc_iot_mqtt_yield`) and, between those
calls, requests: publish, subscribe, shadow get/update/delete, data reports.
Nothing runs in parallel, and yet almost everything interleaves, because calls
nest: a request blocks by running the receive cycle, the receive cycle calls
message callbacks, callbacks issue requests, a failed request reconnects, and
a reconnection resubscribes, which is a request again.

| component | state | operations | talks to |
|---|---|---|---|
| MQTT client (`src/mqtt`) | connection state, ping flag, back-off, four timers, handler table, send and receive buffer | construct, yield, subscribe, unsubscribe, publish, disconnect, destroy, reconnect | network layer, broker; callbacks upwards |
| shadow sessions (`src/iotsuite/tc_iot_shadow.c`) | ten sessions: id, timer, callback | get, update, delete, check_and_report, yield, on_message_received | MQTT client; request callbacks |
| data synchronisation (`tc_iot_shadow_property.c`, rest of `tc_iot_shadow.c`) | desired_bits, reported_bits, shadow_seq; local, reported and desired copy of each property | report, confirm, control message, notification | shadow sessions; application callback |
| sub-device gateway (`tc_iot_sub_device.c`) | per sub-device bits and data | group documents, online/offline, report, confirm | shadow sessions |
| CoAP client (`src/coap`) | auth state and token, ten sessions by message id, option arrays | construct, auth, publish, rpc, yield | UDP/DTLS |
| HTTP client, URL (`src/common/tc_iot_http_client.c`, `tc_iot_url.c`) | parser, byte counts of one exchange | perform, download with a callback | TCP/TLS |
| OTA (`src/ota`) | version, progress | handler, download, reports | MQTT client, HTTP client |
| token, activation, RPC (`src/http`) | none | form, perform, parse | HTTP client |
| JSON, strings, buffers, base64, signatures (`src/common`) | none | pure functions | - |
| platform layer (`src/platform/linux`) | sockets, TLS contexts, timers | connect, read, write, disconnect | operating system |

What is hard in it, and what each component owes:

* **MQTT client.** A connection can fail at every line of every nested call.
  State, socket, ping flag, timers and handler table are changed at different
  depths of one call stack.  It owes: a state that tells the truth about the
  socket; no state of one connection leaking into the next; reconnection that
  waits within its limits and in the end succeeds; handlers that agree with
  the broker's subscriptions; calls that return; dead links noticed.
* **Shadow sessions.** A session is found by id, by slot and by pointer; the
  callback runs while the session is still in the table; the pointer is kept
  over a publication that may process the answer, the timeout of other
  sessions and new requests.  It owes: one callback per accepted request, with
  its own answer or a timeout.
* **Data synchronisation, sub-devices.** Bits and copies are changed while a
  document is packed, before it is known to be sent, and a control document may
  be processed, and confirmed, inside the publication of another report.  They
  owe: a changed property is reported in the end, an instruction that was
  followed confirmed, and no wish of the server taken back that was not met.
* **CoAP client.** Lost and duplicated datagrams, late answers, a full table,
  retries; options kept in order, with differences for numbers.  It owes: an
  authentication that ends; an answer given to the request it belongs to; a
  message that is read as it was meant, or refused.
* **HTTP client, OTA.** Partial reads, stalls, chunk boundaries at the end of
  the buffer, connections at every stage of set-up, a file that survives the
  process.  They owe: a call that ends; exactly the announced body to the
  callback; no upgrade reported that is not the firmware asked for; connections
  given back.
* **JSON.** A writer that looks at its last byte to know whether a comma is due,
  whose results nobody looks at; a reader that looks names up in a flat array of
  tokens.  They owe: what is published is read as it was meant or not at all.

## 2. The modules

| module | what it is |
|---|---|
| `MqttClient` | the MQTT client, the socket and a broker; its properties |
| `MqttClientProofs` | inductive invariants of `MqttClient` and five theorems |
| `ShadowSessions` | the session table, requests, answers, expiry; its properties |
| `ShadowSessionsProofs` | its inductive invariants and four theorems |
| `Wishes` | abstract: what a server may rely on when it sends instructions |
| `ShadowProperty` | bits, copies and numbers of the data synchronisation; implements `Wishes` |
| `ShadowPropertyProofs` | its inductive invariants, and four theorems, the refinement among them |
| `Json` | the JSON writer, the tokeniser as it is called, and the search for names |
| `ShadowDocuments` | the texts of the documents of `ShadowProperty`, with `Json` |
| `GroupDocument` | the documents about sub-devices, built by opening brackets again |
| `SubDevice` | gateway and sub-devices, with `GroupDocument`; implements `Wishes` |
| `SubDeviceProofs` | what a reader finds in a document of `GroupDocument`; the inductive invariants of `SubDevice`, and four theorems, the refinement among them |
| `GroupTexts` | the texts of the documents of `SubDevice`, with `Json` |
| `CoapMessage` | options, tokens and payloads as they are built, written and read |
| `CoapClient` | message ids, sessions, yield and authentication of the CoAP client, with `CoapMessage`; its properties |
| `CoapClientProofs` | an inductive invariant of `CoapClient`, which orders of options `CoapMessage` keeps, what the reader of its datagrams finds, and six theorems |
| `Transport` | what connecting, writing and disconnecting over TCP and TLS leave allocated |
| `HttpClient` | one HTTP exchange over a `Transport` connection |
| `HttpRequest` | urls, forms, signatures and the text of requests |
| `OtaUpdate` | password request and firmware update, with the three above; its properties |
| `HttpRequestProofs` | lemmas: what servers read of the requests of `HttpRequest`, and that decoding undoes encoding |
| `OtaUpdateProofs` | its inductive invariants and seven theorems |
| `Lemmas` | what the proofs share about sequences (stacks, documents under way, paths) and loops |
| `MC*` | what TLC runs; constants are in the `.cfg` files |

### MqttClient

The variables of group `client` are the fields of `tc_iot_mqtt_client`:
`state`, `ping` (ping_outstanding), `wait` (reconnect_timeout_ms), `timers`
(last_sent, last_received, ping_timer, reconnect_timer: the set of those that
are running), `auto`, `handlers`, and `ready` for a construction that
succeeded.  `stack` is the C call stack down to the functions that wait:
a frame has the function, where it goes on, its topic, QoS or loop index, and
the result it will return; `ret` is the value the last return left for the
caller.  `link`, `inbound`, `brokerUp` and `brokerSubs` are the socket, the
bytes received and not read, and the broker: external, modelled as the MQTT
protocol and `hal_net` require of them.

One action is the code from one network operation to the next:

* `Cycling` says which frames call `cycle()`; `ReadNothing`, `ReadError`,
  `ReadAck`, `ReadPublish`, `ReadRelease`, `ReadReleaseFails` are the outcomes
  of its read, and `Keepalive*` its last part.
* `Reconnect*` and `Connect*` are `tc_iot_mqtt_reconnect` and
  `tc_iot_mqtt_connect_with_results`, which differ only in the opening of the
  socket; `HandleReconnect*` is `_handle_reconnect` with its back-off and its
  resubscription loop, which reads the handler table anew at every slot.
* `Request*`, `SubscribeRefused`, `PublishTooLarge` are the three requests,
  which share one shape: check, send, wait, exit.
* `Yield*` is `tc_iot_mqtt_yield`; `App*` and `Construct` the calls of the main
  loop; `Callback*` those of a message callback.
* `Disconnect(running, backlog)` is `tc_iot_mqtt_disconnect`, with what its
  caller has done to the timers and to the received bytes before.

Abstractions.  A packet is its type, and arrives whole or not at all; packet
ids are left out because the code compares types only (`waitfor`).  A message
has one callback call.  The data of messages, TLS and the signature are left
out.  `tc_iot_mqtt_set_message_handler` is modelled as called by subscribe and
unsubscribe, not directly.  The disconnect callback is empty.  Of the requests
that do not fit the send buffer only the publish is modelled.  The exits for an
acknowledgement that cannot be decoded are left out.  A write never
blocks.  The build is the default one: ENABLE_MQTT_RECONNECT_FOREVER.

### ShadowSessions

`sessions` is the table, each slot holding the number of the request it was
taken for, whose id is `Id(r)`: the low bits of the start time, then a 16-bit
counter, printed in hexadecimal.  `running` are the slots whose timer has not
expired, `usid` the counter.  `stack` again is the call stack.  A frame
`publish` keeps the slot as `check_and_report` keeps its pointer; `message`
and `expired` keep the slot that is released once the callback returns;
`scan` is the position of the expiry loop.  `answers`, `accepted` and
`called` describe the server and what the application has seen.

`RequestBegins` is the request up to its publication, `PublishSucceeds` and
`PublishFails` the code after it, `AnswerReceived`/`AnswerDone` and
`PushReceived` are `_tc_iot_shadow_on_message_received` before and after its
callback, `SessionExpires`/`ExpiryDone` the body of
`_tc_iot_check_expired_session`.

`tc_iot_mqtt_client_publish` is abstracted to a call that receives any number
of messages and then succeeds or fails, whether or not its message arrived:
`MqttClient` has that behaviour (a PUBACK that is lost, or taken by a nested
publish because only its type is compared).  What callbacks request is a
constant, because the code's guarantees depend on it.  A request refused
because the table is full changes nothing and is not an action.

### Wishes, ShadowProperty and ShadowDocuments

`Wishes` has three variables: the value each property has, the value the server
wants it to have, and which of these wishes have been met since they were made.  A
wish is taken back (`Clear`) only if it was met.  `ImplementsWishes` is its
specification, with the local data for the device.

`local`, `reported` and `desired` of `ShadowProperty` are the three copies of the
property table, `reportedBits`, `desiredBits` and `seq` the fields of
`tc_iot_shadow_client` of those names.  A frame of `stack` is a call of
`tc_iot_server_init` ("init"), of `tc_iot_shadow_check_and_report` before its
publication ("pack") or in it ("publish"), of `_tc_iot_sync_shadow_property`
("sync", with the values still to be processed) or of the application's callback
("control").  `wish`, `srvSeq`, `view`, `uplink` and `downlink` are the server and
the documents under way: external.  `met` and `lost` are history: what became of the
wishes, and what was packed into documents that were not sent.

`PackReport` and `PackConfirm` are one call of `check_and_report` up to its
publication, with all it changes while it packs: `Written` are the properties that
fit, `Reached` also the one at which the loop gave up, whose copy is updated and
whose bit is not.  `Receive`, `ControlBegins`, `ControlReturns` and `SyncDone` are
the way of a control document through `tc_iot_device_on_message_received`.
A session is what `ShadowSessions` says, a publication what `MqttClient` says:
here it receives, returns, and has delivered its document or not, whatever it
returns.  `PackRefused` is the exit for want of a session.  `Unstorable` are the
properties of type INT, for which `tc_iot_shadow_save_to_cached` writes nothing:
they are reported again and again, an instruction for them is never copied, and
`ImplementsWishes` and `LostOrReported` fail with them.  Runs and proofs have
`Unstorable = {}`.  The code generator (`tools/tc_iot_code_generator.py`) makes
properties of type NUMBER, BOOL, ENUM and STRING.

`ShadowDocuments` adds the text to each document.  `Texts` is what the calls of
the writer leave in a buffer of every length, `Published` what a reader finds in
it; `ControlText` is a control document as the server may write it, with the
reported state beside the desired one and characters written as `\u`, and
`Received` is what `tc_iot_shadow_doc_parse` and the lookup of names find in it.
The operators are evaluated on the documents the state machine sends.
`OrdersReadBack` has three preconditions, because the code is right only then:
values are handed on raw, so a value whose text needs a backslash reaches the
callback with it; a value that is a beginning of `null`, `n` for example, is taken
for null; a name that needs escapes is never found.  `check_and_report` looks at
no result of the calls that close a document, so a document that just fills the
buffer is published cut off: `ReportsReadBack` shows that such a text is no JSON
object at all.

### Json

A text is a sequence of bytes.  `Open`, `Begin`, `String`, `Value`, `End`, `Close`
are the calls of `tc_iot_json_writer.c` on a buffer of a given length, failures
included: a call that does not fit leaves what it has written so far and returns
an error most callers ignore.  `Parse` is jsmn as it is configured here
(`JSMN_PARENT_LINKS`, not strict), `FindToken` is `tc_iot_json_find_token`, which goes
down a path of names, `FindChild`, `NthChild` and `NthChildValue` are
the functions of the tokenizer that `tc_iot_sub_device.c` uses: children are found by
their parent link.  `find_token` accepts a value that fills the result buffer without a
NUL; no caller of the modelled components has one that long.  An escaped text that ends
exactly with the buffer leaves no NUL either: what lies behind it in memory is left out.

### SubDevice, GroupDocument and GroupTexts

`GroupDocument` keeps of a document the containers that the brackets at its end
close and the facts a reader finds: the text is built by opening the brackets
again, down to a depth counted from the root, so an entry lands where the depth
says.  An entry that does not fit ends the document.

`SubDevice` has, for each registered device, its data, its number and two sets of
bits, in arrays of (device, property).  `Call(kind)` is a call of one of the five
requests (online, get, report, confirm, offline), which share one shape:
take a session, pack, publish, receive meanwhile; `RequestSkipped`,
`RequestRefused`, `RequestFails`, `RequestPublished` are its four ways.  `Receive`
processes a control document, or the answer to a get, device by device and value by
value in one step: nothing is received in between, because the callback of
the example makes no request before all is done.  `Expire`, `MainGoesOn` and
`Drained` are the main program of `examples/advanced_edition/sub_device`, to the
end of its shutdown.  A value longer
than `TC_IOT_SHADOW_MAX_FIELD_LEN` makes the rest of a document fail after the
number of its device was stored.  With such a value (`Oversized = {b}`)
`ImplementsWishes` fails; the run has none.

`GroupDocument` says that a document in which an entry did not fit tells nobody
anything.  The code does not say so: every call of
`tc_iot_sub_device_group_doc_add_data` looks for the brackets at the end of whatever text
there is, and but for a few (`Chained`) its result is ignored.  `GroupTexts` plays the same
`calls` on a buffer of every length (`AddText`) and shows that what is published is
the whole document, read as it was put together (`ReadsBack`: every fact at its place
and nothing else), or no JSON object.  `ControlText` is a control document
as the server may write it, `Events` what `tc_iot_group_control_process` calls the event
handler with; values are handed on raw here too (`Plain`).

### CoapClient

`sessions`, `next_packetid` and `auth_state` are the fields of
`tc_iot_coap_client`; an empty slot has message id 0, as in the code, where
`tc_iot_coap_session_find_empty` searches for that id.  `stack` has a frame for
each `tc_iot_coap_yield` under way: its place in the expiry scan, the read, or
the slot whose handler runs.  `auth_pc` and `auth_mid` are the place and the
message id of `tc_iot_coap_auth`, which only the main loop calls.  `wire` is the
server and the network: the ids an answer to which may still arrive; a message
may be read twice, late or never.  `pending` are the requests that got a session
and whose handler was not called yet.

`Send` and `SendTooLarge` are `tc_iot_coap_publish` and `tc_iot_coap_rpc`; `Scan*`
and `TimeoutHandlerReturns` are `_tc_iot_coap_check_expired_session`, one step
per slot; `Read*` and `AnswerHandlerReturns` the part of the yield after it;
`Auth*` the loop of `tc_iot_coap_auth`.  The authentication's own handler does
nothing but set the state and is part of the step that calls it.  A session is
found by id alone, as in the code, and of the answer to an authentication only its
acceptance matters; the bytes of the messages are the matter of `CoapMessage`.  `IdIsFresh` is an
assumption: ids come round after 65535 messages, and the earlier use of an id is
over by then.

### CoapMessage

A request is built option by option (`AddOption`, as `tc_iot_coap_message_add_option`
shifts them), written (`Datagram`) and read (`Deserialize`).  `Survives` says that the
result is the request, and that a datagram cut anywhere is refused or read as a part
of it.  `MessagesSurvive` says so of every message id in use and every request of
`OrderedRequests`.  The loops over the options,
when they are added, written and read, are recursive functions over the passes; the reader's
(`OptionsFrom`) is taken where it has left the loop.
`AddedInOrder` is its precondition: the insertion moves one option up, not all the
following ones, so that an option that makes room for two others overwrites one.
15, 60 and then 3, for example, leave 3, 15 and an element that was never set.  The
theorem `OptionsKept` says that `AddedInOrder` is exactly what it takes, and the lemma
`OwnRequestsInOrder` that the authentication, publications and remote calls of the library
fulfil it.  Lengths
and differences of 269 and above are read with another offset than they are written with
(14 and 269, `Extended`) and are not among the requests (`RequestsAreShort`); the library's own requests have none.  A token that is cut off is read
as a message without options rather than refused.

### Transport, HttpClient and HttpRequest

`Transport` has one record per connection: descriptor, mbedTLS contexts, session,
the flag `is_connected`.  `SocketConnects` and `TlsConnects` are the sets of ways
do_connect may end, `Disconnected` what do_disconnect gives back, by that flag.  The
flag is set before the handshake, and a handshake that began may be finished by the
first write (mbedTLS resumes it).

`HttpClient` has one exchange as a frame: `Connected`, `Written`, `AfterRead` and
`CallbackReturns` are the parts of `tc_iot_http_client_internal_perform` between two
operations of the network.  A response is a sequence of tokens (a header word, CR, LF,
a piece of the body) and arrives cut at any of them; the buffer is a number of tokens
and keeps what was in it, because the parsers look for the end of a line up to a
NUL that a full buffer does not have: `Memory` is what they may find beyond it, and
`parser.sound` turns FALSE once a header was read from there.  `Analysis` is
`tc_iot_http_parser_analysis`, `IsCompleteChunk` and `MergeChunk` the functions of the
chunks.

`HttpRequest` takes urls apart as `tc_iot_url.c` does, forms the password request in
the bounded buffer of `tc_iot_ya_buffer.c` with percent escapes and the signature, and
writes the request.  `ServerReads` is a server that reads it.  A digest is the
text it is computed of.  What the code says about the edges: `tc_iot_url_encode` may
write two characters beyond the room it was given (the buffer has them); a url
without a path leaves `path_start` unset, so the urls here have one; urls of ten
characters and less are refused.

### OtaUpdate

`run_mqtt` of `examples/scenarios/ota` as a whole: the password request, then
commands.  A frame of `stack` is an exchange, or a command with the place it is at
(`reported`, `head`, `get`, `upgrading`), the digest, the length of the file when it
was opened and what the C library has not yet written to it.  `handler` is the one
`tc_iot_ota_handler` all commands share.  `file` outlives a `Crash`.  A report is a
QoS 1 publication, within which another command may be processed; the percentage
of a progress report counts the last piece twice, as the code does.  `Break` and
`Expire` are the disturbances: a connection that closes, dies or stays up without
the rest, a timer that runs out early.  A firmware that fits into the request's
buffer never reaches the callback and "fails"; the assumption on `Firmware` says
that it is longer.

## 3. The runs

`expect: violation` runs show a disagreement between the code and what the
repository says of it; the trace is the evidence.

| run | property | what it shows |
|---|---|---|
| `mqtt_client` | `SocketMatchesState` | a socket is open exactly in NETWORK_READY and CONNECTED, so no open socket is overwritten by do_connect |
| | `PingOnlyOnSocket` | no ping survives its socket |
| | `BackoffBounded` | back-off between its limits, at least the minimum while its timer runs |
| | `HandlersSubscribed` | between calls of a connected client every handler has a subscription at the broker |
| | `TypeOK` | types; the handler table does not grow |
| `mqtt_live` | `DeadLinkNoticed` | the keep-alive finds a half-open connection |
| | `CallsReturn` | every call returns, though a wait nests requests of callbacks, their reconnections and the resubscriptions of these |
| | `ReopensSocket` | a client in INITIALIZED with auto_reconnect opens a socket |
| `mqtt_recovers` (violation) | `Recovers` | it does not always get connected again |
| `mqtt_wait` (violation) | `WaitIsKept` | the back-off is cancelled while disconnected |
| `shadow_sessions` | `NoRequestLost` | an accepted request keeps its session until its callback is called |
| | `AnsweredOnce` | at most one callback per request, early and late answers included |
| | `AnswerIsMine` | the answer given to a callback answers its request |
| | `EveryRequestEnds` | every accepted request ends, by answer or timeout |
| | `TypeOK` | types; the scan stays within the table |
| `shadow_report` (violation) | `NoRequestLost` | a report whose publication fails can wipe another report's session |
| `shadow_property` | `LostOrReported` | a property that differs from what the server knows is going to be reported, is being reported, or was in a document that was lost |
| | `ConfirmOwed` | an instruction that was followed is going to be confirmed with the right number, unless its confirmation was lost |
| | `ImplementsWishes` | the server takes a wish back only after the device has met it |
| | `Converges` | the server gets to know every property in the end, unless its report was lost |
| | `ReportsReadBack` | every text published says what was meant, or is no object |
| | `OrdersReadBack` | in a control document the desired values are found, not others of the same name |
| | `TypeOK` | types |
| `sub_device` | `LostOrReported`, `ConfirmOwed`, `ImplementsWishes` | the same for the sub-devices of a gateway, under the right device and product |
| | `GroupTextsReadBack` | the same as the two above for the documents of the group |
| | `ShutdownEnds` | every session comes free and the gateway stops, failed requests included |
| | `TypeOK` | types; an answer is handled for a session that waits for it |
| `ota_update` | `BodyIsRight` | a successful exchange has handed over exactly the body |
| | `UndisturbedSucceeds` | an exchange nothing disturbed succeeds, wherever the response was cut except within the status line and the last chunk (`Harmless`) |
| | `UpgradedIsFirmware` | an upgrade reported is the firmware the command asked for, unless another command came within it |
| | `RequestIsRight` | servers read the form, signature, path, host and port that were meant |
| | `ConnectionsReleased` | an exchange that got through gives its socket and TLS contexts back, unless its request could not be written or asked for a length only |
| | `UpgradeEnds` | the update ends, unless its file is stuck or a body loop hangs |
| | `TypeOK` | types; files hold pieces of their firmware only |
| `ota_recovers` (violation) | `OtaSucceeds` | an interrupted download is not always resumed |
| `coap_client` | `PendingIsInTable` | a request that waits keeps its session; none is wiped for another one |
| | `CalledOnce` | a handler is called only for a request that still waits for it |
| | `AuthHasOneSession` | attempts of an authentication do not overlap, and it leaves no session behind |
| | `EveryRequestResolved` | every request with a session is answered or timed out |
| | `AuthNeverStalls` | an authentication with a session returns or retries |
| | `MessagesSurvive` | every request none of whose options was added before more than one already there is built with all its options and read back with them, its token and payload, cut ones refused or read in part |
| | `TypeOK` | types; message ids stay within 16 bits |
| `coap_nested` (violation) | `CalledOnce` | a handler that yields is called again, with a timeout, for the answer it is handling |

The five disagreements:

1. **A reconnection that fails after do_connect is never repaired**
   (`tc_iot_mqtt.c:711-721, 777-781, 1180`).  `reconnect` opens a socket
   only in INITIALIZED.  If its CONNECT is not answered, the disconnect at its
   exit does nothing, since the state is NETWORK_READY; all later attempts
   write to the dead socket.  `ReopensSocket` holds for the clients that did
   get back to INITIALIZED, which marks the boundary of the problem.
2. **The back-off is reset by a failed resubscription** (`tc_iot_mqtt.c:85-87`).
3. **A report can lose its session to another report's failure exit**
   (`tc_iot_shadow.c:848-851`).
4. **An answered CoAP request can be reported as timed out**
   (`tc_iot_coap.c:685-686`).  The session is released after its handler; the
   handler of the advanced example yields, and the expiry scan of that nested
   yield finds the session still there.  `CalledOnce` and `PendingIsInTable` hold
   as long as handlers send but do not yield.
5. **An interrupted download is begun anew, behind what there is**
   (`examples/scenarios/ota/tc_iot_ota_logic.c:72, 81, 102`).  The comment says that the
   earlier progress is looked up and continued.  The length of the file is, but the
   request has no Range: the whole firmware is appended.  When two interrupted attempts
   add up to the length of the firmware, the file is taken for complete from then on,
   and its digest never fits.  `UpgradeEnds` names this state (`Stuck`).

Four more that the models show and no run is made of; the properties leave them out by a
condition that names them:

* **The loops over a body have no timer** (`tc_iot_http_client.c:653, 672, 687`).
  `timeout_ms` is described as the longest time a request waits (527), but only the loop
  over the header looks at it (721).  When the server falls silent behind the header, the
  exchange never ends: `Hung`, which `UpgradeEnds` exempts.
* **A command within a command has its upgrade reported by the outer one**
  (`examples/scenarios/ota/tc_iot_ota_logic.c:127-131, 174-180`).  The report carries the
  `ota_id` of the handler all commands share.  A command processed while the report of the
  digest waits stores its own there; when it fails, the outer command goes on to report
  OTA_UPGRADING for it.  `UpgradedIsFirmware` is about commands with none inside (`nested`).
* **An option inserted before two others overwrites one** (`tc_iot_coap.c:408-410`): those
  that are not `AddedInOrder`, by the theorem `OptionsKept`.
* **A request repeated in the callback of its timeout can cost another one its session**
  (`tc_iot_shadow.c:117-121`).  The late answer of the first attempt, received while the
  repetition is published, finds the session whose timeout is being reported, calls the
  callback again and releases the slot; the scan releases it a second time, when it
  is another request's.  `NoRequestLost` fails with `OnTimeout = {"get"}` in the instance
  of `shadow_sessions`, which has `OnTimeout = {}`.

### Bounds

* `mqtt_client`: two topics and one handler slot (the table is full, freed and
  searched), QoS 1 requests and QoS 2 deliveries (both halves of each exchange
  are written and read by the client; the violation runs and the proofs have the
  other levels), one level of callbacks that make requests (a callback inside
  such a request only returns), two faults.  One fault breaks the connection, a
  second one hits the reconnection or the resubscription that repairs it, which
  is what the nested exits are about.  About 880,000 states.
* `mqtt_live`: one topic, publications of QoS 0 and 1, a clean session, two faults, a back-off with one value,
  `tc_iot_mqtt_connect` among the calls: a request that waits
  receives a message whose callback publishes and waits; the connection fails there, is
  opened again, and the resubscription waits in its turn, the second fault hitting any
  of these.  The publications of QoS 0 are what keeps a dead link's send timer running.
  176,000 states.  Safety runs use symmetry over topics, this one does not.
* `shadow_sessions`: two slots and three requests: one slot is freed and taken
  again while another is occupied.  A stack of at most five frames nests a
  callback, its publication and the answer received in it.  `MaxCopies = 1`: the
  server answers at most once.  The timeout callbacks of the repository request
  nothing, so `OnTimeout = {}`; the disagreements above say
  what becomes of a request made there.
* `shadow_report`: requests are reports, from the main loop and from the
  handler of a control message (`_tc_iot_sync_shadow_property` ends in
  `tc_iot_confirm_devcie_data`), as the shipped code does.
* `coap_client`: two slots and three message ids, so that the ids come round, the
  table is full and slots are taken again; handlers send but do not yield, hence
  `MaxDepth = 1`.  `ServerIds = {0}`: a message of the server with id 0 finds an
  empty slot.  About 55,000 states.  `coap_nested` lets the handler of an answer
  yield, one level deep, as the advanced example's does.  `MCRequests` has requests with options of any
  order, `MessagesSurvive` is about those that are `AddedInOrder`.
* `shadow_property`: two properties, one of which has the name of an object of the
  document and is the beginning of the other's; room for one or both in a report; a
  control document may be overtaken by one other (`Window = 2`); two wishes or changes,
  one property lost at a time, publications that receive nest twice, so that a report
  is packed inside a confirmation inside a report.  Texts are evaluated for buffers of
  every length up to that of the longest text, with values that need escapes, that are
  empty or not ASCII.  514,000 states, the largest run.
* `sub_device`: two devices of one product and a session table of one, so that
  requests are refused while another one waits; a document holds all or
  breaks off after nine entries, which is inside the state of the first device (with
  other rooms it breaks off elsewhere, which `GroupTextsReadBack` shows to make no
  difference: it is evaluated for every length).  369,000 states.
* `ota_update`: a response is cut at any token, in buffers of four and thirteen tokens
  and a firmware of five pieces; HTTP and HTTPS; two faults, because one interrupted
  attempt is repaired by the next.  Two versions, so that a second command may come
  within the first.  195,000 states.  `ota_recovers` is the same with HTTP only.
* `MaxNumber` is the largest number in a response that the parser reads; every length and chunk
  here is below it.
* Other bounds: `MaxFaults`, `MaxInbound` (backlog beyond which the broker pushes
  nothing), `MaxNest`, `MaxRequests`, `MaxDepth`.  `MaxFaults` is finite because
  liveness is only owed once the network has stopped failing.

`HandlersSubscribed` is checked with `CleanSession = TRUE` and without
`tc_iot_mqtt_connect` among the application's calls: that function, unlike
`_handle_reconnect`, does not resubscribe, and the property fails with it.  The theorem
(section 4) makes the same assumptions, and that callbacks do not subscribe.

### Fairness

`MqttClient`: a call that has begun goes on (weak fairness of the steps of the
three groups: the thread runs).  Every timer runs out.  A loop that keeps
reading ends at its own timer, although it may always find another message
(strong fairness of the timeout exits and of `YieldReturns`: the loops test
`tc_iot_hal_timer_is_expired` each round).  The application constructs the
client and comes back to yield, as the main loops of all examples do.  Nothing
is assumed of the broker or the network beyond the bound on faults.

`ShadowSessions`: timers run out, the main loop yields again and again, and a
publication, a yield and a callback at any depth of the stack end (strong
fairness of `Ends(d)`), which `CallsReturn` supports for the MQTT client.

`CoapClient`: a yield and an authentication that have begun go on, handlers
return, timers run out, and the main loop yields again and again, as the README
of the SDK asks.  Nothing is assumed of the network: every answer may be lost.

`ShadowProperty`: calls and callbacks return, the server reads what arrives, and the main
loop reports from time to time (strong fairness, because between two reports it may have
nothing to say).  A report is not refused for ever, since every session expires
(`EveryRequestEnds`).  A document may be lost all the same, which `Converges` says.

`SubDevice`: calls return and every session that is taken is found by an expiry scan in
the end (strong fairness, because an acknowledgement may free it and a request take it
again); the gateway is told to stop by nobody.

`OtaUpdate`: the process runs, its timers expire, and the server repeats its command,
as the service does until the upgrade is reported.  A crash is a fault, and restarting is part of
`Progress` (a supervisor starts the program again).

## 4. What is proved

`MqttClientProofs` proves, for every set of topics, table size, limit, bound
and set of calls allowed to the application and the callbacks, and with no
bound on the depth of the stack:

| theorem | states |
|---|---|
| `TypeCorrect` | `Spec => []TypeOK` |
| `BackoffIsBounded` | `Spec => []BackoffBounded` |
| `SocketCorrect` | `Spec => []SocketMatchesState` |
| `PingCorrect` | `Spec => []PingOnlyOnSocket` |
| `HandlersStaySubscribed` | `Spec => []HandlersSubscribed`, if `UsedAsInExamples` |

Assumptions: the named ASSUMEs of `MqttClient` (at least one slot; the minimum
wait is positive and not above the maximum; NoTopic is no topic; the calls and
QoS levels are ones there are).

The argument.  `TypeInv` is TypeOK, proved in three parts (client, calls, net),
each with one step per action.  `BackoffInv` strengthens `BackoffBounded`: the
wait is zero or at least the minimum, and the reconnect timer runs only while
it is not zero.  `SocketMatchesState` is not inductive: nothing in it says that
the client that sets CONNECTED after a CONNACK still has its socket, since
between the read and the assignment the cycle runs its keep-alive, which may
disconnect.  `AckInv` closes that gap: only the cycle that has just
read a CONNACK, and the caller it returns to, hold that result, and as long as
they do the socket it came from is open; a keep-alive that drops the socket
turns the result into an error.  `SocketInv` is the conjunction of
`SocketMatchesState` and `PingOnlyOnSocket`, `SessionInv` that of `AckInv` and
`SocketInv`, and `SessionInv` together with `TypeInv` is inductive.

`HandlersStaySubscribed` has a hypothesis about the use of the library,
`UsedAsInExamples`: a clean session, no call of `tc_iot_mqtt_connect` by the application,
and callbacks that neither subscribe nor unsubscribe (they may publish).  Every example
satisfies it, and so does the run `mqtt_client`.  The first two are needed because a session
that is kept, or that the application opens, is not resubscribed; the third because a wait
compares the packet type only, so that two nested subscribes take each other's
acknowledgement.  (For callbacks that unsubscribe nothing is proved; TLC finds no violation
with them on a small instance.)

Its argument: `HandlersSubscribed` speaks about the time between calls, when everything that
was lost, refused or late while the client connected and resubscribed has been dealt with.
What is inductive is `Excused`: while calls run, a handler may be without a subscription only
if a call on the stack is about to subscribe its topic, waits for its UNSUBACK, or is a
`_handle_reconnect` that has not come to its slot.  With the stack empty there is no excuse
left.  A call that returns gives its excuse up, so the rest of the invariant is about what it
was told:

* `AnswerInv`: in a session there is one acknowledgement of a SUBSCRIBE at a time, it belongs
  to the subscribe that waits nearest to the top of the stack with only cycles, callbacks and
  publishes above it, and a SUBACK means that the broker has that topic.
* `BrokerInv`: a session begins with no acknowledgement of an earlier one on its way, and a
  message that is delivered while a CONNACK is awaited comes from a socket that is lost, so
  that no callback can act in a session before `_handle_reconnect` has seen it.
* `ShapeInv`: which call may wait for which (`Callees`), and that a reconnection which fails
  leaves no session; then the requests that give up owe nothing.
* `TableInv`: no topic is in two slots, so that taking a handler out leaves none for its topic,
  and `tc_iot_mqtt_client_construct` connects before there are handlers.

Their conjunction `SubscriptionInv` is inductive relative to `TypeInv` and `SessionInv`; TLC
checked it on the instance of `mqtt_client` (883,000 states) first.

`CoapClientProofs` proves, for every table size and number of message ids:

| theorem | states |
|---|---|
| `TypeCorrect` | `Spec => []TypeOK`, with any nesting of yields |
| `PendingKept` | `Spec => []PendingIsInTable` |
| `AuthAlone` | `Spec => []AuthHasOneSession` |
| `HandlerCalledOnce` | `Spec => CalledOnce` |
| `OptionsKept` | a request keeps all its options in order if and only if they are `AddedInOrder` |
| `RequestsSurvive` | `Spec => []MessagesSurvive`, for every set of requests and room to send: what survives are those `AddedInOrder` |

`PendingKept`, `AuthAlone` and `HandlerCalledOnce` assume `NoNestedYield`: no handler yields.  `coap_nested` shows that
they need it.  None of the three is inductive; `SessionInv` says that the session
whose handler runs is in the table and is the only one in the table that is not
waiting (`PendingInv`, `StackInv`), that ids find sessions (`TableInv`), and that the
id of an authentication belongs to its own session only, which is gone when there
is a result (`AuthInv`).

`OptionsKept` is about `tc_iot_coap_message_add_option` alone, for every id and up to sixteen
options whose numbers and lengths are up to 268.  Its argument is
an invariant of the calls of that function (`Built`): the first n options are `Placed` as
long as each of them made room for one other at most (`InPlace`), and from the first one on that
did not, the options are `Broken`: an element that was never set, of number 0, stands behind a larger
number, and no later call repairs that (`BrokenMore`, `BrokenIsLoss`).

`RequestsSurvive` has the precondition of `MessagesSurvive`, and assumes `RequestsAreShort`: at most 16 options, numbers and lengths up to
268, bytes for values and payload.  The run's requests are such (`RequestsAssumption`), and
beyond that the code is wrong.  Ids are numbers of 16 bits (`SizesAssumption`).  What has to
be known of the run is only that live sessions have ids; the rest is about `CoapMessage`, in three parts:

* *Built* (`RequestIs`).  `Placed` says that the first n options that were added are all in
  the message, each at its place, the numbers ascending.  An option of an ordered request
  makes room for one other at most, so `AddOption` keeps it (`AddedIs`, `PlacedMore`).
* *Written* (`DatagramIs`).  `Ends` names the place where every option ends, with the bytes
  between two such places those of the option (`OptionAt`): four bits for the difference of
  the numbers, four for the length, a byte more for each that is 13 or above, the value.
  What is written later does not change it (`OptionStays`), and writing an option extends it by
  one place (`EndsMore`).  A datagram that is sent has head, options, marker and payload
  (`Sent`): no overflow goes unnoticed.
* *Read* (`ReadsWhole`, `ReadsPart`).  `Pass` says where the reader of a datagram that was cut
  anywhere is after k passes: at the end of option k, with the first k options, or out of
  the loop (`StopsAt`).  A pass keeps it (`TurnReads`, `PassReads`); the reader is out of the loop when
  there have been as many passes as bytes, because an option takes one at least (`EndsGrow`).
  In a whole datagram it has every option then and stops at the marker or the end
  (`NoneBehind`); in one that was cut it has the first ones, and the payload is a part.

The loops are over options, not over data: `LoopReaches` (in `Lemmas`) says that a loop has values
whose passes stay in a relation, which is what takes the place of an induction here.

`ShadowSessionsProofs` proves, for every size of the table, any number of requests and
any depth of calls:

| theorem | states |
|---|---|
| `TypeCorrect` | `Spec => []TypeOK`, whatever callers request |
| `NoneLost` | `Spec => []NoRequestLost` |
| `CallbackOnce` | `Spec => []AnsweredOnce` |
| `OwnAnswer` | `Spec => []AnswerIsMine` |

The last three assume `SafeCallers` (no reports, no requests in the callback of a timeout,
one answer for each request) and `IdsDiffer` (no id begins another one).  `shadow_report`
shows what reports do, and TLC the loss of a request with `OnTimeout = {"get"}` (section 3); `IdsDiffer` is arithmetic over powers of the base, out of
the prover's reach, and evaluated for the instances TLC runs.  The argument: a
call that has called a callback holds a slot until it is back, no two calls hold the
same one (`ApartInv`), and nothing is received above an expiry scan (`BottomInv`).  A session
whose callback was called is held, and held by nobody else (`HeldInv`, `CalledInv`),
so a release wipes only a session that is done, and no answer and no timeout finds it
again.  `KeptInv` says of requests being published what `NoRequestLost` says of
accepted ones.

`ShadowPropertyProofs` proves, for every number of properties, set of values and rooms,
every window and every bound:

| theorem | states |
|---|---|
| `TypeCorrect` | `Spec => []TypeOK` |
| `WishesImplemented` | `Spec => ImplementsWishes` |
| `ReportsKept` | `Spec => []LostOrReported` |
| `ConfirmationsOwed` | `Spec => []ConfirmOwed` |

`WishesImplemented` and `ReportsKept` assume `Unstorable = {}`, without which they do not
hold; `ConfirmationsOwed` does not.

The argument.  `TypeInv` adds to TypeOK that below the running call are only calls that
wait for a receive (`StackInv`), and that a callback runs for a value (`ControlInv`).  The
refinement needs to know why a confirmation that counts is about wishes that were met,
several steps after the bits it was packed from were set: `WishInv` says that numbers
only grow (`SeqInv`), that documents with the present number carry the present wishes
(`OrderInv`), that so does what is still to be processed of one (`TodoInv`), that the
desired copy behind a bit is the present wish, or is about to become it (`BitInv`), that a
wish the device fulfils counts as met (`MetInv`), and that hence whatever confirmation with
the present number is under way is about wishes that were met (`ConfirmInv`).  Every
step of `ShadowProperty` then is one of `Wishes` or changes none of its variables.
`ReportInv` says that for a property that was reported, the last report under way has
the reported copy, or the server has it (`Told`), unless a report of it was lost.
`ConfirmOwed` looks at an idle device only; `OweInv` says what a device that knows the
present number owes for every present wish at any time (`Owed`): it is still to be
processed, or its bit is set, or a confirmation that counts is under way or was lost.  It
needs the numbers (`SeqInv`, `OrderInv`, `NumberStep`) and that the instruction whose
callback runs has its bit (`BusyInv`).

`SubDeviceProofs` proves of `GroupDocument`, for every table of sub-devices, number of
properties and room:

| theorem | states |
|---|---|
| `DocumentReads` | a document that was completed has the path of a point if and only if the point is one of those it was made for, and the number of a device only if it has a point and a number, and then that one |

The brackets are closed and opened again by depth, so nothing in the code says that a
property ends up under its own device.  The argument follows the two loops of
`StateBody`: a pass for a device leaves the document open at that device's path and adds
paths below it only (`Grows`), wherever the pass before it left off.  The names of
devices, products and numbers are texts; the theorem assumes that texts of different indices
differ (`NamesDiffer`); two sub-devices may be of the same product.  The loops are recursive functions: `LoopExists` and `LoopKeeps` of
`Lemmas` say that such a function has values and that what every pass keeps holds at its
end, by the well-foundedness of the naturals and not by an induction theorem, which the
installed provers cannot instantiate.

It proves of `SubDevice`, for every table, set of values, window and bound:

| theorem | states |
|---|---|
| `TypeCorrect` | `Spec => []TypeOK` |
| `ReportsKept` | `Spec => []LostOrReported` |
| `ConfirmationsOwed` | `Spec => []ConfirmOwed` |
| `WishesImplemented` | `Spec => ImplementsWishes` |

The last two assume `Oversized = {}`: a value longer than its buffer ends the processing of
a document whose number was stored already (`tc_iot_sub_device.c:526`), and the wishes behind
it are then neither processed nor owed.  Like the model they assume that texts of different
numbers differ (`NumbersDiffer`).  What a publication tells is read from the document that
`GroupDocument` builds, so each of the three rests on `DocumentReads`: a report tells
the properties it was packed from, a confirmation counts for a point exactly when its bit was
set and its device's number is the present one (`ConfirmedIs`).  `Told` says
of each property that its bit is set, or its report was given up, or the last report under
way tells it, or the server has it.  `WishInv` has five parts: the server numbers its wishes and nobody
else makes numbers up (`NumberInv`), a control document with the present number tells the
present wishes (`OrderInv`), a sub-device whose present number was processed has had every
value wished (`KnownInv`), a confirmation that would take a wish back is about a value
that was had (`ConfirmInv`), and the confirmation is owed, under way or given up (`OweInv`).
It is inductive together with `TypeInv`.

`OtaUpdateProofs` proves, for every set of versions, firmware and urls, every response to the
password request, every size of the buffers from three tokens on and every bound, with
commands processed within commands to any depth:

| theorem | states |
|---|---|
| `TypeCorrect` | `Spec => []TypeOK` |
| `ConnectionsGivenBack` | `Spec => []ConnectionsReleased` |
| `DownloadsAreRight` | `Spec => [](main = "yield" => BodyIsRight)` |
| `DownloadsSucceed` | `Spec => [](main = "yield" => UndisturbedSucceeds)` |
| `UpgradesAreFirmware` | `Spec => []UpgradedIsFirmware` |
| `RequestsAreRight` | `Spec => []RequestIsRight`, if `RequestsFit` |
| `Invariant` | `Spec => [](TypeInv /\ DigestInv)`, what they all follow from |

`main = "yield"` leaves out the password request: its response is arbitrary and may
come in chunks, whose merging is a recursion over the response.  The assumptions are
`OtaAssumption` (a firmware is longer than the buffer and its length a number the
parser reads, the buffer has three tokens) and `NumberAssumption` (texts of different numbers
up to `MaxNumber` differ, and none ends a line): `ToString` is opaque to the prover, TLC
evaluates both.

The argument is an account of every token.  What was not read yet (`wire`), what waits in
the buffer (`left`) and what the callback was given are consecutive parts of one
answer, eleven tokens of header and the firmware.  `InHeader` says at which token of
it the parser stands, for each of its six states (`Parsed`); `AnalysisTracks` shows that
`tc_iot_http_parser_analysis`, a loop over whatever the buffer holds, keeps that; as long as the
header is read within the buffer (`parser.sound`), no longer once `tc_iot_http_has_line_ended` has looked
beyond it.  `InBody` says how many tokens the callback was `handed` and that the digest of its
command ends with them; `received` never exceeds that number, so an exchange that counted the
whole length has handed over the whole firmware.  `Owes` is what the
command may rely on at the return, by who disturbed the exchange: cuts in the status
line, a broken connection, an early timer, and over TLS a closed one that reads as 0.
`Calls` says how the frames lie on the stack: each exchange on its command, those
below the top waiting in a progress report, every command below another one marked.
`DigestInv` is about the only command that is not marked: its
digest is the file and what `fwrite` still keeps.  The two are inductive together
(TLC checked both on the instance of `ota_update` first).  `SuffixIs` turns "the digest ends
with the firmware" into `BodyIsRight`, and `UpgradedIsFirmware` needs in addition that a
command reports the upgrade only after its digest was compared with that of the version that
`handler` still names.

`RequestsAreRight` supposes that the buffers have room (`RequestsFit`: three places for each
character of a form, since one may be escaped as three, the form and the header for a POST, the path
and the host for the other requests); the code truncates silently where they do not.  TLC
evaluates it for the instance it runs (`BuffersAssumption` of `MCOtaUpdate`).  `HttpRequestAssumption`
says what a text, a url and a port are: no character of a text is one of the tokens that stand
for the fixed parts of a request, a host has no `:` and no `/`, a port is a number of
16 bits, a path begins with `/`.  `RequestInv` says that an exchange which has yet to write its
request has that of a device's form or that of the url `handler` names now: commands change
`handler` while exchanges wait, but only those whose request is written
(`SuspendedAsks`).  It is inductive relative to `TypeInv` and `DigestInv`.  That such a request
is read as it was meant (`RequestReaches`) is a matter of `HttpRequestProofs`:

* `RequestReads`: a request that fits is split by the server at the places where it was put
  together (`RequestReads`), the length in its header is that of its body.
* `SpelledParses`: `tc_iot_url_parse` takes a url apart into the parts it was spelled
  from, with a port or without, with TLS or without; no url of `Urls` is refused.
* `AuthFormIs`: the buffer of the form, filled field by field, holds the encoding of
  the form the server expects.  Each field is appended where the one before it ended, over the NUL
  that ended it (`Formed`, `Fills`); `SignedIs` gives the text that was signed.
* `DecodedIs`: decoding the encoding of a text gives the text.

The last is about recursions over texts of any length, on both sides.  `Coded(w, text)` says
that `w` encodes `text` without recursion: it is in every relation that contains the empty
texts and with two texts those with one character and its encoding added (`Coding`).  The
encoder keeps it by `LoopKeeps`; the decoder reads from the right, `RightExists` says that its
recursive function has values, and the texts that are decoded properly are such a relation.

TLC alone: all liveness properties (the prover has no fairness or
ENABLED); `BodyIsRight` and `UndisturbedSucceeds` for the password request; and the properties about texts and messages (`ReportsReadBack`,
`OrdersReadBack`, `GroupTextsReadBack`), whose tokeniser and search for names are
recursive operators over characters (out of the provers' reach).

## 5. What is not modelled, and what comes next

Not modelled, because nothing of the SDK's own logic is in it: vendored libraries
(mbedtls, paho; jsmn only as far as it is called), logging, certificates, the
arithmetic of digests and base64 (pure functions with test vectors in the repository),
the examples other than the main programs and handlers named above, the generic platform
stubs.  Not modelled although it has logic: UDP and DTLS sockets (`tc_iot_hal_udp.c`,
`tc_iot_hal_dtls.c`), whose callers see a datagram or none; activation and message queue calls
(`tc_iot_active_device.c`, `tc_iot_http_mqapi.c`), straight lines like the password request
over other fields; the url decoder, which nothing calls; `tc_iot_ota_report_firm`,
`tc_iot_ota_destroy` and commands without url or md5; `tc_iot_server_destroy`; the conversion of
numbers to text.

What the models take for granted at the edge of the code, because the code relies on it:
an HTTP body of known length is not ended by a NUL in the buffer when it fills it, and the
caller reads its length; a read that ends because the peer closed a TLS connection
returns 0, which counts as success; HEAD exchanges, writes that fail and callbacks that
refuse return without disconnecting (`ConnectionsReleased` leaves them out and says so);
`socket()` failing returns the rc of the address lookup; `do_download` never closes the
file when the firmware was there already.

Planned, in this order:

1. `Connection`, an abstract life cycle (closed, open, in session) that `MqttClient`
   implements (refinement checked and then proved step by step).
2. `AckMatching`: packet ids, ownership of readbuf by nested cycles and packet
   framing; `TopicMatch` against the MQTT definition of a filter.
3. Runs for the disagreements of section 3 that have none, the loops without a timer and the
   upgrade reported for another command first.
4. The password request as far as it comes in one piece, as a theorem; `HandlersSubscribed` for
   callbacks that unsubscribe.
