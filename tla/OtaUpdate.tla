------------------------------- MODULE OtaUpdate -------------------------------
(***************************************************************************)
(* The firmware update of examples/scenarios/ota with                      *)
(* src/ota/tc_iot_ota_download.c and tc_iot_ota_mqtt.c: the program asks   *)
(* for its MQTT password over HTTP, then waits for commands.  A command to *)
(* upgrade is reported, its version checked, the firmware downloaded to a  *)
(* file and its digest compared; each report is a QoS 1 publication in     *)
(* whose wait another command, or the same one again, may be processed.    *)
(* The file outlives the process.                                          *)
(*                                                                         *)
(* The process is one thread: `stack' holds its calls, the innermost       *)
(* first.  A digest is the sequence of the tokens it was computed from.    *)
(***************************************************************************)
EXTENDS HttpRequest

CONSTANTS
  Versions,         \* versions of the firmware the server may ask for
  Firmware,         \* Firmware[v]: the tokens of that version
  FirmVersion,      \* TC_IOT_FIRM_VERSION, a number
  GoodResponses,    \* responses to the request for a password that give one,
  TokenBody,        \* their body,
  BadResponses,     \* and responses that do not
  Schemes,          \* builds of the program: with TLS (TRUE), without (FALSE)
  Links,            \* what a disturbance makes of a connection: "closing", "dead", "up"
  TokenBufLen,      \* TC_IOT_HTTP_TOKEN_RESPONSE_LEN
  OtaBufLen,        \* TC_IOT_HTTP_OTA_REQUEST_LEN
  MaxFaults         \* bound: responses cut or refused, connections broken, timers expired early,
                    \* commands received within another, crashes

ASSUME OtaAssumption ==
  /\ Versions \subseteq Nat \ {0} /\ FirmVersion \in Nat /\ Schemes \subseteq BOOLEAN
  /\ {TokenBufLen, OtaBufLen, MaxFaults} \subseteq Nat /\ OtaBufLen >= 3
  /\ Links \subseteq {"closing", "dead", "up"}
  /\ \A v \in Versions : /\ Firmware[v] \in Seq(Range(Firmware[v]))
                          /\ Len(Firmware[v]) \in (OtaBufLen + 1)..MaxNumber

VARIABLES
  stack,            \* frames of the calls in progress
  main,             \* where run_mqtt is: "off", "token" or "yield"
  handler,          \* the last command: its version, with the md5, and its url
  file,             \* file[v]: what the file named v holds
  outcome,          \* outcome[v]: what the server was told of version v
  faults            \* how many there were

\* tc_iot_ota_construct
NoCommand == [version |-> 0, url |-> <<>>]

vars == <<stack, main, handler, file, outcome, faults>>

Top == Head(stack)
Below == stack[2]
Step(frame) == stack' = <<frame>> \o Tail(stack)
Call(caller, frame) == stack' = <<frame, caller>> \o Tail(stack)
ReturnTo(caller) == stack' = <<caller>> \o Tail(Tail(stack))

-----------------------------------------------------------------------------
(* Exchanges.                                                              *)

Performs == stack # <<>> /\ Top.fn = "perform"

\* A connection that is not made is a fault of the network.
Connect ==
  /\ Performs /\ Top.pc = "connect"
  /\ \E c \in Connects(Top.net) :
       /\ c.net.session = "up" \/ faults < MaxFaults
       /\ faults' = IF c.net.session = "up" THEN faults ELSE faults + 1
       /\ Step(Connected(Top, c))
  /\ UNCHANGED <<main, handler, file, outcome>>

Write ==
  /\ Performs /\ Top.pc = "write"
  /\ \E net \in Writes(Top.net) : Step(Written(Top, net))
  /\ UNCHANGED <<main, handler, file, outcome, faults>>

\* A short timer of 100 ms that ends with nothing read changes nothing.
Read ==
  /\ Performs /\ Reading(Top)
  /\ \E f \in AfterRead(Top, faults < MaxFaults) :
       /\ f.cuts = Top.cuts \/ faults < MaxFaults
       /\ faults' = IF f.cuts = Top.cuts THEN faults ELSE faults + 1
       /\ Step(f)
  /\ UNCHANGED <<main, handler, file, outcome>>

\* The timer of the exchange, which only the header waits for: it may be late, not the server.
Expire ==
  /\ Performs /\ Top.pc = "header" /\ ~Top.expired
  /\ LET stalled == Top.link = "up" /\ Top.wire = <<>>
     IN  /\ stalled \/ faults < MaxFaults
         /\ faults' = IF stalled THEN faults ELSE faults + 1
  /\ Step([Top EXCEPT !.expired = TRUE])
  /\ UNCHANGED <<main, handler, file, outcome>>

Break ==
  /\ Performs /\ Reading(Top) /\ Top.link = "up" /\ ~Top.disturbed /\ faults < MaxFaults
  /\ \E l \in Links, k \in 0..Len(Top.wire) : Step(Broken(Top, l, k))
  /\ faults' = faults + 1
  /\ UNCHANGED <<main, handler, file, outcome>>

-----------------------------------------------------------------------------
(* The program: main, run_mqtt and the request for a password.             *)

\* _refresh_token: tc_iot_refresh_auth_token posts its form.
Start ==
  /\ main = "off"
  /\ \E response \in GoodResponses \cup BadResponses, s \in Schemes, d \in Devices :
       /\ response \in GoodResponses \/ faults < MaxFaults
       /\ faults' = IF response \in GoodResponses THEN faults ELSE faults + 1
       /\ stack' = <<Perform(TokenRequest[d][s], FALSE, response, TokenBufLen), [fn |-> "token"]>>
  /\ main' = "token"
  /\ UNCHANGED <<handler, file, outcome>>

\* tc_iot_refresh_auth_token parses the string in the buffer, whatever its length, and skips
\* what follows the object.  Without a password the connection is refused and main returns.
TokenReturns ==
  /\ Len(stack) = 2 /\ Top.fn = "returned" /\ Below.fn = "token"
  /\ main' = IF Top.received >= 0 /\ IsPrefix(TokenBody, Text(Top.buffer)) THEN "yield" ELSE "off"
  /\ stack' = <<>>
  /\ UNCHANGED <<handler, file, outcome, faults>>

-----------------------------------------------------------------------------
(* _on_ota_message_received and do_download.                               *)

\* digest: helper.md5_context; pending: what fwrite has not yet given to the file; version:
\* the name of the file; start: partial_start.  History: nested, whether another command was
\* processed meanwhile.
Command == [fn |-> "command", pc |-> "received", version |-> 0, digest |-> <<>>, pending |-> <<>>,
            start |-> 0, percent |-> 0, nested |-> FALSE]

\* tc_iot_ota_report_upgrade waits for the acknowledgement of its publication.
Reporting(f) == \/ f.fn = "command" /\ f.pc \in {"received", "checked", "refused", "progress",
                                                 "matched", "differs", "upgrading"}
                \/ f.fn = "perform" /\ f.pc = "reporting"

\* A command is received by the loop of main, or while a report waits.
Receive ==
  /\ main = "yield"
  /\ IF stack = <<>> THEN UNCHANGED faults
     ELSE Reporting(Top) /\ faults < MaxFaults /\ faults' = faults + 1
  /\ \E v \in Versions, u \in Urls :
       /\ outcome[v] = "none"
       /\ handler' = [version |-> v, url |-> u]
       /\ stack' = <<Command>> \o
            [i \in DOMAIN stack |-> IF stack[i].fn = "command" THEN [stack[i] EXCEPT !.nested = TRUE]
                                    ELSE stack[i]]
  /\ UNCHANGED <<main, file, outcome>>

\* tc_iot_ota_version_larger: 0 is no version.
VersionLarger(mine, their) == mine # 0 /\ their # 0 /\ mine > their

\* tc_iot_ota_format_message: the state and the message of the report a command waits for.
Report(f) ==
  CASE f.pc = "received" -> <<"OTA_COMMAND_RECEIVED", "success">>
    [] f.pc = "checked" -> <<"OTA_VERSION_CHECK", "success">>
    [] f.pc = "refused" -> <<"OTA_VERSION_CHECK", "version check failed">>
    [] f.pc = "progress" -> <<"OTA_DOWNLOAD", "0">>
    [] f.pc = "matched" -> <<"OTA_MD5_CHECK", "success">>
    [] f.pc = "differs" -> <<"OTA_MD5_CHECK", "md5 not match">>
    [] f.pc = "upgrading" -> <<"OTA_UPGRADING", "success">>

\* What follows a report, acknowledged or not.
Follows(f) ==
  CASE f.pc = "received" -> IF VersionLarger(handler.version, FirmVersion) THEN "checked" ELSE "refused"
    [] f.pc = "checked" -> "progress"
    [] f.pc = "progress" -> "open"
    [] f.pc = "matched" -> "upgrading"
    [] f.pc \in {"refused", "differs", "upgrading"} -> "end"

\* What the server concludes from a report.
Concluded(report, before) ==
  CASE report[1] = "OTA_UPGRADING" -> "upgrading"
    [] report[1] = "OTA_VERSION_CHECK" /\ report[2] # "success" -> "refused"
    [] OTHER -> before

\* tc_iot_ota_report_upgrade returns; its publication may be lost, and the report carries the
\* ota_id of the last command.
ReportReturns ==
  /\ stack # <<>> /\ Top.fn = "command" /\ Top.pc # "open" /\ Reporting(Top)
  /\ IF Follows(Top) = "end" THEN stack' = Tail(stack) ELSE Step([Top EXCEPT !.pc = Follows(Top)])
  /\ \/ /\ outcome' = [outcome EXCEPT ![handler.version] = Concluded(Report(Top), @)]
        /\ UNCHANGED faults
     \/ /\ faults < MaxFaults /\ faults' = faults + 1
        /\ UNCHANGED outcome
  /\ UNCHANGED <<main, handler, file>>

OkHeader == <<"HTTP", "200", "CR", "LF", "Content-Length", ":">>
Responded(v) == OkHeader \o <<ToString(Len(Firmware[v])), "CR", "LF", "CR", "LF">>

\* do_download opens the file, takes the digest of what it holds and asks for the length of
\* the firmware (tc_iot_ota_request_content_length).
Open ==
  /\ stack # <<>> /\ Top.fn = "command" /\ Top.pc = "open"
  /\ LET v == handler.version
     IN  Call([Top EXCEPT !.pc = "head", !.version = v, !.digest = file[v], !.start = Len(file[v])],
              Perform(UrlRequest["HEAD"][handler.url], FALSE, Responded(v), OtaBufLen))
  /\ UNCHANGED <<main, handler, file, outcome, faults>>

\* strcmp of the digest with handler->firmware_md5.
Compared(d) == [d EXCEPT !.pc = IF d.digest = Firmware[handler.version] THEN "matched" ELSE "differs"]

\* tc_iot_ota_download: the whole firmware is requested, whatever partial_start.
Download ==
  Perform(UrlRequest["GET"][handler.url], TRUE,
          Responded(handler.version) \o Firmware[handler.version], OtaBufLen)

\* Mutant: the digest starts anew, the file does not.
HeadReturnsKeepsFile ==
  /\ Len(stack) > 1 /\ Top.fn = "returned" /\ Below.fn = "command" /\ Below.pc = "head"
  /\ LET length == IF Top.received < 0 THEN Top.received ELSE Top.parser.length
         d == IF length < Below.start THEN [Below EXCEPT !.digest = <<>>, !.start = 0] ELSE Below
     IN  IF length = Below.start
         THEN ReturnTo(Compared(Below))
         ELSE stack' = <<Download, [d EXCEPT !.pc = "get"]>> \o Tail(Tail(stack))
  /\ UNCHANGED <<main, handler, file, outcome, faults>>

\* A length is compared with that of the file: the same means that all was downloaded, a
\* smaller one, or an error, that the file starts anew.
HeadReturns ==
  /\ Len(stack) > 1 /\ Top.fn = "returned" /\ Below.fn = "command" /\ Below.pc = "head"
  /\ LET length == IF Top.received < 0 THEN Top.received ELSE Top.parser.length
         anew == length < Below.start
         d == IF anew THEN [Below EXCEPT !.digest = <<>>, !.start = 0] ELSE Below
     IN  IF length = Below.start
         THEN /\ ReturnTo(Compared(Below))
              /\ UNCHANGED file
         ELSE /\ file' = IF anew THEN [file EXCEPT ![Below.version] = <<>>] ELSE file
              /\ stack' = <<Download, [d EXCEPT !.pc = "get"]>> \o Tail(Tail(stack))
  /\ UNCHANGED <<main, handler, outcome, faults>>

\* my_http_download_callback: the piece is written, which the C library may keep until fclose,
\* and digested; its length is counted twice.
Percent(f) == (100 * (f.received + Len(f.given))) \div f.parser.length
Reports(f, percent) == percent = 100 \/ percent > Below.percent + 10

Callback ==
  /\ Performs /\ Top.pc = "called"
  /\ LET percent == Percent(Top)
         written == Below.pending \o Top.given
         d == [Below EXCEPT !.digest = @ \o Top.given,
                            !.percent = IF Reports(Top, percent) THEN percent ELSE @]
         f == IF Reports(Top, percent) THEN [Top EXCEPT !.pc = "reporting"] ELSE CallbackReturns(Top)
     IN  \/ /\ stack' = <<f, [d EXCEPT !.pending = written]>> \o Tail(Tail(stack))
            /\ UNCHANGED file
         \/ /\ stack' = <<f, [d EXCEPT !.pending = <<>>]>> \o Tail(Tail(stack))
            /\ file' = [file EXCEPT ![d.version] = @ \o written]
  /\ UNCHANGED <<main, handler, outcome, faults>>

ProgressReported ==
  /\ Performs /\ Top.pc = "reporting"
  /\ Step(CallbackReturns(Top))
  /\ UNCHANGED <<main, handler, file, outcome, faults>>

\* tc_iot_ota_download returned: anything but TC_IOT_SUCCESS ends the command.
GetReturns ==
  /\ Len(stack) > 1 /\ Top.fn = "returned" /\ Below.fn = "command" /\ Below.pc = "get"
  /\ file' = [file EXCEPT ![Below.version] = @ \o Below.pending]
  /\ IF Top.received = TC_IOT_SUCCESS
     THEN ReturnTo(Compared([Below EXCEPT !.pending = <<>>]))
     ELSE stack' = Tail(Tail(stack))
  /\ UNCHANGED <<main, handler, outcome, faults>>

-----------------------------------------------------------------------------
\* The process ends, by a crash or a signal: what was not written to the files is lost.
Crash ==
  /\ main # "off" /\ faults < MaxFaults
  /\ main' = "off" /\ stack' = <<>> /\ handler' = NoCommand
  /\ faults' = faults + 1
  /\ UNCHANGED <<file, outcome>>

Init ==
  /\ stack = <<>> /\ main = "off" /\ handler = NoCommand
  /\ file = [v \in Versions |-> <<>>]
  /\ outcome = [v \in Versions |-> "none"] /\ faults = 0

Progress ==
  \/ Connect \/ Write \/ Read \/ Start \/ TokenReturns
  \/ ReportReturns \/ Open \/ HeadReturns \/ Callback \/ ProgressReported \/ GetReturns

Next ==
  \/ Progress \/ Receive \/ Expire \/ Break \/ Crash

Spec == Init /\ [][Next]_vars

\* The process runs, its timers expire, and the server repeats a command.
FairSpec == Spec /\ WF_vars(Progress) /\ WF_vars(Expire) /\ WF_vars(Receive)
-----------------------------------------------------------------------------
TypeOK ==
  /\ main \in {"off", "token", "yield"} /\ handler.version \in Versions \cup {0}
  /\ outcome \in [Versions -> {"none", "upgrading", "refused"}] /\ faults \in 0..MaxFaults
  /\ DOMAIN file = Versions
  /\ \A v \in Versions : \A i \in DOMAIN file[v] : file[v][i] \in Range(Firmware[v])

\* What a successful exchange hands over is the whole body, however the response was cut:
\* the password in the buffer, the firmware through the callback.
BodyIsRight ==
  stack # <<>> /\ Top.fn = "returned" /\ Top.received >= 0 /\ Top.parser.sound
    /\ ~Top.expired /\ ~(Top.secured /\ Top.disturbed)
  => CASE Top.method = "POST" -> IsPrefix(TokenBody, Top.buffer)
       [] Top.method = "HEAD" -> Top.parser.length = Len(Firmware[Below.version])
       [] Top.method = "GET" -> IsSuffix(Firmware[Below.version], Below.digest)

\* Where a read may not end: within the status line, and within the last chunk.
Harmless(f) == f.cuts \cap 1..2 = {} /\ (f.parser.chunked => f.wire = <<>>)

\* An exchange that nothing disturbed succeeds, wherever its response was cut.
UndisturbedSucceeds ==
  stack # <<>> /\ Top.fn = "returned" /\ Top.parser.sound
    /\ ~Top.disturbed /\ ~Top.expired /\ Harmless(Top) /\ Top.whole \notin BadResponses
  => Top.received >= 0 /\ (Top.method = "GET" => Top.received = TC_IOT_SUCCESS)

\* When a command reports the upgrade its file is the firmware of that command, unless
\* another command was processed within it.
UpgradedIsFirmware ==
  stack # <<>> /\ Top.fn = "command" /\ Top.pc = "upgrading" /\ ~Top.nested
  => handler.version = Top.version /\ file[Top.version] = Firmware[Top.version]

\* The servers read what the device means to ask: the form with a signature that verifies,
\* the path of the url from its host.
RequestIsRight ==
  Performs /\ Top.pc \in {"connect", "write"} =>
    \E asked \in {ServerReads(Top.request.text)} :
      /\ asked.whole /\ asked.method = Top.method
      /\ CASE Top.method = "POST" -> Decoded(asked.body) = FormOf(Top.request.device)
           [] OTHER -> /\ asked.path = handler.url.path /\ asked.host = handler.url.host
                       /\ Top.request.port = PortOf(handler.url) /\ Top.secured = handler.url.secured

\* An exchange that got through gives its connection back, unless it asked for a length only.
ConnectionsReleased ==
  stack # <<>> /\ Top.fn = "returned" /\ Top.received # SEND_PACK_FAILED /\ Top.method # "HEAD"
  => Released(Top.net)

Newer == {v \in Versions : VersionLarger(v, FirmVersion)}

\* The file has the length of the firmware and not its content.
Stuck(v) == Len(file[v]) = Len(Firmware[v]) /\ file[v] # Firmware[v]
\* The loops of the body have no timer, and that of the chunks reads nothing into a full buffer.
Hung == /\ Performs
        /\ \/ Top.pc \in {"callback", "identity", "chunk"} /\ Top.link = "up" /\ Top.wire = <<>>
           \/ Top.pc = "chunk" /\ Top.received = Size(Top)

\* However it is disturbed, the device upgrades in the end, unless it is stuck or hung.
UpgradeEnds == \A v \in Newer : <>(outcome[v] # "none" \/ Stuck(v) \/ Hung)

\* After a disturbance the download is resumed, and the upgrade succeeds.
OtaSucceeds == \A v \in Newer : <>(outcome[v] # "none")
=============================================================================
