------------------------------- MODULE Transport -------------------------------
(***************************************************************************)
(* The connections of src/platform/linux/tc_iot_hal_net.c and              *)
(* tc_iot_hal_tls.c: what a tc_iot_network_t holds of the system, a        *)
(* descriptor and the contexts of mbedTLS, after each way do_connect may   *)
(* end, and what do_disconnect gives back.  What flows over a connection   *)
(* is the matter of the modules that extend this one.                      *)
(***************************************************************************)
EXTENDS Integers, Sequences, FiniteSets

\* Results: lengths are positive; the errors that are told apart.
TC_IOT_SUCCESS == 0
TC_IOT_FAILURE == -90
BUFFER_OVERFLOW == -94
UNKNOWN_HOST == -101
CONNECT_FAILED == -102
SOCKET_FAILED == -103
SEND_PACK_FAILED == -104
NOTHING_READ == -105
READ_ERROR == -107
SEED_FAILED == -201
SETUP_ERRORS == -209..-205
HANDSHAKE_FAILED == -210

\* tc_iot_network_prepare: fd is "none", "open" or "closed"; contexts says whether those of
\* mbedTLS are allocated; session is "none", "begun" or "up"; connected is
\* net_context.is_connected.
Prepared(secured) ==
  [secured |-> secured, fd |-> "none", contexts |-> FALSE, session |-> "none", connected |-> FALSE]

\* tc_iot_hal_net_connect: the host is not known, no socket is left (the result is still that
\* of getaddrinfo), nobody answers, or there is a connection.
SocketConnects(net) ==
  {[rc |-> UNKNOWN_HOST, net |-> net],
   [rc |-> TC_IOT_SUCCESS, net |-> net],
   [rc |-> CONNECT_FAILED, net |-> [net EXCEPT !.fd = "open"]],
   [rc |-> TC_IOT_SUCCESS, net |-> [net EXCEPT !.fd = "open", !.session = "up", !.connected = TRUE]]}

\* tc_iot_hal_tls_connect: is_connected is set before the session is configured and the
\* handshake begins.  A handshake may be taken up again by the first write.
TlsConnects(net) ==
  LET begun == [net EXCEPT !.contexts = TRUE]
      reached == [begun EXCEPT !.fd = "open", !.connected = TRUE]
  IN  {[rc |-> r, net |-> begun] : r \in {SEED_FAILED, UNKNOWN_HOST, SOCKET_FAILED, CONNECT_FAILED}}
        \cup {[rc |-> r, net |-> reached] : r \in SETUP_ERRORS}
        \cup {[rc |-> HANDSHAKE_FAILED, net |-> [reached EXCEPT !.session = s]] : s \in {"none", "begun"}}
        \cup {[rc |-> TC_IOT_SUCCESS, net |-> [reached EXCEPT !.session = "up"]]}

Connects(net) == IF net.secured THEN TlsConnects(net) ELSE SocketConnects(net)

\* The session do_write finds, which fails without one: mbedtls_ssl_write goes on with a
\* handshake that was begun.
Writes(net) ==
  CASE net.session = "up" -> {net}
    [] net.session = "begun" -> {[net EXCEPT !.session = s] : s \in {"none", "up"}}
    [] net.session = "none" -> {net}

\* Mutant: the contexts of mbedTLS are kept.
DisconnectedKeepsContexts(net) ==
  [net EXCEPT !.session = "none", !.fd = IF @ = "open" THEN "closed" ELSE @,
              !.connected = IF net.secured THEN FALSE ELSE @]

\* tc_iot_hal_net_disconnect clears the pointer is_connected, not the flag, which stays;
\* tc_iot_hal_tls_disconnect frees the contexts and clears the flag.
Disconnected(net) ==
  [net EXCEPT !.session = "none", !.fd = IF @ = "open" THEN "closed" ELSE @,
              !.contexts = FALSE, !.connected = IF net.secured THEN FALSE ELSE @]

\* Nothing of the system is held.
Released(net) == net.fd # "open" /\ ~net.contexts
=============================================================================
