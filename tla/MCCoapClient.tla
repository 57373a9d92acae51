---------------------------- MODULE MCCoapClient ----------------------------
(* CoapClient for TLC.                                                     *)
EXTENDS CoapClient

\* Values with the lengths at the edges of the forms a length has.
Text(n) == [i \in 1..n |-> (n + i) % 256]
OwnOptions ==
  {AuthOptions(Text(4)), RpcOptions(Text(6), Text(79), Text(13), Text(60))}
    \cup {PublishOptions(Text(6), Text(a), Text(b)) : a, b \in {0, 12, 13, 268}}
AppOptions ==
  {[i \in 1..3 |-> Option(numbers[i], Text(numbers[i] % 14))] : numbers \in [1..3 -> {3, 11, 15, 60}]}
MCRequests ==
  {[options |-> added, payload |-> Text(n)] : added \in OwnOptions \cup AppOptions, n \in {0, 20}}

\* The theorem about them is about these.
ASSUME RequestsAssumption == RequestsAreShort
=============================================================================
