----------------------------- MODULE MCOtaUpdate -----------------------------
(* Model values for OtaUpdate. *)
EXTENDS OtaUpdate

MCFirmware == [v \in Versions |-> [i \in 1..5 |-> ToString(<<v, i>>)]]

MCTokenBody == <<"{", "password", "}">>
Ended == <<"CR", "LF">>
MCGoodResponses ==
  {OkHeader \o <<"3">> \o Ended \o Ended \o MCTokenBody,
   <<"HTTP", "200">> \o Ended \o <<"Transfer-Encoding", ":", "chunked">> \o Ended \o Ended
     \o <<"3">> \o Ended \o MCTokenBody \o Ended \o <<"0">> \o Ended \o Ended}
MCBadResponses ==
  {<<"HTTP", "404">> \o Ended \o Ended, OkHeader \o <<"20">> \o Ended \o Ended,
   <<"HTTP", "200">> \o Ended \o <<"Transfer-Encoding", ":", "chunked">> \o Ended \o Ended
     \o <<"15">> \o Ended \o [i \in 1..15 |-> "x"] \o Ended}

MCUrls ==
  {[secured |-> FALSE, host |-> <<"h">>, port |-> <<>>, path |-> <<"/", "f", "w">>],
   [secured |-> TRUE, host |-> <<"h">>, port |-> <<"8", "1">>, path |-> <<"/", "f", "?", "v">>]}
MCDevices ==
  {[secret |-> "k", client_id |-> <<"c", "_", "1">>, device_name |-> <<"d">>, product_id |-> <<"p">>],
   [secret |-> "&", client_id |-> <<" ", "=">>, device_name |-> <<"&", "%", "~">>, product_id |-> <<"/", "+">>]}

MCOneUrl == {[secured |-> FALSE, host |-> <<"h">>, port |-> <<>>, path |-> <<"/", "f", "w">>]}
MCOneDevice == {[secret |-> "k", client_id |-> <<"c">>, device_name |-> <<"d">>, product_id |-> <<"p">>]}

MCRefused == {<<"HTTP", "404">> \o Ended \o Ended}

\* What the theorem about requests supposes.
ASSUME BuffersAssumption == RequestsFit
=============================================================================
