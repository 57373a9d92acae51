---------------------------- MODULE MCSubDevice ----------------------------
(* GroupTexts, and with it SubDevice, for TLC: the other constants are in the .cfg file. *)
EXTENDS GroupTexts

OneProduct == <<"A", "A">>

CONSTANTS a, b

\* Device, property and number 1 have the same text.
TheTexts == [method |-> <<109, 101>>, sub_dev |-> <<115, 100>>, product |-> <<112>>,
             device_list |-> <<108>>, dev_name |-> <<100>>, sequence |-> <<113>>,
             sign |-> <<103>>, state |-> <<116>>, reported |-> <<114>>, desired |-> <<119>>,
             timestamp |-> <<55>>, nonce |-> <<56>>, metadata |-> <<57>>,
             passthrough |-> <<104>>, sid |-> <<105>>, A |-> <<65>>]
            @@ ("0" :> <<48>>) @@ ("1" :> <<49>>) @@ ("2" :> <<50>>)

\* Values with characters that are escaped, plain ones.
TheValues == {(a :> <<120>>) @@ (b :> <<>>), (a :> <<92, 34>>) @@ (b :> <<93, 125>>)}
TheLengths == 2..125
=============================================================================
