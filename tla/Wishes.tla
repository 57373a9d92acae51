-------------------------------- MODULE Wishes --------------------------------
(***************************************************************************)
(* What the data synchronisation of the SDK promises about control         *)
(* instructions, without copies, bits, sequence numbers or messages: a     *)
(* value the server wants a property to have is taken back by a            *)
(* confirmation only after the device has had that value.  ShadowProperty  *)
(* is shown to implement this specification.                               *)
(***************************************************************************)
CONSTANTS
  Props,      \* properties of the device
  Values,     \* values of a property
  None        \* no value is wanted, none of Values

VARIABLES
  device,     \* value each property has
  wish,       \* value the server wants it to have, or None
  met         \* properties whose present wish has been fulfilled at some time

vars == <<device, wish, met>>

Fulfilled(d, w) == {p \in Props : d[p] = w[p]}

Init ==
  /\ device \in [Props -> Values]
  /\ wish \in [Props -> Values \cup {None}]
  /\ met = Fulfilled(device, wish)

\* The device changes, by itself or because it was told to.
Change ==
  /\ device' \in [Props -> Values]
  /\ met' = met \cup Fulfilled(device', wish)
  /\ UNCHANGED wish

Make(p, v) ==
  /\ wish' = [wish EXCEPT ![p] = v]
  /\ met' = IF device[p] = v THEN met \cup {p} ELSE met \ {p}
  /\ UNCHANGED device

\* Only wishes that were met are taken back.
Clear(props) ==
  /\ props \subseteq met
  /\ wish' = [p \in Props |-> IF p \in props THEN None ELSE wish[p]]
  /\ UNCHANGED <<device, met>>

Next ==
  \/ Change
  \/ \E p \in Props, v \in Values : Make(p, v)
  \/ \E props \in SUBSET Props : Clear(props)

Spec == Init /\ [][Next]_vars
=============================================================================
