-------------------------- MODULE MCShadowProperty --------------------------
(* ShadowProperty and ShadowDocuments for TLC.                             *)
EXTENDS ShadowDocuments

CONSTANTS a, b

\* A property may have the name of one of the objects; one name begins with the other.
MCName == <<DESIRED, DESIRED \o <<50>>>>

\* Values with characters that are escaped, one without any, plain ones.
MCValueTexts == {(a :> <<34, 47>> @@ b :> <<10, 92, 117>>), (a :> <<>> @@ b :> <<101, 49>>),
                 (a :> <<195, 188>> @@ b :> <<123, 44, 93>>)}
MCLengths == 1..110
MCMethod == <<99, 233, 8364>>
=============================================================================
