---------------------------- MODULE MCMqttClient ----------------------------
(* MqttClient for TLC: the topics and the empty slot are model values, the *)
(* other constants are in the .cfg files.  Topics are interchangeable, so  *)
(* the safety runs use symmetry; the liveness runs do not.                 *)
EXTENDS MqttClient, TLC
CONSTANTS t1, t2, none
Symmetric == Permutations(Topics)
=============================================================================
