-------------------------- MODULE MCShadowSessions --------------------------
(* ShadowSessions for TLC: the constants are in the .cfg files.            *)
EXTENDS ShadowSessions

\* What the theorems about ids assume.
ASSUME IdsDiffer
=============================================================================
