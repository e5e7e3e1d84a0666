---------------------------- MODULE MCForgeClient ----------------------------
(* The schedule of internal/retry in seconds, rounded: 250 to 500ms after  *)
(* the first GET, one to two seconds after the second.                     *)
EXTENDS ForgeClient

MCDelays == <<{0, 1}, {1, 2}>>
=============================================================================
