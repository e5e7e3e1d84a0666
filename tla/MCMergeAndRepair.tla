-------------------------- MODULE MCMergeAndRepair --------------------------
(* Two paths of which fixes may write one, two objects, and an interrupt.  *)
EXTENDS MergeAndRepair
CONSTANTS chart, values, app, job
MCPaths == {chart, values}
MCAllowed == {values}
MCObjects == {app, job}
MCMergeLost == {"merge", "revert"}
MCFixLost == {"merge", "fix", "revert"}
MCNone == {}
MCBlind == {"stalled"}
=============================================================================
