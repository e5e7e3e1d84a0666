------------------------------ MODULE MergeCall ------------------------------
(***************************************************************************)
(* What merging a pull request promises mergeAndWatch (internal/run/run.go)*)
(* however often the client has to ask: the pull request is merged at most *)
(* once, at the head that was assessed, and of the four answers only       *)
(* "inDoubt" says nothing about the forge.  MergeAndRepair takes exactly   *)
(* these answers for its merge and its read-back.                          *)
(***************************************************************************)
CONSTANT Assessed   \* the head the pull request was assessed at

VARIABLES
  mergedAt,   \* set of at most one head: the one the pull request merged at
  ordered,    \* a merge asked for may still be carried out
  answer

vars == <<mergedAt, ordered, answer>>

Init == mergedAt = {} /\ ordered = FALSE /\ answer = "none"

Order ==
  /\ answer = "none" /\ ~ordered
  /\ ordered' = TRUE
  /\ UNCHANGED <<mergedAt, answer>>

(* Refused, or never received. *)
Drop == ordered /\ ordered' = FALSE /\ UNCHANGED <<mergedAt, answer>>

Land ==
  /\ ordered /\ mergedAt = {}
  /\ mergedAt' = {Assessed} /\ ordered' = FALSE
  /\ UNCHANGED answer

(* Somebody else merges it, at whatever its head is. *)
OthersMerge(head) ==
  /\ mergedAt = {} /\ mergedAt' = {head}
  /\ UNCHANGED <<ordered, answer>>

Answer ==
  /\ answer = "none"
  /\ \/ mergedAt # {} /\ answer' = "merged"
     \/ mergedAt = {} /\ answer' = "notMerged"
     \/ ~ordered /\ answer' = "headMoved"
     \/ answer' = "inDoubt"
  /\ UNCHANGED <<mergedAt, ordered>>

Next == Order \/ Drop \/ Land \/ Answer \/ \E head \in {Assessed, "later"} : OthersMerge(head)

Spec == Init /\ [][Next]_vars
=============================================================================
