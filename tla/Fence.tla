------------------------------- MODULE Fence --------------------------------
(***************************************************************************)
(* internal/ai/toolbox.go and fence_publish.go: text that ops-pilot did    *)
(* not write reaches the model between markers that carry the identifier   *)
(* of the request.  A text is abstracted to the one thing these functions  *)
(* look for in it: nothing, a marker literal, or an identifier, which is   *)
(* the number of the request it was issued for.                            *)
(***************************************************************************)
EXTENDS Integers

VARIABLES
  live,      \* fenceNonceLive; those below it are fenceNonceRetired
  forgery    \* fenceForgery

Plain == 0
Literal == -1
Identifiers == 1..live
Known == {Plain, Literal} \cup Identifiers

FenceInit == live = 0 /\ forgery = FALSE

(* fenceNonceIssued, FenceForged and FenceMarkerWithoutIdentifier, when n   *)
(* identifiers have been issued.                                            *)
Issued(text, n) == text \in 1..n
FenceForged(text, n) == text = Literal \/ Issued(text, n)
FenceMarkerWithoutIdentifier(text, n) ==
  FenceForged(text, n) /\ ~Issued(text, n)

StripNonce(text, nonce) == IF text = nonce THEN Plain ELSE text

(* fence: what the model reads.                                             *)
Wrapped(text, nonce) == [tag |-> nonce, text |-> StripNonce(text, nonce)]

(* Whether wrapping a text counts as forgery: FenceData, and FenceRepoData   *)
(* and FenceSelfData, for which only an identifier does.                    *)
FenceData(text, n) == FenceForged(text, n)
(* Mutant of FenceRepoData: a marker in the repository counts too. *)
MutFenceRepoDataAsData(text, n) == FenceForged(text, n)
FenceRepoData(text, n) == Issued(text, n)
FenceSelfData(text, n) == Issued(text, n)

MaskFenceMarkers(text) == IF text = Literal THEN Plain ELSE text

StripFenceIdentifiers(text) == IF Issued(text, live) THEN Plain ELSE text
=============================================================================
