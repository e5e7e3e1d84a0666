------------------------------ MODULE FixPaths ------------------------------
(***************************************************************************)
(* internal/run/fixpath.go, internal/repopath and the allowlist of         *)
(* internal/config: which paths a fix may write.  A path is its segments,  *)
(* in lower case, and a segment its characters; a run of characters that   *)
(* no rule looks into is one of them.  The path "" has no segments.        *)
(***************************************************************************)
EXTENDS Integers, Sequences, SequencesExt

Star == "*"
Globstar == <<Star, Star>>
Dots == {<<".">>, <<".", ".">>}
BeginsWith(segment, prefix) == segment # <<>> /\ Head(segment) = prefix

(* repopath.Plain: leading, trailing and doubled slashes leave an empty     *)
(* segment.                                                                 *)
Plain(path) ==
  path # <<>> /\ \A k \in DOMAIN path : path[k] # <<>> /\ path[k] \notin Dots

(* validFixPathPattern: "**" is a segment of its own.                       *)
ValidPattern(pattern) ==
  /\ Plain(pattern)
  /\ \A k \in DOMAIN pattern : pattern[k] # Globstar =>
       \A i \in 1..(Len(pattern[k]) - 1) : SubSeq(pattern[k], i, i + 1) # Globstar

-----------------------------------------------------------------------------
(* The loop that matchPathSegments and matchSegment both are: m pattern     *)
(* elements against n others, where wild are the wildcards and fits the     *)
(* pairs that match.  In at, p and s are where the two are read, star and   *)
(* retry the last wildcard and the element it was last tried from.  No      *)
(* round follows the end, or an element that does not fit.                  *)

(* Mutant of Round: a wildcard is not tried again from a later element. *)
MutRoundFirstTry(wild, fits, n, at) ==
  CASE at.s <= n /\ <<at.p, at.s>> \in fits ->
         [p |-> at.p + 1, s |-> at.s + 1, star |-> at.star, retry |-> at.retry]
    [] at.s <= n /\ <<at.p, at.s>> \notin fits /\ at.p \in wild ->
         [p |-> at.p + 1, s |-> at.s, star |-> at.p, retry |-> at.s]
    [] at.s <= n /\ <<at.p, at.s>> \notin fits /\ at.p \notin wild /\ at.p = at.star + 1 ->
         [p |-> at.p, s |-> at.s + 1, star |-> at.star, retry |-> at.s + 1]
    [] OTHER -> at

Round(wild, fits, n, at) ==
  CASE at.s <= n /\ <<at.p, at.s>> \in fits ->
         [p |-> at.p + 1, s |-> at.s + 1, star |-> at.star, retry |-> at.retry]
    [] at.s <= n /\ <<at.p, at.s>> \notin fits /\ at.p \in wild ->
         [p |-> at.p + 1, s |-> at.s, star |-> at.p, retry |-> at.s]
    [] at.s <= n /\ <<at.p, at.s>> \notin fits /\ at.p \notin wild /\ at.star > 0 ->
         [p |-> at.star + 1, s |-> at.retry + 1, star |-> at.star, retry |-> at.retry + 1]
    [] OTHER -> at

(* Between two returns to a wildcard the pattern is read once at most, and  *)
(* each return is to a later element.                                       *)
Rounds(m, n) == (m + 1) * (n + 1)

Matching(wild, fits, m, n) ==
  LET at[k \in 0..Rounds(m, n)] ==
        IF k = 0 THEN [p |-> 1, s |-> 1, star |-> 0, retry |-> 0]
        ELSE Round(wild, fits, n, at[k - 1])
  IN  at[Rounds(m, n)]

Matched(wild, fits, m, n) ==
  LET end == Matching(wild, fits, m, n)
  IN  end.s > n /\ \A k \in end.p..m : k \in wild

(* In a segment a character is tried before the wildcard. *)
Stars(pattern) == {i \in DOMAIN pattern : pattern[i] = Star}
Alike(pattern, segment) ==
  {c \in (DOMAIN pattern) \X (DOMAIN segment) : pattern[c[1]] = segment[c[2]]}
MatchSegment(pattern, segment) ==
  Matched(Stars(pattern), Alike(pattern, segment), Len(pattern), Len(segment))

(* Mutant of MatchPathSegments: a "**" that is reached takes all the rest. *)
MutMatchPathSegmentsUpToTheEnd(pattern, path) ==
  \E k \in 0..Len(pattern) :
    /\ Len(path) = k \/ (k > 0 /\ pattern[k] = Globstar /\ Len(path) >= k)
    /\ \A i \in 1..k : pattern[i] = Globstar \/ MatchSegment(pattern[i], path[i])

(* In a path the wildcard is tried first. *)
Globstars(pattern) == {i \in DOMAIN pattern : pattern[i] = Globstar}
Fits(pattern, path) ==
  {c \in (DOMAIN pattern) \X (DOMAIN path) :
     pattern[c[1]] # Globstar /\ MatchSegment(pattern[c[1]], path[c[2]])}
MatchPathSegments(pattern, path) ==
  Matched(Globstars(pattern), Fits(pattern, path), Len(pattern), Len(path))

AllowsFixPath(patterns, path) ==
  /\ Plain(path)
  /\ \E pattern \in patterns : ValidPattern(pattern) /\ MatchPathSegments(pattern, path)

-----------------------------------------------------------------------------
Yaml == <<".", "yaml">>
Yml == <<".", "yml">>
KustomizationNames ==
  {<<"kustomization">> \o Yaml, <<"kustomization">> \o Yml,
   <<"kustomizeconfig">> \o Yaml, <<"kustomizeconfig">> \o Yml}
BootstrapProbes == {<<"gotk-", "sync">> \o Yaml, <<"gotk-", "components">> \o Yaml}
BootstrapFiles ==
  BootstrapProbes \cup {<<"gotk-", "sync">> \o Yml, <<"gotk-", "components">> \o Yml}
FluxSystem == <<"flux-system">>
GoverningPaths ==
  {<<<<"codeowners">>>>, <<<<"docs">>, <<"codeowners">>>>,
   <<<<"renovate", ".", "json">>>>, <<<<"renovate", ".", "json", "5">>>>,
   <<<<"package", ".", "json">>>>, <<<<".", "renovaterc">>>>,
   <<<<".", "renovaterc", ".", "json">>>>, <<<<".", "renovaterc", ".", "json", "5">>>>,
   <<<<"ops-pilot">> \o Yaml>>, <<<<"ops-pilot">> \o Yml>>}

BootstrapArtefact(path) ==
  /\ Len(path) >= 2
  /\ \/ /\ \E k \in DOMAIN Front(path) : path[k] = FluxSystem
        /\ BeginsWith(Last(path), "gotk-")
     \/ path[Len(path) - 1] = FluxSystem /\ Last(path) \in KustomizationNames

WritablePath(path) ==
  /\ Plain(path)
  /\ \A k \in DOMAIN path : ~BeginsWith(path[k], ".git")
  /\ ~BootstrapArtefact(path)
  /\ Last(path) \notin BootstrapFiles
  /\ path \notin GoverningPaths

(* notABootstrapKustomization: the siblings that tell.  *)
Probes(path) ==
  IF Last(path) \in KustomizationNames
    THEN {Append(Front(path), name) : name \in BootstrapProbes} ELSE {}
=============================================================================
