------------------------------ MODULE Changelog ------------------------------
(***************************************************************************)
(* internal/changelog over the releases of internal/adapters/github: which *)
(* release notes an update is assessed with, and whether the run holds the *)
(* update because some may be missing (applyHolds, bumpHoldReason).  One   *)
(* upstream publishes releases, in any order; the other only answers its   *)
(* lookup.                                                                 *)
(***************************************************************************)
EXTENDS Versions, FiniteSets, SequencesExt

CONSTANTS
  Releases,       \* bound: what may be published, [tag, embeds]
  Updates,        \* bound: the updates, [from, to, declared]
  Attributions,   \* bound: what names an upstream for one of them
  MaxReleases,    \* bound: releases published
  PageBudget      \* releases the listing reads at most (maxReleasePages)

Repositories == {"ours", "other"}

ASSUME ChangelogAssumption ==
  /\ MaxReleases \in Nat /\ PageBudget \in Nat \ {0}
  /\ \A r \in Releases : r.tag \in Reference /\ r.embeds \subseteq Reference
  /\ \A u \in Updates : {u.from, u.to} \subseteq Reference /\ u.declared \in Declared
  /\ \A a \in Attributions :
       {a.notes, a.upstream, a.annotated} \subseteq Repositories \cup {"none"}

VARIABLES
  history,        \* the releases of the upstream, newest first
  update,
  override,       \* an override names the upstream for this dependency
  notes,          \* the pull request's own notes: none, or whose they are
  upstream,       \* the repository the pull request names, or "none"
  annotated,      \* the one the image names, or "none"
  pc,
  source, repository, served  \* the changelog: its source, where, which releases

given == <<update, override, notes, upstream, annotated>>
result == <<source, repository, served>>
vars == <<history, given, pc, result>>

NoVersion == [core |-> <<>>, pre |-> <<>>, name |-> "", digest |-> NoDigest]
NoUpdate == [from |-> NoVersion, to |-> NoVersion, declared |-> ""]
Lookups == {"missing", "failed", "incomplete", "resolved"}
Sources == {"notFound", "overrideEmpty", "incomplete", "unreadable", "body", "releases", "none"}

Init ==
  /\ history = <<>> /\ update = NoUpdate /\ override = FALSE
  /\ notes = "none" /\ upstream = "none" /\ annotated = "none"
  /\ pc = "publish"
  /\ source = "none" /\ repository = "none" /\ served = <<>>

Publish ==
  /\ pc = "publish" /\ Len(history) < MaxReleases
  /\ \E r \in Releases \ ToSet(history) : history' = <<r>> \o history
  /\ UNCHANGED <<given, pc, result>>

-----------------------------------------------------------------------------
(* The releases of one repository, judged against the range.               *)

(* Client.Releases: newest first, up to the page budget. *)
Truncated(releases) == Len(releases) > PageBudget
Listing(releases) ==
  SubSeq(releases, 1, IF Truncated(releases) THEN PageBudget ELSE Len(releases))

(* versionCandidates: what a tag may hide behind a prefix. *)
Candidates(r) == r.embeds \cup (IF Parses(r.tag) THEN {r.tag} ELSE {})

(* Mutant of EmbeddedVersionInRange: a tag that does not parse is no release.*)
MutNothingEmbedded(r, from, to) == FALSE

EmbeddedVersionInRange(r, from, to) ==
  \E v \in Candidates(r) : InRange(v, from, to)

(* extendsToPrefix: a build revision stamped onto the target. *)
ExtendsTo(tag, to) ==
  /\ Placed(tag, to) /\ Len(tag.core) > Len(to.core)
  /\ \A i \in DOMAIN to.core : tag.core[i] = to.core[i]

FullVersion(v) == Len(v.core) >= 3

ReachableByRange(r, from, to) ==
  \/ InRange(r.tag, from, to) \/ ExtendsTo(r.tag, to)
  \/ EmbeddedVersionInRange(r, from, to)

(* The start of the range is listed, what is above it falls in order, and  *)
(* nothing the range reaches lies below.                                   *)
AccountsForRange(listing, from, to) ==
  \E anchor \in DOMAIN listing :
    /\ \A i \in 1..anchor :
         /\ Placed(listing[i].tag, from)
         /\ (Compare(listing[i].tag, from) = 0) <=> (i = anchor)
         /\ i > 1 => Compare(listing[i].tag, listing[i - 1].tag) <= 0
    /\ \A i \in (anchor + 1)..Len(listing) : ~ReachableByRange(listing[i], from, to)

(* Between.  The positions the range selects ... *)
Selected(listing, from, to) ==
  {i \in DOMAIN listing : InRange(listing[i].tag, from, to)}

(* ... whether they reach the target (selectionReachesTo) ... *)
ReachesTo(listing, selected, to) ==
  \E i \in selected : Compare(listing[i].tag, to) = 0 \/ listing[i].tag = to

(* ... those stamped with a build above it ... *)
ExcludedTargets(listing, from, to) ==
  {i \in DOMAIN listing :
     /\ Placed(listing[i].tag, from) /\ Compare(listing[i].tag, from) > 0
     /\ ~InRange(listing[i].tag, from, to) /\ ExtendsTo(listing[i].tag, to)}

(* ... and the tags nobody can place that leave a hole. *)
Hole(listing, selected, from, to) ==
  \E i \in DOMAIN listing :
    /\ ~Parses(listing[i].tag)
    /\ \/ Min(selected) < i /\ i < Max(selected)
       \/ EmbeddedVersionInRange(listing[i], from, to)
       \/ i < Min(selected) /\ ~ReachesTo(listing, selected, to)

(* Nothing is in the range: the tag that is spelled as the target is.      *)
ExactTarget(listing, from, to) ==
  LET exact == {i \in DOMAIN listing : listing[i].tag = to}
  IN  IF exact = {} THEN [complete |-> TRUE, releases |-> <<>>]
      ELSE IF Placed(to, from) /\ Compare(to, from) < 0
        THEN [complete |-> FALSE, releases |-> <<>>]
      ELSE [complete |-> TRUE, releases |-> <<listing[Min(exact)]>>]

(* The releases at some positions, in the order of the listing. *)
Nth(positions, k) ==
  CHOOSE i \in positions : Cardinality({j \in positions : j <= i}) = k
At(listing, positions) ==
  [k \in 1..Cardinality(positions) |-> listing[Nth(positions, k)]]

Between(listing, from, to) ==
  LET selected == Selected(listing, from, to)
      stamped == ExcludedTargets(listing, from, to)
      recovers == ~ReachesTo(listing, selected, to) /\ stamped # {}
      ambiguous == Cardinality(stamped) > 1 \/ ~FullVersion(to)
  IN  IF selected = {} THEN ExactTarget(listing, from, to)
      ELSE [complete |-> ~Hole(listing, selected, from, to) /\ ~(recovers /\ ambiguous),
            releases |-> (IF recovers THEN At(listing, stamped) ELSE <<>>)
                           \o At(listing, selected)]

(* fromReleases *)
Lookup(releases) ==
  LET listing == Listing(releases)
      between == Between(listing, update.from, update.to)
  IN  IF Truncated(releases) /\ ~AccountsForRange(listing, update.from, update.to)
        THEN [outcome |-> "failed", releases |-> <<>>]
      ELSE IF listing = <<>> THEN [outcome |-> "missing", releases |-> <<>>]
      ELSE IF ~between.complete THEN [outcome |-> "incomplete", releases |-> <<>>]
      ELSE IF between.releases = <<>> THEN [outcome |-> "missing", releases |-> <<>>]
      ELSE [outcome |-> "resolved", releases |-> between.releases]

(* Our upstream may be unreadable; the other one answers anything.         *)
Answers(name) ==
  {[outcome |-> o, releases |-> <<>>] : o \in IF name = "ours" THEN {"failed"} ELSE Lookups}
    \cup (IF name = "ours" THEN {Lookup(history)} ELSE {})

-----------------------------------------------------------------------------
(* Resolve *)

Resolved(from, where, releases) ==
  /\ source' = from /\ repository' = where /\ served' = releases
  /\ pc' = "done"

(* Renovate opens the pull request; what is tried first is the operator's  *)
(* override, then the notes the body carries.                              *)
Raise ==
  /\ pc = "publish"
  /\ update' \in Updates
  /\ \E a \in Attributions :
       /\ override' = a.override /\ notes' = a.notes
       /\ upstream' = a.upstream /\ annotated' = a.annotated
  /\ IF override' THEN pc' = "override" /\ UNCHANGED result
     ELSE IF notes' # "none" THEN Resolved("body", upstream', <<>>)
     ELSE pc' = "upstream" /\ source' = "notFound" /\ UNCHANGED <<repository, served>>
  /\ UNCHANGED history

(* The override is never passed over for what it exists to correct; notes  *)
(* attributed to the repository it names are its own.                      *)
ReadOverride ==
  /\ pc = "override"
  /\ \E answer \in Answers("ours") :
       IF answer.outcome = "resolved" THEN Resolved("releases", "ours", answer.releases)
       ELSE IF notes = "ours" THEN Resolved("body", upstream, <<>>)
       ELSE Resolved("overrideEmpty", "none", <<>>)
  /\ UNCHANGED <<history, given>>

Fallback(from, where) ==
  source' = from /\ repository' = where /\ UNCHANGED served

ReadUpstream ==
  /\ pc = "upstream"
  /\ IF upstream = "none" THEN pc' = "annotation" /\ UNCHANGED result
     ELSE \E answer \in Answers(upstream) :
            IF answer.outcome = "resolved" THEN Resolved("releases", upstream, answer.releases)
            ELSE /\ pc' = "annotation"
                 /\ Fallback([missing |-> "notFound", incomplete |-> "incomplete",
                              failed |-> "unreadable"][answer.outcome], upstream)
  /\ UNCHANGED <<history, given>>

(* Mutant of Weaker: the last upstream read has the last word. *)
MutWeakerNever(outcome) == FALSE

(* What the second upstream says less of than the first. *)
Weaker(outcome) ==
  \/ outcome = "missing" /\ source # "notFound"
  \/ outcome = "incomplete" /\ source = "unreadable"

(* The image may name no source, or a registry not be readable; one that   *)
(* was read already is not read again.                                     *)
ReadAnnotation ==
  /\ pc = "annotation"
  /\ \/ UNCHANGED result /\ pc' = "done"
     \/ /\ annotated \notin {"none", repository}
        /\ \E answer \in Answers(annotated) :
             IF answer.outcome = "resolved"
               THEN Resolved("releases", annotated, answer.releases)
             ELSE /\ pc' = "done"
                  /\ IF Weaker(answer.outcome) THEN UNCHANGED result
                     ELSE Fallback([missing |-> "notFound", incomplete |-> "incomplete",
                                    failed |-> "unreadable"][answer.outcome], annotated)
  /\ UNCHANGED <<history, given>>

Finished == pc = "done" /\ UNCHANGED vars

Next ==
  \/ Publish \/ Raise \/ ReadOverride \/ ReadUpstream \/ ReadAnnotation
  \/ Finished

Spec == Init /\ [][Next]_vars

-----------------------------------------------------------------------------
(* What the run holds the update on (bumpHoldReason, applyHolds). *)
BumpHeld(u) == BumpClass(u.from, u.to, u.declared) \in {"major", "unknown"}

(* The versions a release is read as: its tag, or what is hidden in one    *)
(* that is none.                                                           *)
ReadAs(r) == IF Parses(r.tag) THEN {r.tag} ELSE r.embeds

(* Published before the release the range starts at, below the cut of a    *)
(* listing that shows that one: the only gap a listing leaves.             *)
BelowTheCut(i) ==
  /\ i > PageBudget
  /\ \E j \in 1..PageBudget :
       Placed(history[j].tag, update.from) /\ Compare(history[j].tag, update.from) = 0

(* An update that the run itself does not hold, and whose notes were read  *)
(* from our upstream, is assessed with every release of the range: each one*)
(* with a readable version, prefixed or not, the build stamped onto the    *)
(* target, and no tag nobody can place between two of them (Between).       *)
UnheldIsInformed ==
  pc = "done" /\ source = "releases" /\ repository = "ours" /\ ~BumpHeld(update) =>
    /\ \A i \in DOMAIN history :
         (\E v \in ReadAs(history[i]) : InRange(v, update.from, update.to)) =>
           history[i] \in ToSet(served) \/ BelowTheCut(i)
    /\ \A i \in DOMAIN history :
         ExtendsTo(history[i].tag, update.to) /\ Compare(history[i].tag, update.to) > 0 =>
           \/ BelowTheCut(i)
           \/ \E r \in ToSet(served) :
                Placed(r.tag, update.to) /\ Compare(r.tag, update.to) >= 0
    /\ LET ranged == {i \in 1..PageBudget \cap DOMAIN history :
                        InRange(history[i].tag, update.from, update.to)}
       IN  \A i, k \in ranged : \A j \in i..k : Parses(history[j].tag)

(* "Not found" lets the update merge on the agent's own search: it is never*)
(* said when an upstream that was read lists a release of the range, held  *)
(* or not, whatever the other upstream answered.                           *)
SilenceIsEarned ==
  pc = "done" /\ source = "notFound" /\ upstream = "ours" =>
    \A i \in DOMAIN history :
      InRange(history[i].tag, update.from, update.to) => BelowTheCut(i)

(* What the run lets the agent decide alone goes forward within a major, or*)
(* is a rebuild of the same tag, whatever the pull request's table says.   *)
UnheldIsBounded ==
  pc # "publish" /\ ~BumpHeld(update) =>
    \/ /\ Newer(update.to, update.from) >= 0 /\ MajorOf(update.to) = MajorOf(update.from)
       /\ Parses(update.from)
    \/ /\ NoDigest \notin {update.from.digest, update.to.digest}
       /\ [update.to EXCEPT !.digest = update.from.digest] = update.from
=============================================================================
