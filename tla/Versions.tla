------------------------------- MODULE Versions -------------------------------
(***************************************************************************)
(* internal/adapters/renovate/parser.go: what a run reads off the versions *)
(* of an update, and the range comparison internal/changelog has of its    *)
(* own.  A reference is a record                                           *)
(*   core    its numeric segments, <<>> when they are no version           *)
(*   pre     the identifiers of its prerelease suffix                      *)
(*   name    the text before the "@", for one that is no version           *)
(*   digest  what it is pinned to, NoDigest without a readable one         *)
(* An identifier of a suffix has the rank of its text and, when it is all  *)
(* digits, a number: TooBig beyond the width of an int.                    *)
(***************************************************************************)
EXTENDS Integers, Sequences, FiniteSetsExt

NoDigest == "none"
Word == -1
TooBig == -2

Identifier == [number : Nat \cup {Word, TooBig}, text : Int]
Reference ==
  [core : Seq(Nat), pre : Seq(Identifier), name : STRING, digest : STRING]

(* What parsing can leave of a reference that matters to its order.        *)
Readable(v) == v.core \in Seq(Nat) /\ v.pre \in Seq(Identifier)

(* Every number of its suffix is one an int holds. *)
Fits(v) == \A i \in DOMAIN v.pre : v.pre[i].number # TooBig

Sign(n) == IF n > 0 THEN 1 ELSE IF n < 0 THEN -1 ELSE 0

(* versionParts finds segments *)
Parses(v) == v.core # <<>>
(* partAt: omitted trailing segments are zeroes *)
PartAt(core, i) == IF i \in DOMAIN core THEN core[i] ELSE 0

(* Where two cores first differ, 0 when they do not. *)
Moved(a, b) ==
  LET differ == {i \in DOMAIN a \cup DOMAIN b : PartAt(a, i) # PartAt(b, i)}
  IN  IF differ = {} THEN 0 ELSE Min(differ)

CompareNumbers(a, b) ==
  LET i == Moved(a, b) IN IF i = 0 THEN 0 ELSE Sign(PartAt(a, i) - PartAt(b, i))

(* The order of two suffixes, given that of the identifiers they share.    *)
ComparePrerelease(a, b, order) ==
  LET decided == {i \in DOMAIN order : order[i] # 0}
  IN  IF a = <<>> \/ b = <<>> THEN Sign(Len(b) - Len(a))
      ELSE IF decided = {} THEN Sign(Len(a) - Len(b))
      ELSE order[Min(decided)]

(* compareIdentifier of the parser: digits too long for an int are compared*)
(* as text.                                                                *)
CompareIdentifier(a, b) ==
  LET numeric(id) == id.number # Word
  IN  IF numeric(a) # numeric(b) THEN IF numeric(a) THEN -1 ELSE 1
      ELSE IF numeric(a) /\ TooBig \notin {a.number, b.number}
        THEN Sign(a.number - b.number)
      ELSE Sign(a.text - b.text)

Newer(a, b) ==
  IF ~Parses(a) \/ ~Parses(b) THEN 0
  ELSE IF CompareNumbers(a.core, b.core) # 0 THEN CompareNumbers(a.core, b.core)
  ELSE ComparePrerelease(a.pre, b.pre,
         [i \in DOMAIN a.pre \cap DOMAIN b.pre |-> CompareIdentifier(a.pre[i], b.pre[i])])

(* Both sides are pinned, to different images of one tag. *)
Rebuilt(from, to) ==
  /\ NoDigest \notin {from.digest, to.digest} /\ from.digest # to.digest
  /\ ~Parses(from) \/ ~Parses(to) =>
       /\ from.core = to.core /\ from.pre = to.pre /\ from.name = to.name

(* A pair that went backwards is no class of upgrade. *)
CompareVersions(from, to) ==
  LET moved == Moved(from.core, to.core) IN
  IF ~Parses(from) \/ ~Parses(to) THEN IF Rebuilt(from, to) THEN "digest" ELSE "unknown"
  ELSE IF Newer(to, from) < 0 THEN "unknown"
  ELSE IF moved # 0 THEN IF moved = 1 THEN "major" ELSE IF moved = 2 THEN "minor" ELSE "patch"
  ELSE IF Len(from.core) # Len(to.core) THEN "patch"
  ELSE IF from.pre = to.pre /\ Rebuilt(from, to) THEN "digest"
  ELSE "unknown"

BumpSeverity(bump) ==
  [major |-> 4, minor |-> 3, patch |-> 2, digest |-> 1, unknown |-> 0][bump]

DeclaredOrStricter(declared, computed) ==
  IF computed = "unknown" \/ BumpSeverity(computed) > BumpSeverity(declared)
    THEN computed ELSE declared

(* The Update column: empty, a class, or a type that is none ("other").    *)
Declared == {"", "major", "minor", "patch", "digest", "other"}

BumpClass(from, to, declared) ==
  LET computed == CompareVersions(from, to) IN
  IF declared = "" THEN computed
  ELSE IF declared = "major" \/ (declared = "other" /\ computed = "major") THEN "major"
  ELSE IF declared = "other" THEN "unknown"
  ELSE DeclaredOrStricter(declared, computed)

(* majorOf: -1 for a target with no numeric major.  A name that only opens *)
(* with a number (1.x) has none here; it is on the line of that number in  *)
(* the code, where it can be ordered against nobody.                       *)
MajorOf(v) == IF Parses(v) THEN v.core[1] ELSE -1

-----------------------------------------------------------------------------
(* internal/changelog: the same order, written a second time. *)

(* A run of digits too long for an int is a word here. *)
CompareRangeIdentifier(a, b) ==
  LET fits(id) == id.number \notin {Word, TooBig}
  IN  IF fits(a) # fits(b) THEN IF fits(a) THEN -1 ELSE 1
      ELSE IF fits(a) THEN Sign(a.number - b.number)
      ELSE Sign(a.text - b.text)

Placed(a, b) == Parses(a) /\ Parses(b)
Compare(a, b) ==
  IF CompareNumbers(a.core, b.core) # 0 THEN CompareNumbers(a.core, b.core)
  ELSE ComparePrerelease(a.pre, b.pre,
         [i \in DOMAIN a.pre \cap DOMAIN b.pre |-> CompareRangeIdentifier(a.pre[i], b.pre[i])])

InRange(v, from, to) ==
  /\ Placed(v, from) /\ Compare(v, from) > 0
  /\ Placed(v, to) /\ Compare(v, to) <= 0
=============================================================================
