-------------------------------- MODULE Queue --------------------------------
(***************************************************************************)
(* internal/run/queue.go: which of the listed pull requests are older      *)
(* offers of an update another one carries.  A candidate is a record with  *)
(*   aside    a label, or a body that declares no single update, skips it  *)
(*   name     the dependency it updates                                   *)
(*   version  its target, a reference of Versions                          *)
(*   files    paths it rewrites, {} when unread or empty                   *)
(* and the queue is a sequence of candidates in the order of the listing.  *)
(***************************************************************************)
EXTENDS Versions

(* Never for versions that cannot be ordered. *)
Supersedes(a, b) == Newer(a.version, b.version) > 0

Comparable(a, b) == Newer(a.version, b.version) # 0 \/ Newer(b.version, a.version) # 0

(* versionLine, supersessionLine *)
Line(c) == <<c.name, MajorOf(c.version)>>

(* Mutant of Nests: a shared file is taken for a shared deployment. *)
MutNestsOverlap(a, b) == a.files \cap b.files # {}

(* oneFileSetContainsTheOther *)
Nests(a, b) ==
  /\ a.files # {} /\ b.files # {}
  /\ a.files \subseteq b.files \/ b.files \subseteq a.files

OnLine(queue, line) == {i \in DOMAIN queue : ~queue[i].aside /\ Line(queue[i]) = line}

(* The first candidate of a line that no later one displaces, or 0. *)
Newest(queue, line) ==
  LET best[i \in 0..Len(queue)] ==
        IF i = 0 THEN 0
        ELSE IF /\ i \in OnLine(queue, line)
                /\ best[i - 1] # 0 => Supersedes(queue[i], queue[best[i - 1]])
               THEN i
        ELSE best[i - 1]
  IN  best[Len(queue)]

(* One candidate that cannot be ordered against the newest spares them all.*)
Unorderable(queue, line) ==
  \E i \in OnLine(queue, line) \ {Newest(queue, line)} :
    ~Comparable(queue[i], queue[Newest(queue, line)])

(* markSuperseded *)
Superseded(queue) ==
  {i \in DOMAIN queue :
     LET newest == Newest(queue, Line(queue[i]))
     IN  /\ ~queue[i].aside /\ i # newest
         /\ ~Unorderable(queue, Line(queue[i]))
         /\ Nests(queue[i], queue[newest])}

(* Two offers of one major of the same dependency, for the same deployment.*)
Rivals(a, b) ==
  /\ ~a.aside /\ ~b.aside /\ a.name = b.name
  /\ Parses(a.version) /\ Parses(b.version)
  /\ a.version.core[1] = b.version.core[1]
  /\ a.files # {} /\ b.files # {}
  /\ a.files \subseteq b.files \/ b.files \subseteq a.files

(* What makes a pull request one that another replaces: a rival with a     *)
(* strictly newer release.                                                 *)
ReplacedBy(old, new) == Rivals(old, new) /\ Compare(new.version, old.version) > 0
=============================================================================
