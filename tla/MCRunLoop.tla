----------------------------- MODULE MCRunLoop -----------------------------
(* Up to three pull requests for one chart: a release candidate, its       *)
(* release, the next major, a rebuild that cannot be ordered against the   *)
(* release, and one on a values file shared with another deployment; and   *)
(* one ending of each kind that the loop tells apart.                      *)
EXTENDS RunLoop
CONSTANTS MaxListed, chart, release, otherRelease, values

Version(core, pre, digest) ==
  [core |-> core, pre |-> pre, name |-> "", digest |-> digest]
Rc == <<[number |-> Word, text |-> 9], [number |-> 1, text |-> 1]>>
Offer(version, files) ==
  [aside |-> FALSE, name |-> chart, version |-> version, files |-> files]

MCCandidates ==
  {Offer(Version(<<1, 2, 0>>, Rc, NoDigest), {release}),
   Offer(Version(<<1, 2, 0>>, <<>>, NoDigest), {release, values}),
   Offer(Version(<<1, 1>>, <<>>, NoDigest), {otherRelease, values}),
   Offer(Version(<<1, 2>>, <<>>, "digest"), {release}),
   Offer(Version(<<2, 0, 0>>, <<>>, NoDigest), {release})}

QueuesOf(candidates) ==
  {s \in UNION {[1..n -> candidates] : n \in 0..MaxListed} : IsInjective(s)}
(* Release candidates numbered by what they were built at: 9, 10, and the  *)
(* twenty digits of a timestamp, which begin with a 2.                     *)
Build(number, text) ==
  Offer(Version(<<1, 2, 0>>, <<[number |-> number, text |-> text]>>, NoDigest), {release})
MCBuildListings == QueuesOf({Build(10, 1), Build(TooBig, 2), Build(9, 9)})
MCListings == QueuesOf(MCCandidates) \cup MCBuildListings

MCOutcomes ==
  {Ending("merged", FALSE, "merged"),
   Ending("reverted", FALSE, "merged"), Ending("error", TRUE, "merged"),
   Ending("error", FALSE, "underway")}
=============================================================================
