----------------------------- MODULE MCChangelog -----------------------------
(* One project that tags plain releases, a release candidate, a build      *)
(* stamped onto a release, a component's prefixed tag and a codename.      *)
EXTENDS Changelog

Rc(n) == <<[number |-> Word, text |-> 9],
           [number |-> n, text |-> IF n = 10 THEN 1 ELSE 2]>>
Version(core, pre) == [core |-> core, pre |-> pre, name |-> "", digest |-> NoDigest]
Tag(name) == [core |-> <<>>, pre |-> <<>>, name |-> name, digest |-> NoDigest]
Pinned(v, d) == [v EXCEPT !.digest = d]
Plain(v) == [tag |-> v, embeds |-> {}]

Old == Version(<<1, 0, 0>>, <<>>)
Candidate == Version(<<1, 1, 0>>, Rc(2))
Middle == Version(<<1, 1, 0>>, <<>>)
Short == Version(<<1, 1>>, <<>>)
Stamped == Version(<<1, 1, 0, 7>>, <<>>)
Later == Version(<<1, 2, 0>>, <<>>)
Major == Version(<<2, 0, 0>>, <<>>)
(* 1.2.0-1.1.0: a version that hides another. *)
Paired ==
  LET digits(n) == [number |-> n, text |-> n - 1]
  IN  Version(<<1, 2, 0>>, <<digits(1), digits(1), digits(0)>>)

MCReleases ==
  {Plain(v) : v \in {Old, Candidate, Version(<<1, 1, 0>>, Rc(10)), Middle, Stamped, Later}}
    \cup {[tag |-> Tag("component"), embeds |-> {Middle}], Plain(Tag("codename")),
          [tag |-> Paired, embeds |-> {Middle}]}

Update(from, to, declared) == [from |-> from, to |-> to, declared |-> declared]
MCUpdates ==
  {Update(Old, to, "") : to \in {Middle, Short, Later, Tag("codename")}}
    \cup {Update(Middle, Old, "patch"), Update(Candidate, Middle, "minor"),
          Update(Old, Major, "minor"), Update(Tag("codename"), Middle, "patch"),
          Update(Middle, Major, "other"), Update(Short, Middle, "digest"),
          Update(Pinned(Middle, "a"), Pinned(Later, "b"), "digest"),
          Update(Pinned(Tag("latest"), "a"), Pinned(Tag("latest"), "b"), ""),
          Update(Pinned(Tag("latest"), "a"), Pinned(Tag("next"), "b"), "")}

Attribution(o, n, u, a) ==
  [override |-> o, notes |-> n, upstream |-> u, annotated |-> a]
MCAttributions ==
  {Attribution(TRUE, n, n, "none") : n \in {"none", "ours", "other"}}
    \cup {Attribution(FALSE, "ours", "ours", "none"),
          Attribution(FALSE, "none", "ours", "none"), Attribution(FALSE, "none", "ours", "other"),
          Attribution(FALSE, "none", "ours", "ours"), Attribution(FALSE, "none", "other", "ours")}
=============================================================================
