--------------------------- MODULE MCAttendedRun ---------------------------
(* Sessions: texts of every kind before one question over a script, and    *)
(* every short script, or a keyboard, under two questions.  Proposals:     *)
(* every short diff as a model may write it, every pair of small hunks     *)
(* against every small file, and paths of every class.                     *)
EXTENDS AttendedRun

Up(s, n) == UNION {[1..k -> s] : k \in 0..n}

-----------------------------------------------------------------------------
(* What texts are made of: a word, the question, a configured value and    *)
(* parts of it, credentials, blanks, control sequences, one cut short, a  *)
(* character of two bytes and half of one.                                 *)
Pieces ==
  {<<"x">>, <<"?">>, <<"s", "t">>, <<"s">>, <<"=", "x">>, <<"=", " ">>, <<":", "x">>,
   <<" ">>, <<"\n">>,
   <<"ESC", "[", "x">>, <<"ESC", "]", "x", "ESC", "ST">>, <<"ESC">>,
   <<"c3", "a9">>, <<"c3">>}
Sayings == {FlattenSeq(ps) : ps \in Up(Pieces, 2)}
           \cup {FlattenSeq(<<<<"x">>, p, <<"s", "t">>>>) : p \in Pieces}
MCSecrets == {<<"s", "t">>}

(* A value that ends as it begins, and a turn that says it. *)
MCOverlapping == {<<"s", "t", "s">>}

MCLines ==
  {<<"y", "\n">>, <<"\n">>, <<"j", "j", "j", "\n">>, <<"EOF">>,
   <<"w", "EOF">>}

Saying(aloud) ==
  [interactive : {TRUE}, screen : {TRUE}, keyboard : {FALSE},
   script : {<<"y", "\n">>}, texts : {<<t>> : t \in aloud},
   questions : {<<"clarify">>}]
Watched == Saying(Sayings)
MCOverlap == Saying({<<"x", "s", "t", "s">>})
Scripted == [interactive : {TRUE}, screen : {FALSE}, keyboard : {FALSE},
             script : Up({"y", "j", "\n"}, 6), texts : {<<>>},
             questions : {<<"revert", "fix">>, <<"revert", "clarify">>}]
Keyboard(texts, questions) ==
  [interactive : {TRUE}, screen : {TRUE}, keyboard : {TRUE}, script : {<<>>},
   texts : texts, questions : questions]
Typed ==
  Keyboard({<<<<"x", "?">>>>}, {<<"clarify", "fix">>, <<"revert", "fix">>})
    \cup Keyboard({<<<<"x">>, <<"?">>>>, <<<<"x">>, <<>>>>}, {<<"clarify">>})
Alone == [interactive : {FALSE}, screen : BOOLEAN, keyboard : BOOLEAN,
          script : {<<>>}, texts : {<<<<"x">>>>},
          questions : {<<"clarify", "fix", "revert">>}]
Quiet == [interactive : BOOLEAN, screen : {TRUE}, keyboard : {FALSE},
           script : {<<>>}, texts : {<<>>}, questions : {<<>>}]
Approving == [interactive : {TRUE}, screen : {FALSE}, keyboard : {FALSE},
              script : {<<"y", "\n">>}, texts : {<<>>}, questions : {<<"fix">>}]
MCSessions == Watched \cup Scripted \cup Typed \cup Alone \cup Quiet \cup Approving

-----------------------------------------------------------------------------
F == <<<<"f">>>>
Apps == <<"apps">>
X == <<"x">>
AppYaml == <<"app">> \o Yaml
Kustomization == <<"kustomization">> \o Yaml
Named == [f |-> F, dev |-> <<>>, app |-> <<Apps, X, AppYaml>>,
          twice |-> <<Apps, X, AppYaml \o Yaml>>, kus |-> <<Apps, X, Kustomization>>,
          gotk |-> <<Apps, X, <<"gotk-", "sync">> \o Yaml>>,
          flux |-> <<FluxSystem, Kustomization>>, deep |-> <<FluxSystem, X, AppYaml>>,
          own |-> <<FluxSystem, X, Kustomization>>,
          patch |-> <<FluxSystem, X, <<"gotk-", "patch">>>>,
          git |-> <<<<".git", "hub">>, X>>, renovate |-> <<<<"renovate", ".", "json">>>>,
          below |-> <<Apps, <<"renovate", ".", "json">>>>,
          up |-> <<Apps, <<".", ".">>, X>>, apps |-> <<Apps>>]
MCOldNames == [t \in {"-- " \o n : n \in DOMAIN Named} |->
                 Named[CHOOSE n \in DOMAIN Named : t = "-- " \o n]]
MCNewNames == [t \in {"++ " \o n : n \in DOMAIN Named} |->
                 Named[CHOOSE n \in DOMAIN Named : t = "++ " \o n]]
L(mark, written) == DiffLine(mark, written)
Header == <<L("-", "-- f"), L("+", "++ f")>>
Hunk == L("@", "")

Read == {BlankLine, L(" ", "a"), L("-", "a"), L("+", "b"), L("-", "--"), L("-", "-- f"),
         L("+", "++ f"), Hunk, L("d", ""), L("p", ""), L("\\", "")}
Whole == [lines |-> <<"a", "b">>, ended |-> TRUE]
Anywhere == {<<Globstar>>}
Written ==
  {[diff |-> Header \o <<Hunk>> \o body \o end, patterns |-> Anywhere,
    tree |-> F :> Whole] : body \in Up(Read, 4), end \in {<<>>, <<BlankLine>>}}

Hunks == {<<L(" ", "a"), L("+", "b")>>, <<L("-", "a")>>, <<L("-", "b"), L("+", "a")>>,
          <<L(" ", "a"), L("-", "b")>>, <<L("-", "b"), L(" ", "b")>>,
          <<L("+", "a")>>, <<L("-", "a"), L("\\", "")>>,
          <<L(" ", "a"), L("+", ""), L("\\", "")>>}
Applied ==
  {[diff |-> Header \o <<Hunk>> \o one \o <<Hunk>> \o two, patterns |-> Anywhere,
    tree |-> F :> Contents(lines, ended)] :
      one \in Hunks, two \in Hunks, lines \in Up({"a", "b"}, 4), ended \in BOOLEAN}
Section(old, new) ==
  <<L("-", "-- " \o old), L("+", "++ " \o new), Hunk, L("-", "a"), L("+", "b")>>
Pairs == {<<n, n>> : n \in DOMAIN Named} \cup {<<n, "dev">> : n \in DOMAIN Named}
           \cup {<<"app", "kus">>}
Anything == <<Star>>
Patterns ==
  {{<<Globstar>>}, {<<Apps, Globstar>>}, {<<Apps, Anything, Anything>>}, {<<Apps, Anything, Kustomization>>},
   {<<Globstar, X, Anything>>}, {<<Apps, Globstar, X, Globstar>>}, {<<Anything, Anything>>, F},
   {<<Globstar, <<Star>> \o Yaml>>, F}, {<<Globstar, <<"kustomization", ".", Star>>>>, F},
   {<<Globstar, <<Star, ".", Star, ".", "yaml">>>>, F},
   {<<Apps, Globstar, Globstar \o Yaml>>, F}, {}}
Trees == {{"f", "app", "kus", "apps"}, {"f", "app", "kus", "gotk", "deep"}}
Located ==
  {[diff |-> Section(one[1], one[2]) \o Section(two[1], two[2]), patterns |-> patterns,
    tree |-> [path \in {Named[n] : n \in names} |-> Whole]] :
      one \in Pairs, two \in {<<"f", "f">>, <<"kus", "kus">>, <<"app", "app">>},
      patterns \in Patterns, names \in Trees}
Usual == {[diff |-> Section("f", "f"), patterns |-> Anywhere, tree |-> F :> Whole]}
MCProposals == <<Usual, Written, Applied, Located>>
=============================================================================
