-------------------------------- MODULE Fix ---------------------------------
(***************************************************************************)
(* applyFixAt of internal/run/repair.go: an approved diff becomes a commit *)
(* on top of the head it was approved for, or is refused whole.            *)
(***************************************************************************)
EXTENDS Integers, Sequences, FiniteSets, SequencesExt, Patch, FixPaths

CONSTANTS Proposals   \* bound: the proposals considered, in families: a diff,
                      \* fixes.allowedPaths and the files at the head

ProposalsOK ==
  \A family \in DOMAIN Proposals : \A p \in Proposals[family] :
    /\ p.diff \in Seq([mark : STRING, text : STRING])
    /\ \A pattern \in p.patterns : pattern \in Seq(Seq(STRING))
    /\ \A path \in DOMAIN p.tree : p.tree[path] \in [lines : Seq(STRING), ended : BOOLEAN]

ASSUME FixAssumption == ProposalsOK

VARIABLES
  proposal, stage, sections,  \* the diff and its sections
  section,                    \* the section that is being looked at
  changes, commit             \* FileChanges, and what the forge has made of them
fixVars == <<proposal, stage, sections, section, changes, commit>>

FixInit ==
  /\ \E family \in DOMAIN Proposals : proposal \in Proposals[family]
  /\ stage = "parse" /\ sections = <<>> /\ section = 1
  /\ changes = <<>> /\ commit = <<>>

FileAt(path) ==
  IF path \in DOMAIN proposal.tree THEN proposal.tree[path] ELSE EmptyFile

Refuse ==
  /\ stage' = "refused"
  /\ UNCHANGED <<proposal, sections, section, changes, commit>>

(* patchPath and diffPaths.                                                 *)
PatchPath(file) == IF file.new # NoPath THEN file.new ELSE file.old
DiffPaths(file) == {file.old, file.new} \ {NoPath}

-----------------------------------------------------------------------------
ParseFix ==
  /\ stage = "parse"
  /\ LET parsed == Parse(proposal.diff)
     IN  IF parsed.ok
           THEN /\ sections' = parsed.files /\ stage' = "check"
                /\ UNCHANGED <<proposal, section, changes, commit>>
           ELSE Refuse

(* allowedFixPath, writablePath and notARename, for every path before       *)
(* anything is read.                                                        *)
NotARename(file) ==
  file.old = NoPath \/ file.new = NoPath \/ file.old = file.new

Admissible(file) ==
  /\ DiffPaths(file) # {} /\ NotARename(file)
  /\ \A path \in DiffPaths(file) :
       AllowsFixPath(proposal.patterns, path) /\ WritablePath(path)

CheckPaths ==
  /\ stage = "check"
  /\ IF \A k \in DOMAIN sections : Admissible(sections[k])
       THEN /\ stage' = "probe"
            /\ UNCHANGED <<proposal, sections, section, changes, commit>>
       ELSE Refuse

(* notABootstrapKustomization, for one section; a read may fail.            *)
Probed(file) == UNION {Probes(path) : path \in DiffPaths(file)}
Probe ==
  /\ stage = "probe"
  /\ \/ /\ \A p \in Probed(sections[section]) :
             /\ AllowsFixPath(proposal.patterns, p)
             /\ p \notin DOMAIN proposal.tree
        /\ IF section = Len(sections) THEN stage' = "apply" /\ section' = 1
                                   ELSE section' = section + 1 /\ UNCHANGED stage
        /\ UNCHANGED <<proposal, sections, changes, commit>>
     \/ /\ Probed(sections[section]) # {}
        /\ Refuse

(* One section against the file as it is at the head.                       *)
ApplyNext ==
  /\ stage = "apply"
  /\ LET file == sections[section]
         applied == Apply(FileAt(PatchPath(file)), file)
     IN  IF applied.ok
           THEN /\ changes' = Append(changes, [path |-> PatchPath(file),
                                               contents |-> applied.contents])
                /\ IF section = Len(sections)
                     THEN stage' = "commit" /\ UNCHANGED section
                     ELSE section' = section + 1 /\ UNCHANGED stage
                /\ UNCHANGED <<proposal, sections, commit>>
           ELSE Refuse

FileAtFails == stage = "apply" /\ Refuse

(* CreateCommit: a path occurs once.                                        *)
Acceptable ==
  \A i, k \in DOMAIN changes : changes[i].path = changes[k].path => i = k
CreateCommit ==
  /\ stage = "commit"
  /\ IF Acceptable
       THEN /\ commit' = changes /\ stage' = "committed"
            /\ UNCHANGED <<proposal, sections, section, changes>>
       ELSE Refuse

(* The head has moved, or the forge answers otherwise than it should.       *)
CommitFails == stage = "commit" /\ Refuse

Ended == stage \in {"refused", "committed"} /\ UNCHANGED fixVars

FixNext ==
  \/ ParseFix \/ CheckPaths \/ Probe \/ ApplyNext \/ FileAtFails
  \/ CreateCommit \/ CommitFails \/ Ended

FixSpec == FixInit /\ [][FixNext]_fixVars

-----------------------------------------------------------------------------
(* Properties. *)

(* Where a line is in a hunk, and the lines that change something. *)
InHunk(ls, i) ==
  \E h \in 1..(i - 1) :
    ls[h].mark = "@" /\ \A k \in (h + 1)..i : ~SectionStart(ls, k)
Change(l) == IF l.mark \in {"+", "-"} THEN <<l>> ELSE <<>>
Changes(lines) == FlattenSeq([k \in DOMAIN lines |-> Change(lines[k])])
ChangesIn(file) ==
  FlattenSeq([k \in DOMAIN file.hunks |-> Changes(file.hunks[k].lines)])

(* A diff that is read is read whole: what follows a hunk header, up to the *)
(* next section, loses no line that adds or removes, and nothing that       *)
(* stands elsewhere becomes a change.                                       *)
NoChangeIsLost ==
  stage \notin {"parse", "refused"} =>
    FlattenSeq([k \in DOMAIN sections |-> ChangesIn(sections[k])])
      = FlattenSeq([i \in DOMAIN proposal.diff |->
                      IF InHunk(proposal.diff, i) THEN Change(proposal.diff[i]) ELSE <<>>])

(* A reading of hunks against a file: the lines each is put on, which none  *)
(* shares with another, and what the file becomes.                          *)
HunkFits(old, hunk, at) == Before(hunk) # <<>> /\ Matches(old, Before(hunk), at)
Apart(hunks, place) ==
  \A g, h \in DOMAIN hunks : g # h =>
    \/ place[g] + Len(Before(hunks[g])) <= place[h]
    \/ place[h] + Len(Before(hunks[h])) <= place[g]
Readings(old, hunks) ==
  {place \in [DOMAIN hunks -> DOMAIN old] :
     Apart(hunks, place) /\ \A h \in DOMAIN hunks : HunkFits(old, hunks[h], place[h])}

Under(hunks, place, n) ==
  {h \in DOMAIN hunks : n \in place[h]..(place[h] + Len(Before(hunks[h])) - 1)}
Instead(old, hunks, place, n) ==
  CASE \E h \in DOMAIN hunks : place[h] = n ->
         After(hunks[CHOOSE h \in DOMAIN hunks : place[h] = n])
    [] /\ ~\E h \in DOMAIN hunks : place[h] = n
       /\ Under(hunks, place, n) # {} -> <<>>
    [] OTHER -> <<old[n]>>
Patched(old, hunks, place) ==
  FlattenSeq([n \in DOMAIN old |-> Instead(old, hunks, place, n)])

(* What is committed is what every reading of the diff against the file     *)
(* gives that puts its hunks on lines of their own: where a hunk could go   *)
(* to more than one place nothing is written.                               *)
FixIsNotAGuess ==
  \A c \in DOMAIN commit : \A k \in DOMAIN sections :
    PatchPath(sections[k]) = commit[c].path /\ ~Deleted(sections[k]) =>
      LET old == FileAt(commit[c].path).lines
          hunks == sections[k].hunks
      IN  \A place \in Readings(old, hunks) : \E ended \in BOOLEAN :
            commit[c].contents = Contents(Patched(old, hunks, place), ended)

(* How an operator reads an entry of the allowlist: cut says how far each   *)
(* element of the pattern reaches, a wildcard over any number, any other    *)
(* over one that it is.                                                     *)
Reaches(wild, alike, m, n, cut) ==
  /\ cut[0] = 0 /\ cut[m] = n
  /\ \A i \in 1..m :
       IF i \in wild THEN cut[i - 1] <= cut[i]
       ELSE cut[i] = cut[i - 1] + 1 /\ <<i, cut[i]>> \in alike
Stretches(wild, alike, m, n) ==
  \E cut \in [0..m -> 0..n] : Reaches(wild, alike, m, n, cut)
Spells(pattern, segment) ==
  Stretches(Stars(pattern), Alike(pattern, segment), Len(pattern), Len(segment))
Spelled(pattern, path) ==
  {c \in (DOMAIN pattern) \X (DOMAIN path) : Spells(pattern[c[1]], path[c[2]])}
Covers(pattern, path) ==
  Stretches(Globstars(pattern), Spelled(pattern, path), Len(pattern), Len(path))
Covered(path) ==
  \E pattern \in proposal.patterns : ValidPattern(pattern) /\ Covers(pattern, path)

(* A file that decides who may change the repository, or what the cluster   *)
(* reconciles from, among the files that are there: git and forge metadata, *)
(* the settings at the root, what Flux was bootstrapped with, and the       *)
(* kustomization of a directory it was bootstrapped into.                   *)
Governs(there, path) ==
  LET name == Last(path)
  IN  \/ \E k \in DOMAIN path : BeginsWith(path[k], ".git")
      \/ path \in GoverningPaths \/ name \in BootstrapFiles
      \/ BeginsWith(name, "gotk-") /\ \E k \in 1..(Len(path) - 1) : path[k] = FluxSystem
      \/ /\ name \in KustomizationNames
         /\ \/ Len(path) > 1 /\ path[Len(path) - 1] = FluxSystem
            \/ \E probe \in BootstrapProbes : Append(Front(path), probe) \in there

Touched == UNION {DiffPaths(sections[k]) : k \in DOMAIN sections}

(* What a fix writes, and what undoing it will restore, is covered by the   *)
(* allowlist as an operator reads it, and governs neither the repository    *)
(* that the fix was made for nor the one it makes: nothing whose name       *)
(* begins with .git, no settings, no gotk- file, and no kustomization in a  *)
(* flux-system directory or beside what Flux was bootstrapped with.         *)
FixStaysInBounds ==
  stage = "committed" =>
    \A path \in Touched :
      Covered(path) /\ ~Governs(DOMAIN proposal.tree \cup Touched, path)

(* A fix that is refused by its paths alone breaks a rule: the matchers,    *)
(* which go back to their last wildcard only, lose nothing that an operator *)
(* reads an entry to cover, and a directory that shares its name with the   *)
(* bootstrap directory keeps its ordinary files.                            *)
RefusedForAReason ==
  [][stage = "check" /\ stage' = "refused" =>
       \E k \in DOMAIN sections :
         \/ DiffPaths(sections[k]) = {} \/ ~NotARename(sections[k])
         \/ \E path \in DiffPaths(sections[k]) :
              ~Plain(path) \/ ~Covered(path) \/ Governs({}, path)]_fixVars
=============================================================================
