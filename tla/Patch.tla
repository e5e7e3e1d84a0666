------------------------------- MODULE Patch --------------------------------
(***************************************************************************)
(* internal/patch: a unified diff the model wrote, read line by line and   *)
(* applied to a file.  A line of the diff is its first character and the   *)
(* rest; half of a file header is also how a removal of "-- x", or an      *)
(* addition of "++ x", is spelled.                                         *)
(***************************************************************************)
EXTENDS Integers, Sequences, FiniteSets, SequencesExt

CONSTANTS
  OldNames,   \* what follows the "-" of a "--- " line, and the path it names
  NewNames    \* what follows the "+" of a "+++ " line, and the path it names

NamesOK ==
  /\ \A t \in DOMAIN OldNames : OldNames[t] \in Seq(Seq(STRING))
  /\ \A t \in DOMAIN NewNames : NewNames[t] \in Seq(Seq(STRING))

ASSUME NamesAssumption == NamesOK

(* "@" begins a hunk header, "d" "diff --git", "\\" the marker of a missing *)
(* newline, "p" is prose; a blank line has no first character.              *)
DiffLine(mark, text) == [mark |-> mark, text |-> text]
BlankLine == DiffLine("", "")
Context == DiffLine(" ", "")
NoPath == <<>>

IsOld(l) == l.mark = "-" /\ l.text \in DOMAIN OldNames
IsNew(l) == l.mark = "+" /\ l.text \in DOMAIN NewNames
InBody(l) == l.mark \in {" ", "+", "-"}
DashRule(l) == l.mark = "-" /\ l.text = "--"
Malformed(l) == l.text = "malformed"

-----------------------------------------------------------------------------
(* What surrounds a line. *)

HeaderPair(ls, i) ==
  /\ i \in DOMAIN ls /\ i + 1 \in DOMAIN ls
  /\ IsOld(ls[i]) /\ IsNew(ls[i + 1])

SectionStart(ls, i) ==
  \/ ls[i].mark \in {"@", "d"}
  \/ HeaderPair(ls, i) /\ i + 2 \in DOMAIN ls /\ ls[i + 2].mark = "@"

OrphanedFileHeader(ls, i) ==
  \/ IsNew(ls[i]) /\ ~HeaderPair(ls, i - 1)
  \/ IsOld(ls[i]) /\ ~HeaderPair(ls, i)

(* Mutant of BodyContinues: only the very next line is looked at. *)
MutBodyContinuesNext(ls, from) ==
  from \in DOMAIN ls /\ InBody(ls[from]) /\ ~SectionStart(ls, from)

(* bodyContinues: a line of the body comes before the next section. *)
BodyContinues(ls, from) ==
  \E i \in from..Len(ls) :
    /\ InBody(ls[i]) \/ ls[i].mark = "\\"
    /\ \A k \in from..i : ~SectionStart(ls, k)

BlankIsContext(ls, body, i) ==
  \/ BodyContinues(ls, i + 1)
  \/ body # <<>> /\ i < Len(ls) /\ \A k \in (i + 1)..Len(ls) : ls[k] = BlankLine

BlankSplitsAChange(ls, body, i) ==
  /\ body # <<>> /\ Last(body).mark = "-"
  /\ \E j \in (i + 1)..Len(ls) :
       /\ \A k \in (i + 1)..(j - 1) : ls[k] = BlankLine
       /\ ls[j].mark \in {"+", "-"}
       /\ ~SectionStart(ls, j) /\ ~OrphanedFileHeader(ls, j)

-----------------------------------------------------------------------------
(* Parse, line by line: reading is "outer" between hunks, "body" inside one    *)
(* and "skip" when a line has been read with the one before it.             *)

NoHunk == [lines |-> <<>>, unended |-> {}]
Fresh == [files |-> <<>>, current |-> FALSE, hunk |-> NoHunk,
          reading |-> "outer", dropped |-> FALSE, err |-> FALSE]
Refused(st) == [st EXCEPT !.err = TRUE]

Texts(body, marks) ==
  FlattenSeq([k \in DOMAIN body |->
                IF body[k].mark \in marks THEN <<body[k].text>> ELSE <<>>])

(* hunkSides. *)
Before(hunk) == Texts(hunk.lines, {" ", "-"})
After(hunk) == Texts(hunk.lines, {" ", "+"})

(* checkHunkCounts: a hunk has a body and changes something. *)
EndHunk(st) ==
  IF st.reading # "body" THEN st
  ELSE IF Before(st.hunk) = After(st.hunk) THEN Refused(st)
  ELSE [st EXCEPT !.reading = "outer", !.hunk = NoHunk,
                  !.files[Len(st.files)].hunks = Append(@, st.hunk)]

FileSection(old, new) ==
  [old |-> OldNames[old.text], new |-> NewNames[new.text], hunks |-> <<>>]
Created(file) == file.old = NoPath
Deleted(file) == file.new = NoPath

Outer(ls, st, i) ==
  CASE st.err -> st
    [] ~st.err /\ HeaderPair(ls, i) ->
         [st EXCEPT !.files = Append(@, FileSection(ls[i], ls[i + 1])),
                    !.current = TRUE, !.reading = "skip"]
    [] ~st.err /\ ~HeaderPair(ls, i) /\
         (IsOld(ls[i]) \/ IsNew(ls[i]) \/ ls[i].mark = "d") ->
         [st EXCEPT !.current = FALSE]
    [] ~st.err /\ ls[i].mark = "@" ->
         IF ~st.current \/ Malformed(ls[i]) THEN Refused(st)
                                            ELSE [st EXCEPT !.reading = "body"]
    [] OTHER -> st

(* markNoNewline: the sides of the line before that lack a newline. *)
Unended(hunk) ==
  IF hunk.lines = <<>> THEN hunk
  ELSE [hunk EXCEPT !.unended = @ \cup
          CASE Last(hunk.lines).mark = " " -> {"before", "after"}
            [] Last(hunk.lines).mark = "-" -> {"before"}
            [] OTHER -> {"after"}]

Body(ls, st, i) ==
  LET l == ls[i]
      more == BodyContinues(ls, i + 1)
      orphan == OrphanedFileHeader(ls, i)
      taken(line) == [st EXCEPT !.hunk.lines = Append(@, line)]
  IN  CASE SectionStart(ls, i) -> Outer(ls, EndHunk(st), i)
        [] ~SectionStart(ls, i) /\ orphan ->
             IF more THEN Refused(st)
                     ELSE Outer(ls, EndHunk([st EXCEPT !.dropped = TRUE]), i)
        [] l.mark = "\\" -> [st EXCEPT !.hunk = Unended(@)]
        [] l = BlankLine ->
             CASE ~BlankIsContext(ls, st.hunk.lines, i) -> EndHunk(st)
               [] /\ BlankIsContext(ls, st.hunk.lines, i)
                  /\ BlankSplitsAChange(ls, st.hunk.lines, i) -> Refused(st)
               [] OTHER -> taken(Context)
        [] l # BlankLine /\ ~InBody(l) /\ l.mark \notin {"\\", "@", "d"} ->
             IF more THEN Refused(st) ELSE EndHunk(st)
         [] ~SectionStart(ls, i) /\ DashRule(l) /\ ~orphan /\ ~more -> Refused(st)
        [] OTHER -> taken(l)

ParseLine(ls, st, i) ==
  CASE st.err -> st
    [] ~st.err /\ st.reading = "skip" -> [st EXCEPT !.reading = "outer"]
    [] ~st.err /\ st.reading = "outer" -> Outer(ls, st, i)
    [] OTHER -> Body(ls, st, i)

ReadLines(ls) ==
  LET read[i \in 0..Len(ls)] ==
        IF i = 0 THEN Fresh ELSE ParseLine(ls, read[i - 1], i)
  IN  read

(* A section without a hunk is refused unless it creates or deletes.        *)
EndRead(st) == IF st.err THEN st ELSE EndHunk(st)
Sectioned(st) ==
  [files |-> st.files,
   ok |-> /\ ~st.err /\ ~st.dropped /\ st.files # <<>>
          /\ \A k \in DOMAIN st.files :
               st.files[k].hunks # <<>> \/ Created(st.files[k]) \/ Deleted(st.files[k])]
Parse(ls) == Sectioned(EndRead(ReadLines(ls)[Len(ls)]))

-----------------------------------------------------------------------------
(* Apply. *)

(* A file: its lines, and whether the last one is ended.  A newline at the  *)
(* end of no line at all ends a blank one.                                  *)
Contents(lines, ended) ==
  CASE lines = <<>> /\ ended -> [lines |-> <<"">>, ended |-> TRUE]
    [] lines # <<>> /\ Last(lines) = "" /\ ~ended ->
         [lines |-> Front(lines), ended |-> Len(lines) > 1]
    [] OTHER -> [lines |-> lines, ended |-> ended]
EmptyFile == Contents(<<>>, FALSE)
NoFile == [lines |-> <<>>, ended |-> TRUE]

Matches(lines, before, at) ==
  /\ at + Len(before) - 1 <= Len(lines)
  /\ \A k \in DOMAIN before : lines[at + k - 1] = before[k]

(* Mutant of Locate: the first place will do. *)
MutLocateFirst(lines, before) ==
  LET fits == {at \in DOMAIN lines : Matches(lines, before, at)}
  IN  IF before = <<>> THEN IF lines = <<>> THEN {1} ELSE {}
      ELSE {at \in fits : \A other \in fits : at <= other}

(* locate: every place a hunk fits; it is applied where there is just one.  *)
Locate(lines, before) ==
  IF before = <<>> THEN IF lines = <<>> THEN {1} ELSE {}
  ELSE {at \in DOMAIN lines : Matches(lines, before, at)}

Edited(lines, hunk, at) ==
  SubSeq(lines, 1, at - 1) \o After(hunk)
    \o SubSeq(lines, at + Len(Before(hunk)), Len(lines))

ApplyHunk(st, hunk) ==
  LET found == Locate(st.lines, Before(hunk))
  IN  IF ~st.ok \/ Cardinality(found) # 1 THEN [st EXCEPT !.ok = FALSE]
      ELSE [ok |-> TRUE,
            lines |-> Edited(st.lines, hunk, CHOOSE at \in found : TRUE),
            ended |-> IF hunk.unended = {} THEN st.ended
                                           ELSE "after" \notin hunk.unended]

ApplyHunks(original, file) ==
  LET applied[k \in 0..Len(file.hunks)] ==
        IF k = 0 THEN [ok |-> TRUE, lines |-> original.lines,
                       ended |-> original.ended \/ Created(file)]
        ELSE ApplyHunk(applied[k - 1], file.hunks[k])
  IN  applied

Apply(original, file) ==
  LET st == ApplyHunks(original, file)[Len(file.hunks)]
  IN  IF Deleted(file)
        THEN [ok |-> \A k \in DOMAIN file.hunks :
                       Cardinality(Locate(original.lines, Before(file.hunks[k]))) = 1,
              contents |-> NoFile]
        ELSE [ok |-> st.ok, contents |-> Contents(st.lines, st.ended)]
=============================================================================
