--------------------------- MODULE StreamRedactor ---------------------------
(***************************************************************************)
(* internal/diagnostics/error.go: the redactor of streamed text.  Text     *)
(* arrives in pieces; what may still turn out to be (part of) a configured *)
(* value, or of a token that looks like a credential, is held back.        *)
(*                                                                         *)
(* Text is a sequence of characters.  "=" stands for a credential name     *)
(* with its separator, such as token:, and ":" for one that ScrubSecrets   *)
(* knows and the stream does not, such as pass:; Mark for a redacted span. *)
(***************************************************************************)
EXTENDS Naturals, Sequences, SequencesExt

CONSTANT Secrets        \* the configured values, as sequences of characters

SecretsOK == \A s \in Secrets : s \in Seq(STRING) /\ s # <<>>

ASSUME SecretsAssumption == SecretsOK

(* No configured value ends as one begins.  Of two that do, the redactor    *)
(* holds back the end of the first for the beginning of the second.         *)
SecretsApart ==
  \A s, t \in Secrets : \A n \in 1..Len(s) - 1 :
    ~IsPrefix(SubSeq(s, Len(s) - n + 1, Len(s)), t)

Mark == "[REDACTED]"
Blank == {" ", "\n"}
Known == "="                    \* streamCredentialName
Names == {Known, ":"}

(* Replacer.Replace: leftmost first, the longest of those that match there; *)
(* until is where the value ends that was found last.                       *)
Values(text, i) == {s \in Secrets : IsPrefix(s, SubSeq(text, i, Len(text)))}
Longest(text, i) ==
  CHOOSE s \in Values(text, i) : \A t \in Values(text, i) : Len(t) <= Len(s)

Until(text) ==
  LET until[i \in 0..Len(text)] ==
        IF i = 0 THEN 0
        ELSE IF i <= until[i - 1] \/ Values(text, i) = {} THEN until[i - 1]
        ELSE i + Len(Longest(text, i)) - 1
  IN  until

Redacted(text, i) ==
  CASE i <= Until(text)[i - 1] -> <<>>
    [] i > Until(text)[i - 1] /\ Values(text, i) = {} -> <<text[i]>>
    [] OTHER -> <<Mark>>
Redact(text) == FlattenSeq([i \in DOMAIN text |-> Redacted(text, i)])

(* The token after a credential name is its value, on the name's line, or   *)
(* on the line below if it is all that line holds.  (Other values of more    *)
(* lines, which block scalars, lists and private keys have, are scrubbed     *)
(* across line breaks as this one is.)                                       *)
OnItsLine(text, j, k) == \A h \in j + 1..k : text[h] = " "

AllOfItsLine(text, i) ==
  \A h \in i..Len(text) :
    text[h] # " " /\ (\A g \in i..h : text[g] # "\n") =>
      text[h] \notin Names /\ \A g \in i..h : text[g] # " "

OnTheNext(text, j, k) ==
  /\ \E n \in j + 1..k : /\ text[n] = "\n"
                         /\ \A h \in j + 1..k : h # n => text[h] = " "
  /\ AllOfItsLine(text, k + 1)

InValue(text, i) ==
  \E j \in 1..i - 1 : \E k \in j..i - 1 :
    /\ text[j] \in Names /\ \A h \in k + 1..i : text[h] \notin Blank
    /\ OnItsLine(text, j, k) \/ OnTheNext(text, j, k)
Scrubbed(text, i) ==
  CASE ~InValue(text, i) -> <<text[i]>>
    [] InValue(text, i) /\ InValue(text, i - 1) -> <<>>
    [] OTHER -> <<Mark>>
ScrubSecrets(text) == FlattenSeq([i \in DOMAIN text |-> Scrubbed(text, i)])

(* Mutant of Withheld: a piece is redacted as it comes. *)
MutWithheldNothing(text) == 0

(* How much of the end of text can still complete a configured value. *)
Withheld(text) ==
  LET Completes(n) == \E s \in Secrets :
        n < Len(s) /\ IsPrefix(SubSeq(text, Len(text) - n + 1, Len(text)), s)
  IN  CHOOSE n \in 0..Len(text) :
        /\ n = 0 \/ Completes(n)
        /\ \A k \in n + 1..Len(text) : ~Completes(k)

(* How much of shape can be scrubbed now: whole lines while a known name is *)
(* in sight, and once it is not, everything up to the last blank.           *)
Ready(shape) ==
  LET sensitive == \E j \in DOMAIN shape :
                     shape[j] = Known /\ \A k \in j..Len(shape) : shape[k] # "\n"
      ends == {k \in DOMAIN shape :
                 IF sensitive THEN shape[k] = "\n" ELSE shape[k] \in Blank}
  IN  CHOOSE n \in ends \cup {0} : \A k \in ends : k <= n

(* Lines are scrubbed one by one as long as a known name is in them or to   *)
(* come, and what follows in one piece: nothing is seen across a seam.      *)
Seams(shape, cut) ==
  {0, cut} \cup
  {k \in 1..cut : /\ shape[k] = "\n"
                  /\ \E j \in DOMAIN shape :
                       shape[j] = Known /\ \A h \in j..k - 1 : shape[h] # "\n"}

ScrubbedPart(shape, cut, i) ==
  LET from == Max({k \in Seams(shape, cut) : k < i})
      to == Min({k \in Seams(shape, cut) : k >= i})
  IN  Scrubbed(SubSeq(shape, from + 1, to), i - from)
ScrubParts(shape, cut) == FlattenSeq([i \in 1..cut |-> ScrubbedPart(shape, cut, i)])

(* A redactor holds back two tails; both calls answer with what is safe to *)
(* show and the redactor that is left.                                     *)
FreshRedactor == [configured |-> <<>>, shape |-> <<>>]

RedactorWrite(redactor, text) ==
  LET all == redactor.configured \o text
      free == Len(all) - Withheld(all)
      shape == redactor.shape \o Redact(SubSeq(all, 1, free))
      cut == Ready(shape)
  IN  [shown |-> ScrubParts(shape, cut),
       redactor |-> [configured |-> SubSeq(all, free + 1, Len(all)),
                     shape |-> SubSeq(shape, cut + 1, Len(shape))]]

RedactorFlush(redactor) ==
  ScrubSecrets(redactor.shape \o Redact(redactor.configured))
=============================================================================
