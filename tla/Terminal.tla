------------------------------ MODULE Terminal ------------------------------
(***************************************************************************)
(* internal/cli/approver.go: what the operator sees and answers.  The run  *)
(* streams the turns of an assessment to the screen while a goroutine      *)
(* animates it, and between turns it asks questions of a keyboard or of a  *)
(* script.  Critical sections of streamMu are single steps.                *)
(***************************************************************************)
EXTENDS Integers, Sequences, FiniteSets, StreamRedactor

CONSTANTS
  Sessions,     \* bound: the sessions considered, see Session
  MaxAnswer,    \* maxAnswer, bytes of an answer that are read
  Lines,        \* bound: what an operator types in one go
  MaxTyped,     \* bound: how often the operator types
  MaxFaults     \* bound: reads that fail

(* interactive: somebody can be asked; screen: out is a terminal; keyboard: *)
(* in is one (else script is all of the input); texts: what the assistant   *)
(* says, turn by turn; questions: what the run asks after that.             *)
Kinds == {"clarify", "fix", "revert"}
Session ==
  [interactive : BOOLEAN, screen : BOOLEAN, keyboard : BOOLEAN,
   script : Seq(STRING), texts : Seq(Seq(STRING)), questions : Seq(Kinds)]

(* A terminal in its usual mode hands over what is typed on it by lines, or *)
(* when the end-of-file key is pressed, which ends no stream.               *)
End == "EOF"
Breaks == {"\n", End}

SessionsOK ==
  /\ \A s \in Sessions : s \in Session /\ (s.keyboard => s.script = <<>>)
  /\ \A l \in Lines : l \in Seq(STRING) /\ l # <<>> /\ Last(l) \in Breaks
  /\ MaxAnswer \in Nat \ {0} /\ MaxTyped \in Nat /\ MaxFaults \in Nat

ASSUME TerminalAssumption == SessionsOK

Nobody == 0
Generations(s) == 1..Len(s.texts)

VARIABLES
  session, phase,
  said, streaming, streamed, streamText, streamPending, streamTail,
  streamANSI, redactor,                           \* the turn
  turn, streamStop, stopping, closed, animators, then, \* its goroutines
  above, line,                                    \* the screen, from the turn on
  input, at, typed, faults, typedFor,             \* the input
  asks, posed, desynced, unfinished, heard, err, from,   \* the question
  outcome

text == <<said, streamText, streamTail, streamANSI, redactor>>
flags == <<streaming, streamed, streamPending>>
threads == <<turn, streamStop, stopping, closed, animators, then>>
screen == <<above, line>>
arriving == <<input, typed, typedFor>>
stream == <<at, faults, desynced, unfinished>>
asking == <<asks, posed, heard, err, from, outcome>>
terminalVars ==
  <<session, phase, text, flags, threads, screen, arriving, stream, asking>>

TerminalInit ==
  /\ session \in Sessions /\ phase = "idle"
  /\ said = <<>> /\ streaming = FALSE /\ streamed = FALSE
  /\ streamText = <<>> /\ streamPending = <<>> /\ streamTail = <<>>
  /\ streamANSI = "none" /\ redactor = FreshRedactor
  /\ turn = 0 /\ streamStop = Nobody /\ stopping = Nobody /\ closed = {}
  /\ animators = [g \in Generations(session) |-> "unborn"] /\ then = "idle"
  /\ above = <<>> /\ line = <<>>
  /\ input = session.script /\ at = 0 /\ typed = 0 /\ faults = 0
  /\ typedFor = [i \in 1..Len(session.script) |-> 0]
  /\ asks = 0 /\ posed = 0 /\ desynced = FALSE /\ unfinished = FALSE
  /\ heard = <<>> /\ err = "none" /\ from = 0 /\ outcome = "none"

-----------------------------------------------------------------------------
(* Text on its way to the screen. *)

(* stripStreamControls: ANSI sequences, also those that arrive in pieces.   *)
(* Bytes are "ESC", "[", "]", "BEL", "ST" for the backslash, letters, and   *)
(* the two halves of a character outside ASCII.                             *)
Halves == {"c3", "a9"}
Final(b) == b \notin Halves \cup Blank \cup Names \cup {"ESC", "[", "BEL"}

ANSINext(state, b) ==
  CASE state = "none" /\ b = "ESC" -> "escape"
    [] state = "escape" /\ b = "[" -> "csi"
    [] state = "escape" /\ b = "]" -> "osc"
    [] state = "escape" /\ b = "ESC" -> "escape"
    [] state = "csi" /\ ~Final(b) -> "csi"
    [] state = "osc" /\ b = "ESC" -> "osc escape"
    [] state = "osc" /\ b \notin {"ESC", "BEL"} -> "osc"
    [] state = "osc escape" /\ b = "ESC" -> "osc escape"
    [] state = "osc escape" /\ b \notin {"ESC", "ST"} -> "osc"
    [] OTHER -> "none"

ANSIPasses(state, b) ==
  \/ state = "none" /\ b # "ESC"
  \/ state = "escape" /\ b \notin {"[", "]", "ESC"}

ANSIStates(state, bytes) ==
  LET reached[i \in 0..Len(bytes)] ==
        IF i = 0 THEN state ELSE ANSINext(reached[i - 1], bytes[i])
  IN  reached

StripStreamControls(state, bytes) ==
  LET states == ANSIStates(state, bytes)
  IN  [state |-> states[Len(bytes)],
       clean |-> FlattenSeq([i \in DOMAIN bytes |->
                   IF ANSIPasses(states[i - 1], bytes[i]) THEN <<bytes[i]>> ELSE <<>>])]

(* utf8.DecodeRune over all but an incomplete end. *)
PartialRune(bytes) ==
  IF bytes # <<>> /\ Last(bytes) = "c3" THEN <<"c3">> ELSE <<>>

Pair(bytes, i) ==
  i \in DOMAIN bytes /\ i + 1 \in DOMAIN bytes /\ bytes[i] = "c3" /\ bytes[i + 1] = "a9"
Runes(bytes, i) ==
  CASE Pair(bytes, i) -> <<"e acute">>
    [] Pair(bytes, i - 1) -> <<>>
    [] bytes[i] \in Halves /\ ~Pair(bytes, i) /\ ~Pair(bytes, i - 1) -> <<"invalid">>
    [] OTHER -> <<bytes[i]>>
Decode(bytes) == FlattenSeq([i \in DOMAIN bytes |-> Runes(bytes, i)])

(* display.Safe. *)
Shown(r) ==
  CASE r \in {"invalid", "BEL", "ESC"} -> <<>>
    [] r \in Blank -> <<" ">>
    [] OTHER -> <<r>>
Safe(runes) == FlattenSeq([i \in DOMAIN runes |-> Shown(runes[i])])

(* safeStreamTextLocked, and what it leaves for the next piece. *)
SafeStreamText(piece) ==
  LET stripped == StripStreamControls(streamANSI, piece)
      bytes == streamTail \o stripped.clean
      tail == PartialRune(bytes)
      written == RedactorWrite(redactor,
                   Decode(SubSeq(bytes, 1, Len(bytes) - Len(tail))))
  IN  [text |-> Safe(written.shown), redactor |-> written.redactor,
       tail |-> tail, ansi |-> stripped.state]

(* A carriage return and an erase rewrite the line the cursor is on. *)
Thinking == "thinking"
Name == "ops-pilot >"

(* writeThinkingLocked. *)
WriteThinking == line' = <<Thinking>>

(* Mutant of Flushed: the frame of the animation is not erased. *)
MutFlushedBesideTheFrame(pending, on) ==
  IF pending # <<>> /\ ~streamed THEN on \o <<Name>> \o pending ELSE on \o pending

(* flushStreamLocked, as the line after it; text is shown from then on. *)
Flushed(pending, on) ==
  CASE pending = <<>> -> on
    [] pending # <<>> /\ ~streamed -> <<Name>> \o pending
    [] OTHER -> on \o pending

-----------------------------------------------------------------------------
(* Stream: the run's own goroutine, inside the agent's calls. *)

Visible == session.interactive /\ session.screen

(* A turn that nobody watches leaves no trace. *)
QuietTurn ==
  /\ phase = "idle" /\ turn < Len(session.texts) /\ ~Visible
  /\ turn' = turn + 1
  /\ UNCHANGED <<session, phase, text, flags, streamStop, stopping, closed,
                 animators, then, screen, arriving, stream, asking>>

(* StreamTurnStart ends what may still be streaming. *)
TurnStart ==
  /\ phase = "idle" /\ turn < Len(session.texts) /\ Visible
  /\ phase' = "end" /\ then' = "begin"
  /\ UNCHANGED <<session, text, flags, turn, streamStop, stopping, closed,
                 animators, screen, arriving, stream, asking>>

BeginTurn ==
  /\ phase = "begin"
  /\ turn' = turn + 1
  /\ streaming' = TRUE /\ streamed' = FALSE
  /\ said' = <<>> /\ streamText' = <<>> /\ streamPending' = <<>>
  /\ streamTail' = <<>> /\ streamANSI' = "none" /\ redactor' = FreshRedactor
  /\ WriteThinking /\ above' = <<>>
  /\ streamStop' = turn'
  /\ animators' = [animators EXCEPT ![turn'] = "running"]
  /\ phase' = "turn"
  /\ UNCHANGED <<session, stopping, closed, then, arriving, stream, asking>>

(* StreamDelta, with any piece of what the assistant goes on to say.  Safe *)
(* leaves no line break in it, so its flush on a line break never happens. *)
Delta ==
  /\ phase = "turn" /\ streaming
  /\ \E n \in Len(said) + 1..Len(session.texts[turn]) :
       LET piece == SubSeq(session.texts[turn], Len(said) + 1, n)
           safe == SafeStreamText(piece)
       IN  /\ said' = said \o piece
           /\ streamTail' = safe.tail /\ streamANSI' = safe.ansi
           /\ redactor' = safe.redactor
           /\ streamText' = streamText \o safe.text
           /\ streamPending' = streamPending \o safe.text
  /\ UNCHANGED <<session, phase, streaming, streamed, threads, screen, arriving,
                 stream, asking>>

(* StreamTurnEnd: the agent says it however the completion ended. *)
TurnEnd ==
  /\ phase = "turn" /\ streaming
  /\ LET rest == Safe(RedactorFlush(redactor))
     IN  /\ streamText' = streamText \o rest
         /\ streamPending' = streamPending \o rest
  /\ streamTail' = <<>> /\ streamANSI' = "none" /\ redactor' = FreshRedactor
  /\ phase' = "end" /\ then' = "idle"
  /\ UNCHANGED <<session, said, streaming, streamed, turn, streamStop,
                 stopping, closed, animators, screen, arriving, stream, asking>>

(* endStream, in its four parts: the channels are taken, *)
TakeStop ==
  /\ phase = "end"
  /\ stopping' = streamStop /\ streamStop' = Nobody
  /\ phase' = IF streamStop = Nobody THEN "ended" ELSE "stop"
  /\ UNCHANGED <<session, text, flags, turn, closed, animators, then, screen,
                 arriving, stream, asking>>

(* Mutant of CloseStop: nobody tells the animation to stop. *)
MutCloseStopForgotten ==
  /\ phase = "stop" /\ phase' = "join"
  /\ UNCHANGED <<session, text, flags, threads, screen, arriving, stream,
                 asking>>

(* the animation is told to stop, *)
CloseStop ==
  /\ phase = "stop"
  /\ closed' = closed \cup {stopping} /\ phase' = "join"
  /\ UNCHANGED <<session, text, flags, turn, streamStop, stopping, animators,
                 then, screen, arriving, stream, asking>>

(* and waited for, *)
JoinAnimation ==
  /\ phase = "join" /\ animators[stopping] = "gone"
  /\ phase' = "ended"
  /\ UNCHANGED <<session, text, flags, threads, screen, arriving, stream,
                 asking>>

(* and the line is completed, or erased when nothing was said. *)
EndLine ==
  /\ phase = "ended" /\ phase' = then
  /\ IF streaming
       THEN /\ streaming' = FALSE /\ streamPending' = <<>>
            /\ streamed' = (streamed \/ streamPending # <<>>)
            /\ above' = IF streamed' THEN above \o Flushed(streamPending, line)
                        ELSE above
            /\ line' = <<>>
       ELSE UNCHANGED <<flags, screen>>
  /\ UNCHANGED <<session, text, threads, arriving, stream, asking>>

-----------------------------------------------------------------------------
(* animateStream: one goroutine per turn. *)

Stopped(g) ==
  /\ animators[g] = "running" /\ g \in closed
  /\ animators' = [animators EXCEPT ![g] = "gone"]
  /\ UNCHANGED <<session, phase, text, flags, turn, streamStop, stopping, closed,
                 then, screen, arriving, stream, asking>>

(* A tick, also when it races the stop: the frame changes, what is pending *)
(* is flushed, or both, as their intervals have passed.                    *)
Tick(g) ==
  /\ animators[g] = "running"
  /\ IF ~streaming
       THEN /\ animators' = [animators EXCEPT ![g] = "gone"]
            /\ UNCHANGED <<flags, screen>>
       ELSE /\ \E spin, flush \in BOOLEAN :
                 LET spun == IF spin /\ ~streamed THEN <<Thinking>> ELSE line
                 IN  IF flush
                       THEN /\ line' = Flushed(streamPending, spun)
                            /\ streamed' = (streamed \/ streamPending # <<>>)
                            /\ streamPending' = <<>>
                       ELSE line' = spun /\ UNCHANGED <<streamed, streamPending>>
            /\ UNCHANGED <<streaming, animators, above>>
  /\ UNCHANGED <<session, phase, text, turn, streamStop, stopping, closed, then,
                 arriving, stream, asking>>

-----------------------------------------------------------------------------
(* The prompts: Clarify, ApproveFix and ConfirmRevert, each over ask. *)

Question == "?"                 \* the agent's question, wherever it stands
Prompt == "> "
Kind == session.questions[asks]

(* Mutant of Lead: whatever was streamed is taken to have been the question. *)
MutLeadStreamed(kind) ==
  IF kind = "clarify" /\ streamed THEN <<>> ELSE <<"heading", Question>>

(* What precedes the prompt.  Clarify leaves out a question that the turn  *)
(* it ends has just asked (containsQuestion).                              *)
Lead(kind) ==
  CASE kind # "clarify" -> <<"heading">>
    [] kind = "clarify" /\ ~streamed -> <<"heading", Question>>
    [] kind = "clarify" /\ streamed /\ ~Contains(streamText, Question) -> <<Question>>
    [] OTHER -> <<>>

Unattended(kind) ==
  CASE kind = "clarify" -> "unanswered" [] kind = "fix" -> "declined"
    [] kind = "revert" -> "now"

(* The run asks; nobody is there in an unattended run. *)
Pose ==
  /\ phase = "idle" /\ asks < Len(session.questions)
  /\ asks' = asks + 1
  /\ heard' = <<>> /\ err' = "none" /\ from' = 0
  /\ IF session.interactive
       THEN /\ phase' = "ask" /\ outcome' = "none"
            /\ above' = above \o Lead(session.questions[asks'])
       ELSE /\ phase' = phase /\ outcome' = Unattended(session.questions[asks'])
            /\ UNCHANGED above
  /\ UNCHANGED <<session, text, flags, threads, line, arriving, stream, posed>>

(* Reading at most limit bytes: up to the line break, the end of input, or *)
(* a read that fails.                                                      *)
Reach(p) == IF p + MaxAnswer < Len(input) THEN p + MaxAnswer ELSE Len(input)
Stops(p) == {i \in p + 1..Reach(p) : input[i] \in Breaks}
StopAfter(p) == CHOOSE i \in Stops(p) : \A j \in Stops(p) : i <= j
Full(p) == Reach(p) - p = MaxAnswer

(* dropRest, from p: dropLine reads past the rest of the line if that ends *)
(* within maxAnswer bytes; on a keyboard the next discard does it.         *)
DropRest(p) ==
  CASE session.keyboard -> at' = p /\ UNCHANGED desynced
    [] ~session.keyboard /\ Stops(p) # {} ->
         at' = StopAfter(p) /\ UNCHANGED desynced
    [] OTHER -> at' = Reach(p) /\ desynced' = TRUE

(* ask, up to the read.  A stream whose lines were lost is silent for good. *)
AskSilenced ==
  /\ phase = "ask" /\ desynced
  /\ heard' = <<>> /\ err' = "too long" /\ phase' = "weigh"
  /\ UNCHANGED <<session, text, flags, threads, screen, arriving, stream, asks,
                 posed, from, outcome>>

(* Mutant of AskCatchesUp: the rest of a line that broke is an answer.      *)
MutAskCatchesUpNot ==
  /\ phase = "ask" /\ ~desynced /\ unfinished
  /\ unfinished' = FALSE
  /\ UNCHANGED <<session, phase, text, flags, threads, screen, arriving, at, faults,
                 desynced, asking>>

(* A line that broke is read past first. *)
AskCatchesUp ==
  /\ phase = "ask" /\ ~desynced /\ unfinished
  /\ unfinished' = FALSE
  /\ DropRest(at)
  /\ UNCHANGED <<session, phase, text, flags, threads, screen, arriving, faults,
                 asking>>

(* Type-ahead is discarded, and only then the prompt is written. *)
AskDiscards ==
  /\ phase = "ask" /\ ~desynced /\ ~unfinished
  /\ at' = IF session.keyboard THEN Len(input) ELSE at
  /\ posed' = posed + 1 /\ phase' = "prompt"
  /\ UNCHANGED <<session, text, flags, threads, screen, arriving, faults,
                 desynced, unfinished, asks, heard, err, from, outcome>>

AskPrompts ==
  /\ phase = "prompt"
  /\ line' = <<Prompt>> /\ phase' = "read"
  /\ UNCHANGED <<session, text, flags, threads, above, arriving, stream, asking>>

(* readAnswer and the switch in ask. *)
Hears(answer, error) ==
  /\ phase = "read" /\ phase' = "weigh"
  /\ heard' = answer /\ err' = error /\ from' = at + 1
  /\ above' = above \o line /\ line' = <<>>
  /\ UNCHANGED <<session, text, flags, threads, arriving, asks, posed, outcome>>

ReadLine ==
  /\ Stops(at) # {}
  /\ LET i == StopAfter(at)
     IN  /\ Hears(SubSeq(input, at + 1, i - 1),
                  IF input[i] = "\n" THEN "none" ELSE "eof")
         /\ at' = i
  /\ UNCHANGED <<faults, desynced, unfinished>>

(* A script ends; its last line need not be terminated. *)
ReadEnd ==
  /\ ~session.keyboard /\ Stops(at) = {} /\ ~Full(at)
  /\ Hears(SubSeq(input, at + 1, Len(input)), "eof")
  /\ at' = Len(input)
  /\ UNCHANGED <<faults, desynced, unfinished>>

ReadTooLong ==
  /\ Stops(at) = {} /\ Full(at)
  /\ Hears(<<>>, "too long")
  /\ DropRest(at + MaxAnswer)
  /\ UNCHANGED <<faults, unfinished>>

(* A read fails in the middle of a line, or before it. *)
ReadBreaks ==
  /\ faults < MaxFaults
  /\ Hears(<<>>, "broken")
  /\ \E n \in at..Reach(at) :
       /\ n < at + MaxAnswer
       /\ \A i \in at + 1..n : input[i] \notin Breaks
       /\ at' = n /\ unfinished' = (n > at)
  /\ faults' = faults + 1
  /\ UNCHANGED desynced

(* What an answer means to the prompt it answers.  Words are one byte long: *)
(* the one that agrees, the one that declines, and wait.                    *)
Word == SelectSeq(heard, LAMBDA b : b \notin Blank)

Meaning(kind) ==
  CASE kind = "clarify" -> IF Word = <<>> THEN "unanswered" ELSE "answered"
    [] kind = "fix" /\ Word = <<"y">> -> "approved"
    [] kind = "fix" /\ Word \in {<<>>, <<"n">>} -> "declined"
    [] kind = "revert" /\ Word \in {<<>>, <<"y">>} -> "now"
    [] kind = "revert" /\ Word = <<"n">> -> "keep"
    [] kind = "revert" /\ Word = <<"w">> -> "wait"
    [] OTHER -> "invalid"

Weighed == UNCHANGED <<session, text, flags, threads, line, arriving, stream,
                       asks, posed, heard, err, from>>

(* An error without an answer, or with one that means nothing, declines or *)
(* keeps the merge, and says that there was no answer.                     *)
NoAnswer ==
  /\ phase = "weigh" /\ err # "none"
  /\ heard = <<>> \/ Meaning(Kind) = "invalid"
  /\ outcome' = "no answer" /\ phase' = "idle"
  /\ UNCHANGED above /\ Weighed

Conclude ==
  /\ phase = "weigh" /\ ~(err # "none" /\ heard = <<>>)
  /\ Meaning(Kind) # "invalid"
  /\ outcome' = Meaning(Kind) /\ phase' = "idle"
  /\ UNCHANGED above /\ Weighed

(* The loops of confirm and ConfirmRevert. *)
AskAgain ==
  /\ phase = "weigh" /\ err = "none" /\ Meaning(Kind) = "invalid"
  /\ above' = Append(above, "invalid") /\ phase' = "ask"
  /\ UNCHANGED outcome /\ Weighed

-----------------------------------------------------------------------------
(* The operator types, at any time; typedFor remembers which question was  *)
(* being asked, if any.                                                    *)
Type ==
  /\ session.interactive /\ session.keyboard /\ typed < MaxTyped
  /\ ~(phase = "idle" /\ asks = Len(session.questions))
  /\ typed' = typed + 1
  /\ \E l \in Lines :
       /\ input' = input \o l
       /\ typedFor' = typedFor \o
            [i \in DOMAIN l |-> IF phase \in {"prompt", "read"} THEN posed ELSE 0]
  /\ UNCHANGED <<session, phase, text, flags, threads, screen, stream, asking>>

(* Nothing is left to do, or nobody types. *)
Rest ==
  /\ \/ phase = "idle" /\ turn = Len(session.texts) /\ asks = Len(session.questions)
     \/ phase = "read" /\ session.keyboard /\ Stops(at) = {} /\ ~Full(at)
  /\ UNCHANGED terminalVars

EndStream == TakeStop \/ CloseStop \/ JoinAnimation \/ EndLine
Turns == QuietTurn \/ TurnStart \/ EndStream \/ BeginTurn \/ Delta \/ TurnEnd
Asks == AskSilenced \/ AskCatchesUp \/ AskDiscards \/ AskPrompts
Reads == ReadLine \/ ReadEnd \/ ReadTooLong \/ ReadBreaks
Prompts == Pose \/ Asks \/ Reads \/ NoAnswer \/ Conclude \/ AskAgain
Animation(g) == Stopped(g) \/ Tick(g)

TerminalNext ==
  \/ Turns \/ Prompts
  \/ \E g \in Generations(session) : Animation(g)
  \/ Type
  \/ Rest

(* The run's goroutine goes on; a select whose stop is ready takes it in   *)
(* the end, however often a tick is ready too.                             *)
TerminalSpec ==
  /\ TerminalInit /\ [][TerminalNext]_terminalVars
  /\ WF_terminalVars(EndStream \/ BeginTurn)
  /\ \A g \in UNION {Generations(s) : s \in Sessions} :
       WF_terminalVars(g \in Generations(session) /\ Stopped(g))

-----------------------------------------------------------------------------
(* A text as both filters leave it when they see the whole of it. *)
Received(t) ==
  LET bytes == StripStreamControls("none", t).clean
  IN  Redact(Decode(SubSeq(bytes, 1, Len(bytes) - Len(PartialRune(bytes)))))
InOnePiece(t) == Safe(ScrubSecrets(Received(t)))

(* The values of a text stand by their names: only a name the stream knows  *)
(* is followed by blanks, and by no line break.                             *)
StandByTheirNames(whole) ==
  \A j, k \in DOMAIN whole :
    j < k /\ whole[j] \in Names /\ (\A h \in j + 1..k : whole[h] \in Blank) =>
      whole[j] = Known /\ whole[k] = " "

TurnIsOver == phase = "idle" /\ turn > 0 /\ Visible

(* However the assistant's text is cut into pieces, it reads in the end as *)
(* the filters leave it whole (StreamRedactor: "values split by model      *)
(* deltas indistinguishable from values delivered in one piece"), as long  *)
(* as no configured value ends as one begins and the credentials of the    *)
(* text stand by their names.                                              *)
TextReadsAsInOnePiece ==
  TurnIsOver /\ SecretsApart /\ StandByTheirNames(Received(said)) =>
    streamText = InOnePiece(said)

(* What the comments promise without these conditions: a configured value  *)
(* is never emitted (Write).                                               *)
ConfiguredValueIsNeverShown ==
  TurnIsOver => ~\E s \in Secrets, i \in DOMAIN streamText :
             IsPrefix(s, SubSeq(streamText, i, Len(streamText)))

(* Whenever the animation ticks, the screen shows the text once, whole and *)
(* in order; nothing of the animation stays, and a turn that said nothing  *)
(* leaves nothing.                                                         *)
ScreenShowsTheText ==
  /\ streaming /\ streamed => line \o streamPending = <<Name>> \o streamText
  /\ TurnIsOver =>
       IF streamText = <<>> THEN ~streamed /\ Name \notin Range(above)
       ELSE IsPrefix(<<Name>> \o streamText, above)

(* A turn is shown as it was said: both. *)
TurnIsShownAsSaid == TextReadsAsInOnePiece /\ ScreenShowsTheText

(* While the operator is asked, the prompt is the last thing on the screen *)
(* and no animation is left to write over it; what Clarify asks about can  *)
(* be read above it, in the streamed turn or spelled out.                  *)
PromptStandsLast ==
  phase = "read" =>
    /\ line = <<Prompt>>
    /\ \A g \in Generations(session) : animators[g] # "running"
    /\ Kind = "clarify" => Question \in Range(above)

(* What a prompt takes for an answer is one whole line (or the last one of *)
(* a script), never the rest of a line that ran too long or broke off, and *)
(* on a keyboard one that was typed after type-ahead had been discarded    *)
(* for this very question (ask's comment).                                 *)
AnswersAreWhole ==
  phase = "idle" /\ session.interactive
    /\ outcome \in {"unanswered", "answered", "approved", "declined", "now",
                     "keep", "wait"} =>
      /\ from = 1 \/ input[from - 1] \in Breaks
      /\ at \in from..Len(input)
      /\ \A i \in from..at - 1 : input[i] \notin Breaks
      /\ input[at] \in Breaks \/ (at = Len(input) /\ ~session.keyboard)
      /\ session.keyboard => \A i \in from..at : typedFor[i] = posed

(* The run never hangs on its own animation. *)
StreamReturns == phase = "end" ~> phase \in {"turn", "idle"}
=============================================================================
