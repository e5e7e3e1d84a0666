------------------------------- MODULE Agent --------------------------------
(***************************************************************************)
(* internal/ai/openai and the brackets around it in internal/run: requests *)
(* to the model, one after another.  Each is a conversation in which the   *)
(* model calls tools until it submits a conclusion; replies may come as a  *)
(* stream, whose pieces the provider cuts and orders as it likes.          *)
(***************************************************************************)
EXTENDS Integers, Sequences, Fence

CONSTANTS
  Jobs,         \* bound: what requests are about, see Job
  Replies,      \* bound: what the model may say in a turn, see Reply
  MaxRequests,  \* bound: requests of the run
  MaxTurns      \* maxTurns

(* data, kept, self: text about the pull request that the prompt fences,    *)
(* that only the runner has, and of ops-pilot itself; exchange: what the    *)
(* model said before a clarification, and the operator in it.               *)
Job == [kind : {"assessment", "diagnosis"}, interactive : BOOLEAN,
        waited : BOOLEAN, data : Int, kept : Int, self : Int, exchange : Int]

(* A call's arguments arrive in pieces; says is what its name, arguments or *)
(* conclusion mention, and quotes what a reply's prose does.  A "garbled"   *)
(* call's arguments do not decode.                                          *)
Tools == {"read", "search", "fetch"}
Conclusions(kind) ==
  IF kind = "assessment" THEN {"settled"} ELSE {"wait", "fix", "unfixable"}
ToolCall ==
  [name : Tools \cup {"unknown", "garbled", "submit"}, says : Int,
   pieces : Nat \ {0}, concludes : STRING]
Reply == [content : BOOLEAN, quotes : Int, calls : Seq(ToolCall)]

ASSUME AgentAssumption ==
  /\ \A j \in Jobs : j \in Job
  /\ \A r \in Replies : r \in Reply
  /\ MaxRequests \in Nat \ {0} /\ MaxTurns \in Nat \ {0}

VARIABLES
  pc, requests, job, suspect, stream,   \* the request: suspect is what the
                                        \* runner found before asking
  conversation, turn, served,     \* converse
  plan, sent, reply,              \* the turn: what the provider has to say,
                                  \* has sent and what has been merged of it
  last,                           \* what became of the last request
  met, rendered                   \* history: texts met in this request, and
                                  \* whether its prose was shown
fence == <<live, forgery>>
bracket == <<pc, requests, job, suspect, stream>>
talk == <<conversation, turn, served>>
coming == <<plan, sent, reply>>
vars == <<fence, bracket, talk, coming, last, met, rendered>>

NoJob == [kind |-> "none"]
NoReply == [content |-> FALSE, calls |-> <<>>]
NoPlan == [content |-> FALSE, quotes |-> Plain, calls |-> <<>>]
NoCall == [id |-> 0, name |-> "", arguments |-> <<>>]
Nothing == [what |-> "nothing"]

(* A message: the ids of the calls it makes or of the one it answers, the   *)
(* fenced texts in it and the texts outside any fence that may be marked.   *)
Message(role, ids, fences, said) ==
  [role |-> role, ids |-> ids, fences |-> fences, said |-> said]

Init ==
  /\ FenceInit
  /\ pc = "idle" /\ requests = 0 /\ job = NoJob
  /\ suspect = FALSE /\ stream = FALSE
  /\ conversation = <<>> /\ turn = 0 /\ served = 0
  /\ plan = NoPlan /\ sent = [content |-> FALSE, calls |-> <<>>]
  /\ reply = NoReply
  /\ last = Nothing /\ met = {} /\ rendered = FALSE

Met(how, text) == met' = met \cup {[how |-> how, text |-> text]}

-----------------------------------------------------------------------------
(* The request. *)

(* forgesFence: what the runner hands the agent.                            *)
ForgesFence(j) ==
  j.kind = "assessment" /\ (FenceForged(j.data, live) \/ FenceForged(j.kept, live))

(* Mutant of PromptNonce: the prompt is fenced before the identifier is     *)
(* rotated.                                                                 *)
MutPromptNonceStale == live

(* assessmentPrompt and diagnosisPrompt: the identifier is rotated before   *)
(* anything of the request is fenced, and stated ahead of it                *)
(* (FenceIdentifier); earlier fixes and refusals have had theirs masked     *)
(* (repair.go).                                                             *)
PromptNonce == live + 1
Clarified(j) == j.kind = "assessment" /\ j.exchange # Plain
Opening(j, nonce) ==
  LET self == StripFenceIdentifiers(j.self)
      prompt == Message("user", <<>>,
                  {Wrapped(j.data, nonce)} \cup
                    (IF j.kind = "diagnosis" THEN {Wrapped(self, nonce)} ELSE {}),
                  {nonce})
  IN  IF Clarified(j)
        THEN <<prompt, Message("assistant", <<>>, {}, {j.exchange}),
               Message("user", <<>>, {}, {j.exchange})>>
        ELSE <<prompt>>

(* assess, or a round of repair, up to the first completion.                *)
Begin(j) ==
  /\ pc = "idle" /\ requests < MaxRequests
  /\ {j.data, j.kept, j.self, j.exchange} \subseteq Known
  /\ pc' = "asking" /\ requests' = requests + 1 /\ job' = j
  /\ suspect' = ForgesFence(j)
  /\ stream' = (j.kind = "assessment" /\ j.interactive /\ ~ForgesFence(j))
  /\ live' = live + 1
  /\ forgery' = \/ FenceData(j.data, live + 1)
                \/ /\ j.kind = "diagnosis"
                   /\ FenceSelfData(StripFenceIdentifiers(j.self), live + 1)
  /\ conversation' = Opening(j, PromptNonce) /\ turn' = 0 /\ served' = 0
  /\ met' = {[how |-> "data", text |-> j.data]} \cup
              (IF j.kind = "assessment"
                 THEN {[how |-> "data", text |-> j.kept]}
                 ELSE {[how |-> "self", text |-> StripFenceIdentifiers(j.self)]})
  /\ rendered' = FALSE /\ last' = Nothing
  /\ UNCHANGED coming

(* The end of a conversation, and what the caller makes of it: an assessment *)
(* that failed, met forgery or names an identifier is held whatever it      *)
(* says; a diagnosis that met forgery leaves the merge in place.  What is   *)
(* published has every identifier masked.                                   *)
Verdict(what, says) ==
  LET failed == what \notin Conclusions(job.kind)
      forged == forgery \/ suspect
      echoed == StripFenceIdentifiers(says) # says
  IN  IF job.kind = "assessment"
        THEN IF failed \/ forged \/ echoed THEN "held" ELSE what
        ELSE CASE forged -> "left in place"
               [] failed /\ ~forged -> "not diagnosed"
               [] OTHER -> what

Return(what, says, arguments) ==
  /\ pc' = "idle" /\ forgery' = FALSE
  /\ last' = [what |-> Verdict(what, says), says |-> says,
              failed |-> what \notin Conclusions(job.kind),
              arguments |-> arguments]
  /\ UNCHANGED <<live, requests, job, suspect, stream, talk, coming, met, rendered>>

(* Assess and Diagnose, once converse has a conclusion: an incomplete one   *)
(* and a second wait are errors, whose text quotes it.                      *)
Decoded(call) ==
  IF call.concludes \in Conclusions(job.kind)
       /\ ~(job.waited /\ call.concludes = "wait")
    THEN call.concludes ELSE "failed"

-----------------------------------------------------------------------------
(* A turn: one completion. *)

(* complete, up to the provider's answer, which is not there yet.           *)
Complete(r) ==
  /\ pc = "asking" /\ turn < MaxTurns
  /\ r.quotes \in Known /\ \A i \in DOMAIN r.calls : r.calls[i].says \in Known
  /\ pc' = "waiting" /\ plan' = r /\ reply' = NoReply
  /\ sent' = [content |-> FALSE, calls |-> [i \in DOMAIN r.calls |-> 0]]
  /\ UNCHANGED <<fence, requests, job, suspect, stream, talk, last, met, rendered>>

(* Mutant of GiveUp: the turns are counted but never run out. *)
MutGiveUpPastLimit ==
  /\ pc = "asking" /\ turn > MaxTurns
  /\ Return("failed", Plain, <<>>)

(* converse: no conclusion within its turns. *)
GiveUp ==
  /\ pc = "asking" /\ turn = MaxTurns
  /\ Return("failed", Plain, <<>>)

(* What a reply of the model mentions: it goes into the conversation as it  *)
(* came, with its prose and the arguments of its calls.                     *)
Mentions == {plan.quotes} \cup {plan.calls[i].says : i \in DOMAIN plan.calls}

(* converse, on a reply: without calls the model is told to conclude.       *)
Heard(r) ==
  LET ids == [i \in DOMAIN r.calls |-> r.calls[i].id]
      assistant == Message("assistant", ids, {}, Mentions)
  IN  IF r.calls = <<>>
        THEN /\ conversation' =
                  Append(Append(conversation, assistant), Message("user", <<>>, {}, {}))
             /\ turn' = turn + 1 /\ pc' = "asking" /\ served' = 0
        ELSE /\ conversation' = Append(conversation, assistant)
             /\ pc' = "serving" /\ served' = 0
             /\ UNCHANGED turn

Whole(call, i) ==
  [id |-> i, name |-> call.name,
   arguments |-> [k \in 1..call.pieces |-> k]]

(* Not streamed: one body.                                                  *)
Answers ==
  /\ pc = "waiting" /\ ~stream
  /\ reply' = [content |-> plan.content,
               calls |-> [i \in DOMAIN plan.calls |-> Whole(plan.calls[i], i)]]
  /\ Heard(reply')
  /\ UNCHANGED <<fence, requests, job, suspect, stream, plan, sent, last, met, rendered>>

(* consumeStreamEvent: prose is shown as it comes; the pieces of a call are *)
(* merged at its index, whichever index comes first.                        *)
StreamContent ==
  /\ pc = "waiting" /\ stream /\ plan.content /\ ~sent.content
  /\ reply' = [reply EXCEPT !.content = TRUE]
  /\ sent' = [sent EXCEPT !.content = TRUE]
  /\ rendered' = TRUE
  /\ UNCHANGED <<fence, bracket, talk, plan, last, met>>

Padded(calls, i) ==
  calls \o [k \in 1..(IF i > Len(calls) THEN i - Len(calls) ELSE 0) |-> NoCall]

Merged(calls, i, piece, first) ==
  LET padded == Padded(calls, i)
      named == IF first
                 THEN [padded[i] EXCEPT !.id = i, !.name = plan.calls[i].name]
                 ELSE padded[i]
  IN  [padded EXCEPT ![i] = [named EXCEPT !.arguments = Append(@, piece)]]

StreamPiece(i) ==
  /\ pc = "waiting" /\ stream /\ i \in DOMAIN plan.calls
  /\ sent.calls[i] < plan.calls[i].pieces
  /\ sent' = [sent EXCEPT !.calls[i] = @ + 1]
  /\ reply' = [reply EXCEPT !.calls =
                 Merged(@, i, sent'.calls[i], sent.calls[i] = 0)]
  /\ UNCHANGED <<fence, bracket, talk, plan, last, met, rendered>>

(* Mutant of SentAll: a stream ends as soon as a call has begun. *)
MutSentSome == reply.calls # <<>>

(* What the provider meant to say has all arrived. *)
SentAll ==
  /\ sent.content = plan.content
  /\ \A i \in DOMAIN plan.calls : sent.calls[i] = plan.calls[i].pieces

(* decodeStream: "[DONE]" ends it.                                          *)
StreamDone ==
  /\ pc = "waiting" /\ stream /\ SentAll
  /\ Heard(reply)
  /\ UNCHANGED <<fence, requests, job, suspect, stream, coming, last, met, rendered>>

(* The connection breaks or ends early, an event is malformed, its index is *)
(* outside [0, maxToolCalls), there are no choices, the status is an error  *)
(* whose body the failure quotes.                                           *)
Breaks(text) ==
  /\ pc = "waiting"
  /\ Return("failed", text, <<>>)

-----------------------------------------------------------------------------
(* The calls of a reply, in their order. *)

Call == plan.calls[served + 1]
ServeNext(names) ==
  /\ pc = "serving" /\ reply.calls[served + 1].name \in names

(* The result of a call goes back to the model; after the last one the next *)
(* turn begins.                                                             *)
Result(fences) ==
  /\ conversation' =
       Append(conversation,
              Message("tool", <<reply.calls[served + 1].id>>, fences, {}))
  /\ IF served + 1 = Len(reply.calls)
       THEN pc' = "asking" /\ turn' = turn + 1 /\ served' = 0
       ELSE served' = served + 1 /\ UNCHANGED <<pc, turn>>
  /\ UNCHANGED <<live, requests, job, suspect, stream, coming, last, rendered>>

ToolError(text) == Wrapped(text, live)

(* invoke: a marker literal in the name or in the arguments the tool reads. *)
Refuse ==
  /\ ServeNext(Tools \cup {"unknown"})
  /\ FenceMarkerWithoutIdentifier(Call.says, live)
  /\ Result({ToolError(Plain)})
  /\ UNCHANGED <<forgery, met>>

(* Arguments that do not decode are never looked at.                        *)
FailToDecode ==
  /\ ServeNext({"garbled"})
  /\ Result({ToolError(Plain)})
  /\ UNCHANGED <<forgery, met>>

(* The name is quoted back.                                                 *)
NameUnknown ==
  /\ ServeNext({"unknown"})
  /\ ~FenceMarkerWithoutIdentifier(Call.says, live)
  /\ forgery' = (forgery \/ FenceData(Call.says, live))
  /\ Met("call", Call.says)
  /\ Result({ToolError(Call.says)})

(* LatchFenceIdentifier, before a tool runs and whatever it returns.        *)
Latched == forgery \/ Issued(Call.says, live)

Dispatch(name) ==
  /\ ServeNext({name})
  /\ ~FenceMarkerWithoutIdentifier(Call.says, live)

(* read_repo_file and list_repo_files.                                      *)
ReadRepo(text) ==
  /\ Dispatch("read")
  /\ forgery' = (Latched \/ FenceRepoData(text, live))
  /\ met' = met \cup {[how |-> "call", text |-> Call.says],
                      [how |-> "repo", text |-> text]}
  /\ Result({Wrapped(text, live)})

(* search_repositories.                                                     *)
Search(text) ==
  /\ Dispatch("search")
  /\ forgery' = (Latched \/ FenceData(MaskFenceMarkers(text), live))
  /\ met' = met \cup {[how |-> "call", text |-> Call.says],
                      [how |-> "search", text |-> text]}
  /\ Result({Wrapped(MaskFenceMarkers(text), live)})

(* fetch_url, releases, issues and the reads of the cluster.                *)
Fetch(text) ==
  /\ Dispatch("fetch")
  /\ forgery' = (Latched \/ FenceData(text, live))
  /\ met' = met \cup {[how |-> "call", text |-> Call.says],
                      [how |-> "data", text |-> text]}
  /\ Result({Wrapped(text, live)})

(* A tool has nothing to show, which it says outside any fence, or fails    *)
(* with an error that may quote the call or what it met.                    *)
Empty ==
  /\ \E name \in Tools : Dispatch(name)
  /\ forgery' = Latched
  /\ Met("call", Call.says)
  /\ Result({})

Fails(text) ==
  /\ \E name \in Tools : Dispatch(name)
  /\ forgery' = (Latched \/ FenceData(text, live))
  /\ met' = met \cup {[how |-> "call", text |-> Call.says],
                      [how |-> "data", text |-> text]}
  /\ Result({ToolError(text)})

(* The submit tool: the calls after it are not served.                      *)
Submit ==
  /\ ServeNext({"submit"})
  /\ Return(Decoded(Call), Call.says, reply.calls[served + 1].arguments)

Serve ==
  \/ Refuse \/ FailToDecode \/ NameUnknown \/ Empty \/ Submit
  \/ \E text \in Known : ReadRepo(text) \/ Search(text) \/ Fetch(text) \/ Fails(text)

-----------------------------------------------------------------------------
Conversing ==
  \/ \E r \in Replies : Complete(r)
  \/ GiveUp \/ Answers \/ StreamContent \/ StreamDone
  \/ \E text \in Known : Breaks(text)
  \/ \E i \in DOMAIN plan.calls : StreamPiece(i)
  \/ Serve

Rest == pc = "idle" /\ requests = MaxRequests /\ UNCHANGED vars

Next == (\E j \in Jobs : Begin(j)) \/ Conversing \/ Rest

(* The provider's client has a timeout, so a completion ends.               *)
Spec == Init /\ [][Next]_vars /\ WF_vars(Conversing)

-----------------------------------------------------------------------------
(* Properties. *)

(* Every fence of a conversation is closed with the identifier its prompt   *)
(* states, and none holds it.  Outside the fences it is named by the prompt *)
(* and by the model's own replies in this request, which are kept as they   *)
(* came; by nothing else: no result or error of a tool, nothing the runner  *)
(* adds, and nothing that was said before, whatever an earlier request      *)
(* published or the model quoted in it.                                     *)
Opened(j) == IF Clarified(j) THEN 3 ELSE 1
FencedUnderOneIdentifier ==
  pc # "idle" =>
    \A i \in DOMAIN conversation :
      /\ i = 1 => live \in conversation[i].said
      /\ live \in conversation[i].said =>
           i = 1 \/ (i > Opened(job) /\ conversation[i].role = "assistant")
      /\ \A f \in conversation[i].fences : f.tag = live /\ f.text # live

(* Forgery met by a request, and only that, is charged to this request: an  *)
(* identifier wherever it turned up, a marker literal in text that comes    *)
(* from outside the repository; what was known before asking shows no prose.*)
ForgeryIsChargedToItsRequest ==
  LET forges(m) == 
            m.text \in 1..live \/ (m.how = "data" /\ m.text = Literal)
      forged == \E m \in met : forges(m)
  IN  /\ last.what # "nothing" =>
           /\ forged => last.what \in {"held", "left in place"}
           /\ last.what = "left in place" => forged
           /\ last.what = "held" =>
                forged \/ last.failed \/ last.says \in 1..live
      /\ rendered => job.data \in {Plain} /\ job.kept \in {Plain}

(* A request concludes with what the provider sent and meant: the first     *)
(* submission of a reply that came whole, however its pieces were cut and   *)
(* ordered, with every call before it served.                               *)
ConclusionIsAsSent ==
  last.what # "nothing" /\ ~last.failed =>
    \E i \in DOMAIN plan.calls :
      /\ plan.calls[i].name = "submit"
      /\ last.arguments = [k \in 1..plan.calls[i].pieces |-> k]
      /\ \A h \in 1..(i - 1) : plan.calls[h].name # "submit"
      /\ Len(reply.calls) = Len(plan.calls)
      /\ \A h \in DOMAIN reply.calls : reply.calls[h].id # 0
      /\ conversation[Len(conversation) - (i - 1)].role = "assistant"

(* Every request comes to an end.                                           *)
RequestEnds == pc # "idle" ~> pc = "idle"
=============================================================================
