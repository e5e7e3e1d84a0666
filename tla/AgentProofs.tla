----------------------------- MODULE AgentProofs -----------------------------
(***************************************************************************)
(* What holds of every conversation with the model, whatever it says, the  *)
(* tools return and the provider does to a stream: its texts are fenced    *)
(* under one identifier which only the prompt and the model's own replies  *)
(* name, forgery is charged to the request that met it, and a conclusion   *)
(* is the one that was sent.                                               *)
(***************************************************************************)
EXTENDS Agent, TLAPS, SequenceTheorems

USE AgentAssumption

(* A message of a conversation whose identifier is n, the conversation     *)
(* itself, and what has been merged of a reply.                            *)
Sealed(n) ==
  [role : {"user", "assistant", "tool"}, ids : Seq(Nat),
   fences : SUBSET [tag : {n}, text : Int \ {n}], said : SUBSET Int]
Quiet(c, j, n) ==
  /\ c \in Seq(Sealed(n)) /\ Opened(j) <= Len(c) /\ n \in c[1].said
  /\ \A i \in DOMAIN c :
       n \in c[i].said => i = 1 \/ (i > Opened(j) /\ c[i].role = "assistant")
Names == Tools \cup {"unknown", "garbled", "submit", ""}
Part == [id : Nat, name : Names, arguments : Seq(Nat)]

(* A request carries its own job and no verdict yet. *)
Typed ==
  /\ live \in Nat /\ forgery \in BOOLEAN /\ suspect \in BOOLEAN
  /\ pc # "idle" => live # 0
  /\ stream \in BOOLEAN /\ rendered \in BOOLEAN
  /\ served \in Nat /\ plan \in Reply
  /\ reply \in [content : BOOLEAN, calls : Seq(Part)]
  /\ pc \in {"idle", "asking", "waiting", "serving"}
  /\ pc # "idle" => job \in Jobs /\ last = Nothing
  /\ pc \in {"waiting", "serving"} =>
       \A i \in DOMAIN plan.calls : plan.calls[i].says \in Known

(* Nothing but the prompt and the model's replies names the identifier. *)
Unknowing == pc # "idle" => Quiet(conversation, job, live)

Forges(m, n) == m.text \in 1..n \/ (m.how = "data" /\ m.text = Literal)

(* The latch and what was found before asking stand for what was met, and  *)
(* prose is shown only of a request about nothing that forges.             *)
Charged ==
  /\ pc # "idle" => (forgery \/ suspect <=> \E m \in met : Forges(m, live))
  /\ stream \/ rendered => job.data = Plain /\ job.kept = Plain
  /\ ForgeryIsChargedToItsRequest

(* The first n pieces of the i-th call of the plan. *)
Pieces(i, n) ==
  [id |-> i, name |-> plan.calls[i].name, arguments |-> [k \in 1..n |-> k]]

(* What has been merged of a stream is what has been sent of it, at the    *)
(* index it belongs to.                                                    *)
Merging ==
  pc = "waiting" /\ stream =>
    /\ sent \in [content : BOOLEAN, calls : [DOMAIN plan.calls -> Nat]]
    /\ Len(reply.calls) <= Len(plan.calls)
    /\ \A i \in DOMAIN plan.calls :
         IF sent.calls[i] = 0 THEN i \in DOMAIN reply.calls => reply.calls[i] = NoCall
         ELSE i \in DOMAIN reply.calls /\ reply.calls[i] = Pieces(i, sent.calls[i])

IsWhole ==
  /\ Len(reply.calls) = Len(plan.calls)
  /\ \A i \in DOMAIN plan.calls : reply.calls[i] = Pieces(i, plan.calls[i].pieces)

(* A conclusion with these arguments is the first submission of the reply. *)
Submitted(arguments) ==
  \E i \in DOMAIN plan.calls :
    /\ plan.calls[i].name = "submit"
    /\ arguments = [k \in 1..plan.calls[i].pieces |-> k]
    /\ \A h \in 1..(i - 1) : plan.calls[h].name # "submit"
    /\ Len(reply.calls) = Len(plan.calls)
    /\ \A h \in DOMAIN reply.calls : reply.calls[h].id # 0
    /\ conversation[Len(conversation) - (i - 1)].role = "assistant"

(* A reply is served as it was sent, call by call, and each call's result  *)
(* follows those before it.                                                *)
InOrder ==
  /\ pc = "serving" =>
       /\ IsWhole
       /\ served < Len(plan.calls)
       /\ \A h \in 1..served : plan.calls[h].name # "submit"
       /\ conversation[Len(conversation) - served].role = "assistant"
       /\ served < Len(conversation)
  /\ ConclusionIsAsSent

IInv == Typed /\ Unknowing /\ Charged /\ Merging /\ InOrder

-----------------------------------------------------------------------------
(* Calls and their pieces. *)

(* A reply's calls are calls.                                              *)
LEMMA PlannedCalls ==
  ASSUME NEW r \in Reply
  PROVE  /\ r.calls \in Seq(ToolCall) /\ Len(r.calls) \in Nat /\ r.quotes \in Int
         /\ DOMAIN r.calls = 1..Len(r.calls) /\ r.content \in BOOLEAN
         /\ \A i \in DOMAIN r.calls : r.calls[i] \in ToolCall
<1>1. r.calls \in Seq(ToolCall) /\ r.content \in BOOLEAN /\ r.quotes \in Int
  BY DEF Reply
<1> DEFINE s == r.calls
           T == ToolCall
<1> HIDE DEF s, T
<1>2. s \in Seq(T) => /\ Len(s) \in Nat /\ DOMAIN s = 1..Len(s)
                      /\ \A i \in DOMAIN s : s[i] \in T
  OBVIOUS
<1> QED BY <1>1, <1>2 DEF s, T

(* What a call of the plan is.                                             *)
LEMMA ToolCallFields ==
  ASSUME NEW c \in ToolCall
  PROVE  /\ c.name \in Names /\ c.says \in Int /\ c.pieces \in Nat /\ c.pieces >= 1
         /\ c.name \in Tools \cup {"unknown", "garbled", "submit"}
<1>1. /\ c.says \in Int /\ c.pieces \in Nat \ {0}
      /\ c.name \in Tools \cup {"unknown", "garbled", "submit"}
  BY DEF ToolCall
<1>2. c.pieces \in Nat /\ c.pieces >= 1
  BY <1>1
<1>3. c.name \in Names
  BY <1>1 DEF Names
<1> QED BY <1>1, <1>2, <1>3

(* A sequence given by its elements.                                       *)
LEMMA IsSequence ==
  ASSUME NEW S, NEW n \in Nat, NEW f, f = [i \in 1..n |-> f[i]], \A i \in 1..n : f[i] \in S
  PROVE  f \in Seq(S) /\ Len(f) = n /\ DOMAIN f = 1..n
<1>1. f \in [1..n -> S]
  OBVIOUS
<1> QED BY <1>1

(* One piece more.                                                         *)
LEMMA PieceMore ==
  ASSUME NEW n \in Nat
  PROVE  /\ [k \in 1..n |-> k] \in Seq(Nat)
         /\ Append([k \in 1..n |-> k], n + 1) = [k \in 1..(n + 1) |-> k]
<1> DEFINE f == [k \in 1..n |-> k]
           g == [k \in 1..(n + 1) |-> k]
<1>1. f \in Seq(Nat) /\ Len(f) = n
  <2>1. f \in [1..n -> Nat]
    OBVIOUS
  <2> QED BY <2>1
<1>2. g \in Seq(Nat) /\ Len(g) = n + 1
  <2>1. g \in [1..(n + 1) -> Nat]
    OBVIOUS
  <2> QED BY <2>1
<1>3. /\ Append(f, n + 1) \in Seq(Nat) /\ Len(Append(f, n + 1)) = n + 1
      /\ \A i \in 1..(n + 1) : Append(f, n + 1)[i] = IF i = n + 1 THEN n + 1 ELSE f[i]
  BY <1>1
<1>4. \A i \in 1..(n + 1) : Append(f, n + 1)[i] = g[i]
  BY <1>3
<1>5. Append(f, n + 1) = g
  BY <1>2, <1>3, <1>4, SeqEqual
<1> QED BY <1>1, <1>5

(* Calls whose pieces are listed are calls.                                *)
LEMMA PiecesArePart ==
  ASSUME Typed, NEW i \in DOMAIN plan.calls, NEW n \in Nat
  PROVE  Pieces(i, n) \in Part
<1>1. plan.calls[i] \in ToolCall /\ i \in Nat
  BY PlannedCalls DEF Typed
<1>2. plan.calls[i].name \in Names
  BY <1>1, ToolCallFields
<1>3. [k \in 1..n |-> k] \in Seq(Nat)
  BY PieceMore
<1> QED BY <1>1, <1>2, <1>3 DEF Pieces, Part

(* Nothing of a call but its place.                                        *)
LEMMA NoCallIsPart == NoCall \in Part
<1>1. <<>> \in Seq(Nat)
  OBVIOUS
<1>2. "" \in Names /\ 0 \in Nat
  BY DEF Names
<1> QED BY <1>1, <1>2 DEF NoCall, Part

(* A piece is merged into the call at its index; calls before it that have *)
(* not begun are left open, and the others are as they were.               *)
LEMMA PieceMerged ==
  ASSUME Typed, Merging, pc = "waiting", stream, NEW i \in DOMAIN plan.calls
  PROVE  LET m == Merged(reply.calls, i, sent.calls[i] + 1, sent.calls[i] = 0)
         IN  /\ m \in Seq(Part) /\ Len(m) <= Len(plan.calls)
             /\ i \in DOMAIN m /\ m[i] = Pieces(i, sent.calls[i] + 1)
             /\ \A j \in DOMAIN plan.calls :
                  j # i =>
                    /\ j \in DOMAIN reply.calls => j \in DOMAIN m /\ m[j] = reply.calls[j]
                    /\ j \in DOMAIN m /\ j \notin DOMAIN reply.calls => m[j] = NoCall
<1> DEFINE c == reply.calls
           L == Len(c)
           N == Len(plan.calls)
           n == sent.calls[i]
           pad == [k \in 1..(IF i > L THEN i - L ELSE 0) |-> NoCall]
           p == Padded(c, i)
           P == Part
           m == Merged(c, i, n + 1, n = 0)
<1>1. /\ N \in Nat /\ DOMAIN plan.calls = 1..N /\ i \in 1..N /\ i \in Nat
  BY PlannedCalls DEF Typed
<1>2. c \in Seq(P)
  BY DEF Typed
<1>3. n \in Nat /\ L <= N
  BY DEF Merging
<1>4. IF n = 0 THEN i \in DOMAIN c => c[i] = NoCall
      ELSE i \in DOMAIN c /\ c[i] = Pieces(i, n)
  BY DEF Merging
<1>5. NoCall \in P
  BY NoCallIsPart
<1>6. Pieces(i, n + 1) \in P
  BY <1>3, PiecesArePart
<1> HIDE DEF c, N, n, P
<1>7. L \in Nat /\ DOMAIN c = 1..L /\ \A j \in 1..L : c[j] \in P
  BY <1>2
<1>8. pad \in Seq(P) /\ Len(pad) = (IF i > L THEN i - L ELSE 0)
      /\ \A k \in 1..Len(pad) : pad[k] = NoCall
  <2> DEFINE d == IF i > L THEN i - L ELSE 0
  <2>1. d \in Nat
    BY <1>1, <1>7
  <2> HIDE DEF d
  <2>2. [k \in 1..d |-> NoCall] \in [1..d -> P]
    BY <1>5
  <2>3. [k \in 1..d |-> NoCall] \in Seq(P) /\ Len([k \in 1..d |-> NoCall]) = d
    BY <2>1, <2>2
  <2> QED BY <2>1, <2>3 DEF d
<1> HIDE DEF pad, L
<1>9. /\ p \in Seq(P) /\ Len(p) = L + Len(pad)
      /\ \A j \in 1..(L + Len(pad)) : p[j] = IF j <= L THEN c[j] ELSE pad[j - L]
  <2>1. p = c \o pad
    BY DEF Padded, pad, L
  <2>2. L = Len(c)
    BY DEF L
  <2> HIDE DEF p
  <2> QED BY <1>2, <1>8, <2>1, <2>2, ConcatProperties
<1> HIDE DEF p
<1>10. /\ Len(p) \in Nat /\ DOMAIN p = 1..Len(p) /\ Len(p) <= N /\ i \in 1..Len(p) /\ L <= Len(p)
       /\ \A j \in 1..Len(p) : p[j] \in P
  <2>1. Len(p) = IF i > L THEN i ELSE L
    BY <1>1, <1>7, <1>8, <1>9
  <2>2. Len(p) \in Nat /\ Len(p) <= N /\ i \in 1..Len(p) /\ L <= Len(p)
    BY <1>1, <1>3, <1>7, <2>1
  <2> QED BY <1>9, <2>2
<1>11. \A j \in 1..Len(p) : p[j] = IF j <= L THEN c[j] ELSE NoCall
  <2> SUFFICES ASSUME NEW j \in 1..Len(p) PROVE p[j] = IF j <= L THEN c[j] ELSE NoCall
    OBVIOUS
  <2>1. ~(j <= L) => j - L \in 1..Len(pad)
    BY <1>7, <1>8, <1>9, <1>10
  <2> QED BY <1>8, <1>9, <2>1
<1>12. p[i] = IF n = 0 THEN NoCall ELSE Pieces(i, n)
  BY <1>1, <1>4, <1>7, <1>10, <1>11
<1>13. m = [p EXCEPT ![i] = Pieces(i, n + 1)]
  <2> DEFINE y == IF n = 0 THEN [p[i] EXCEPT !.id = i, !.name = plan.calls[i].name] ELSE p[i]
  <2>1. m = [p EXCEPT ![i] = [y EXCEPT !.arguments = Append(@, n + 1)]]
    BY DEF Merged, p
  <2>2. y = Pieces(i, n)
    <3>1. CASE n = 0
      <4>1. p[i] = [id |-> 0, name |-> "", arguments |-> <<>>]
        BY <1>12, <3>1 DEF NoCall
      <4> DEFINE z == p[i]
                 w == plan.calls[i].name
      <4>a. y = [z EXCEPT !.id = i, !.name = w]
        BY <3>1
      <4>b. z = [id |-> 0, name |-> "", arguments |-> <<>>]
        BY <4>1
      <4> HIDE DEF y, z, w
      <4>c. y = [id |-> i, name |-> w, arguments |-> <<>>]
        BY <4>a, <4>b
      <4>2. y = [id |-> i, name |-> plan.calls[i].name, arguments |-> <<>>]
        BY <4>c DEF w
      <4>3. [k \in 1..0 |-> k] = <<>>
        OBVIOUS
      <4> QED BY <3>1, <4>2, <4>3 DEF Pieces
    <3>2. CASE n # 0
      BY <1>12, <3>2
    <3> QED BY <3>1, <3>2
  <2> HIDE DEF y, m
  <2>3. [y EXCEPT !.arguments = Append(@, n + 1)]
          = [id |-> i, name |-> plan.calls[i].name, arguments |-> Append([k \in 1..n |-> k], n + 1)]
    <3> DEFINE w == plan.calls[i].name
               a == [k \in 1..n |-> k]
    <3>1. y = [id |-> i, name |-> w, arguments |-> a]
      BY <2>2 DEF Pieces
    <3> HIDE DEF w, a
    <3>2. [y EXCEPT !.arguments = Append(@, n + 1)]
            = [id |-> i, name |-> w, arguments |-> Append(a, n + 1)]
      BY <3>1
    <3> QED BY <3>2 DEF w, a
  <2>4. Append([k \in 1..n |-> k], n + 1) = [k \in 1..(n + 1) |-> k]
    BY <1>3, PieceMore
  <2> QED BY <2>1, <2>3, <2>4 DEF Pieces
<1> HIDE DEF m
<1> DEFINE x == Pieces(i, n + 1)
<1>14. x \in P /\ m = [p EXCEPT ![i] = x]
  BY <1>6, <1>13
<1> HIDE DEF x
<1>15. /\ m \in Seq(P) /\ Len(m) = Len(p) /\ DOMAIN m = 1..Len(p) /\ m[i] = x
       /\ \A j \in 1..Len(p) : j # i => m[j] = p[j]
  BY <1>9, <1>10, <1>14
<1>16. ASSUME NEW j \in 1..N, j # i
       PROVE  /\ j \in DOMAIN c => j \in DOMAIN m /\ m[j] = c[j]
              /\ j \in DOMAIN m /\ j \notin DOMAIN c => m[j] = NoCall
  BY <1>1, <1>7, <1>10, <1>11, <1>15, <1>16
<1> QED BY <1>1, <1>10, <1>15, <1>16 DEF m, x, P, c, n, N

-----------------------------------------------------------------------------
(* Messages, and what a request begins with. *)

(* A text anybody has is a number, and not the next identifier.            *)
LEMMA KnownTexts ==
  ASSUME live \in Nat, NEW t \in Known
  PROVE  t \in Int /\ t # live + 1 /\ (t = Plain \/ t = Literal \/ t \in 1..live)
BY DEF Known, Identifiers, Plain, Literal

(* The marks are apart from each other and from every identifier.          *)
LEMMA MarksDiffer ==
  Plain \in Int /\ Literal \in Int /\ Plain # Literal /\ \A n \in Nat : Plain \notin 1..n /\ Literal \notin 1..n
BY DEF Plain, Literal

(* A fence carries its identifier and holds none of it.                    *)
LEMMA WrappedIsSealed ==
  ASSUME NEW n \in Nat, n # 0, NEW t \in Int
  PROVE  Wrapped(t, n) \in [tag : {n}, text : Int \ {n}]
<1>1. StripNonce(t, n) \in Int \ {n}
  BY DEF StripNonce, Plain
<1> QED BY <1>1 DEF Wrapped

(* A message is sealed when its fences are and its own text is.            *)
LEMMA MessageIsSealed ==
  ASSUME NEW n \in Nat, NEW role \in {"user", "assistant", "tool"}, NEW ids \in Seq(Nat),
         NEW fences \in SUBSET [tag : {n}, text : Int \ {n}], NEW said \in SUBSET Int
  PROVE  Message(role, ids, fences, said) \in Sealed(n)
BY DEF Message, Sealed

(* A conversation stays quiet when a message joins it that is the model's  *)
(* or does not name the identifier.                                        *)
LEMMA QuietMore ==
  ASSUME NEW n, NEW j, NEW c, Quiet(c, j, n), NEW m \in Sealed(n),
         n \in m.said => m.role = "assistant"
  PROVE  /\ Quiet(Append(c, m), j, n) /\ Len(c) \in Nat /\ Len(c) > 0
         /\ Len(Append(c, m)) = Len(c) + 1 /\ Append(c, m)[Len(c) + 1] = m
         /\ \A k \in 1..Len(c) : Append(c, m)[k] = c[k]
<1> DEFINE S == Sealed(n)
           d == Append(c, m)
<1>1. /\ c \in Seq(S) /\ Opened(j) <= Len(c) /\ n \in c[1].said
      /\ \A i \in DOMAIN c :
           n \in c[i].said => i = 1 \/ (i > Opened(j) /\ c[i].role = "assistant")
  BY DEF Quiet
<1>2. Opened(j) \in {1, 3} /\ m \in S
  BY DEF Opened
<1> HIDE DEF S
<1>3. /\ d \in Seq(S) /\ Len(c) \in Nat /\ Len(d) = Len(c) + 1 /\ d[Len(c) + 1] = m
      /\ DOMAIN c = 1..Len(c) /\ DOMAIN d = 1..(Len(c) + 1)
      /\ \A k \in 1..Len(c) : d[k] = c[k]
  BY <1>1, <1>2
<1> HIDE DEF d
<1>4. Len(c) > 0 /\ Opened(j) <= Len(d) /\ d[1] = c[1]
  BY <1>1, <1>2, <1>3
<1>5. ASSUME NEW i \in DOMAIN d, n \in d[i].said
      PROVE  i = 1 \/ (i > Opened(j) /\ d[i].role = "assistant")
  <2>1. CASE i = Len(c) + 1
    BY <1>1, <1>2, <1>3, <1>5, <2>1
  <2>2. CASE i # Len(c) + 1
    <3>1. i \in 1..Len(c)
      BY <1>3, <2>2
    <3> QED BY <1>1, <1>3, <1>5, <3>1
  <2> QED BY <2>1, <2>2
<1>6. Quiet(d, j, n)
  BY <1>1, <1>3, <1>4, <1>5 DEF Quiet, S
<1> QED BY <1>3, <1>4, <1>6 DEF d

(* What a job is.                                                          *)
LEMMA JobFields ==
  ASSUME NEW j \in Jobs
  PROVE  /\ j.kind \in {"assessment", "diagnosis"} /\ j.data \in Int /\ j.kept \in Int
         /\ j.self \in Int /\ j.exchange \in Int /\ j.interactive \in BOOLEAN
<1>1. j \in Job
  OBVIOUS
<1> QED BY <1>1 DEF Job

(* The prompt states the new identifier, which no earlier text carries.    *)
LEMMA OpeningIsSealed ==
  ASSUME live \in Nat, NEW j \in Jobs, {j.data, j.kept, j.self, j.exchange} \subseteq Known
  PROVE  Quiet(Opening(j, live + 1), j, live + 1)
<1> DEFINE n == live + 1
           self == StripFenceIdentifiers(j.self)
           fences == {Wrapped(j.data, n)} \cup
                       (IF j.kind = "diagnosis" THEN {Wrapped(self, n)} ELSE {})
           prompt == Message("user", <<>>, fences, {n})
           said == Message("assistant", <<>>, {}, {j.exchange})
           again == Message("user", <<>>, {}, {j.exchange})
           S == Sealed(n)
<1>1. n \in Nat /\ n # 0 /\ j.data \in Int /\ j.self \in Int /\ j.exchange \in Int
  BY JobFields
<1>2. self \in Int
  BY <1>1 DEF StripFenceIdentifiers, Plain
<1>3. n \notin {j.exchange} /\ {n} \in SUBSET Int /\ {j.exchange} \in SUBSET Int
  <2>1. j.exchange # n
    BY KnownTexts
  <2> QED BY <1>1, <2>1
<1> HIDE DEF n, self
<1>4. fences \in SUBSET [tag : {n}, text : Int \ {n}]
  BY <1>1, <1>2, WrappedIsSealed
<1>5. <<>> \in Seq(Nat) /\ {} \in SUBSET [tag : {n}, text : Int \ {n}]
  OBVIOUS
<1> HIDE DEF fences
<1>6. prompt \in S /\ said \in S /\ again \in S
      /\ prompt.said = {n} /\ said.said = {j.exchange} /\ again.said = {j.exchange}
  <2>1. prompt \in S /\ said \in S /\ again \in S
    BY <1>1, <1>3, <1>4, <1>5, MessageIsSealed
  <2>2. prompt.said = {n} /\ said.said = {j.exchange} /\ again.said = {j.exchange}
    BY DEF Message
  <2> QED BY <2>1, <2>2
<1>7. IF Clarified(j) THEN Opening(j, n) = <<prompt, said, again>>
                      ELSE Opening(j, n) = <<prompt>>
  BY DEF Opening, self, fences
<1> HIDE DEF S, prompt, said, again
<1>8. <<prompt, said, again>> \in Seq(S) /\ <<prompt>> \in Seq(S)
  BY <1>6
<1>9. n \in prompt.said /\ n \notin said.said /\ n \notin again.said
  BY <1>3, <1>6
<1>10. CASE Clarified(j)
  <2>1. Opened(j) = 3
    BY <1>10 DEF Opened
  <2> DEFINE c == <<prompt, said, again>>
  <2>2. Len(c) = 3 /\ DOMAIN c = 1..3 /\ c[1] = prompt /\ c[2] = said /\ c[3] = again
    OBVIOUS
  <2>3. c \in Seq(S) /\ c = Opening(j, n)
    BY <1>7, <1>8, <1>10
  <2> HIDE DEF c
  <2>4. \A i \in 1..3 : i = 1 \/ i = 2 \/ i = 3
    OBVIOUS
  <2>5. Quiet(c, j, n)
    BY <1>9, <2>1, <2>2, <2>3, <2>4 DEF Quiet, S
  <2> QED BY <2>3, <2>5 DEF n
<1>11. CASE ~Clarified(j)
  <2>1. Opened(j) = 1
    BY <1>11 DEF Opened
  <2> DEFINE c == <<prompt>>
  <2>2. Len(c) = 1 /\ DOMAIN c = 1..1 /\ c[1] = prompt
    OBVIOUS
  <2>3. c \in Seq(S) /\ c = Opening(j, n)
    BY <1>7, <1>8, <1>11
  <2> HIDE DEF c
  <2>4. Quiet(c, j, n)
    BY <1>9, <2>1, <2>2, <2>3 DEF Quiet, S
  <2> QED BY <2>3, <2>4 DEF n
<1> QED BY <1>10, <1>11

(* A request begins with what was found, counted and stated of its own.    *)
LEMMA BeginStep == ASSUME IInv, NEW j \in Jobs, Begin(j) PROVE IInv'
<1> DEFINE n == live + 1
           self == StripFenceIdentifiers(j.self)
<1>1. /\ live \in Nat /\ n \in Nat /\ n # 0 /\ pc' = "asking" /\ live' = n /\ job' = j
      /\ last' = Nothing /\ rendered' = FALSE /\ served' = 0 /\ plan' = plan /\ reply' = reply
      /\ suspect' = ForgesFence(j)
      /\ {j.data, j.kept, j.self, j.exchange} \subseteq Known
  BY DEF IInv, Typed, Begin, coming
<1>2. /\ j.kind \in {"assessment", "diagnosis"} /\ j.interactive \in BOOLEAN
      /\ stream' = (j.kind = "assessment" /\ j.interactive /\ ~ForgesFence(j))
      /\ forgery' = (FenceData(j.data, n) \/ (j.kind = "diagnosis" /\ FenceSelfData(self, n)))
  BY JobFields DEF Begin
<1>3. Typed'
  <2>1. suspect' \in BOOLEAN /\ stream' \in BOOLEAN /\ forgery' \in BOOLEAN
    BY <1>1, <1>2 DEF ForgesFence, FenceData, FenceSelfData, FenceForged, Issued
  <2>2. plan \in Reply /\ reply \in [content : BOOLEAN, calls : Seq(Part)]
    BY DEF IInv, Typed
  <2> QED BY <1>1, <2>1, <2>2 DEF Typed
<1>4. Unknowing'
  <2>1. conversation' = Opening(j, live + 1)
    BY DEF Begin, PromptNonce
  <2>2. Quiet(conversation', j, n)
    BY <1>1, <2>1, OpeningIsSealed
  <2> QED BY <1>1, <2>2 DEF Unknowing
<1>5. /\ \A t \in {j.data, j.kept, j.self} : t = Plain \/ t = Literal \/ t \in 1..live
      /\ \A t \in {j.data, j.kept, j.self} : t \in Int /\ t # n
  BY <1>1, KnownTexts
<1>6. \A t \in {j.data, j.kept, j.self} : t \in 1..n <=> t \in 1..live
  BY <1>1, <1>5
<1>7. self \notin 1..n
  <2>1. self = Plain \/ (self = j.self /\ self \notin 1..live)
    BY DEF StripFenceIdentifiers, Issued
  <2> QED BY <1>1, <1>6, <2>1, MarksDiffer
<1>8. Charged'
  <2>1. stream' \/ rendered' => j.data = Plain /\ j.kept = Plain
    BY <1>1, <1>2, <1>5 DEF ForgesFence, FenceForged, Issued
  <2>2. met' = {[how |-> "data", text |-> j.data]} \cup
                 (IF j.kind = "assessment" THEN {[how |-> "data", text |-> j.kept]}
                  ELSE {[how |-> "self", text |-> self]})
    BY DEF Begin
  <2>3. (\E m \in met' : Forges(m, n)) <=>
          (j.data \in 1..n \/ j.data = Literal
             \/ (j.kind = "assessment" /\ (j.kept \in 1..n \/ j.kept = Literal)))
    <3> DEFINE d == [how |-> "data", text |-> j.data]
               k == [how |-> "data", text |-> j.kept]
               o == [how |-> "self", text |-> self]
    <3>1. Forges(d, n) <=> j.data \in 1..n \/ j.data = Literal
      BY DEF Forges
    <3>2. Forges(k, n) <=> j.kept \in 1..n \/ j.kept = Literal
      BY DEF Forges
    <3>3. ~Forges(o, n)
      BY <1>7 DEF Forges
    <3>4. CASE j.kind = "assessment"
      <4>1. met' = {d, k}
        BY <2>2, <3>4
      <4> HIDE DEF d, k, n
      <4> QED BY <3>1, <3>2, <3>4, <4>1
    <3>5. CASE j.kind # "assessment"
      <4>1. met' = {d, o}
        BY <2>2, <3>5
      <4> HIDE DEF d, o, n
      <4> QED BY <3>1, <3>3, <3>5, <4>1
    <3> QED BY <3>4, <3>5
  <2>4. forgery' \/ suspect' <=>
          (j.data \in 1..n \/ j.data = Literal
             \/ (j.kind = "assessment" /\ (j.kept \in 1..n \/ j.kept = Literal)))
    BY <1>1, <1>2, <1>6, <1>7 DEF ForgesFence, FenceData, FenceSelfData, FenceForged, Issued
  <2>5. ForgeryIsChargedToItsRequest'
    BY <1>1 DEF ForgeryIsChargedToItsRequest, Nothing
  <2> QED BY <1>1, <2>1, <2>3, <2>4, <2>5 DEF Charged
<1>9. Merging' /\ InOrder'
  BY <1>1 DEF Merging, InOrder, ConclusionIsAsSent, Nothing
<1> QED BY <1>3, <1>4, <1>8, <1>9 DEF IInv

-----------------------------------------------------------------------------
(* How a request ends. *)

(* A verdict on a request that forgery was charged to never goes ahead, and *)
(* one that nothing was charged to is never held for it.                   *)
LEMMA Judged ==
  ASSUME Typed, pc # "idle", NEW what, NEW says \in Known
  PROVE  LET v == Verdict(what, says)
             forged == forgery \/ suspect
             failed == what \notin Conclusions(job.kind)
         IN  /\ v # "nothing"
             /\ forged => v \in {"held", "left in place"}
             /\ v = "left in place" => forged
             /\ v = "held" => forged \/ failed \/ says \in 1..live
<1> DEFINE forged == forgery \/ suspect
           failed == what \notin Conclusions(job.kind)
           echoed == StripFenceIdentifiers(says) # says
<1>1. job.kind \in {"assessment", "diagnosis"}
  BY JobFields DEF Typed
<1>2. echoed => says \in 1..live
  BY DEF StripFenceIdentifiers, Issued
<1>3. CASE job.kind = "assessment"
  <2>1. Verdict(what, says) = IF failed \/ forged \/ echoed THEN "held" ELSE what
    BY <1>3 DEF Verdict
  <2>2. ~failed => what = "settled"
    BY <1>3 DEF Conclusions
  <2> HIDE DEF forged, failed, echoed
  <2>3. CASE failed \/ forged \/ echoed
    BY <1>2, <2>1, <2>3 DEF forged, failed
  <2>4. CASE ~(failed \/ forged \/ echoed)
    BY <2>1, <2>2, <2>4 DEF forged, failed
  <2> QED BY <2>3, <2>4
<1>4. CASE job.kind = "diagnosis"
  <2>1. ~failed => what \in {"wait", "fix", "unfixable"}
    BY <1>4 DEF Conclusions
  <2>2. forged => Verdict(what, says) = "left in place"
    BY <1>4 DEF Verdict
  <2>3. ~forged /\ failed => Verdict(what, says) = "not diagnosed"
    BY <1>4 DEF Verdict
  <2>4. ~forged /\ ~failed => Verdict(what, says) = what
    BY <1>4 DEF Verdict
  <2> HIDE DEF forged, failed
  <2> QED BY <2>1, <2>2, <2>3, <2>4 DEF forged, failed
<1> QED BY <1>1, <1>3, <1>4

(* A request ends with its verdict, on what was charged to it.             *)
LEMMA ReturnStep ==
  ASSUME IInv, pc # "idle", NEW what, NEW says \in Known, NEW arguments,
         Return(what, says, arguments),
         what \in Conclusions(job.kind) => Submitted(arguments)
  PROVE  IInv'
<1> DEFINE v == Verdict(what, says)
           failed == what \notin Conclusions(job.kind)
<1>1. /\ pc' = "idle" /\ forgery' = FALSE
      /\ last' = [what |-> v, says |-> says, failed |-> failed, arguments |-> arguments]
      /\ UNCHANGED <<live, job, suspect, stream, conversation, served, plan, reply, met, rendered>>
  BY DEF Return, talk, coming
<1>2. /\ v # "nothing"
      /\ forgery \/ suspect => v \in {"held", "left in place"}
      /\ v = "left in place" => forgery \/ suspect
      /\ v = "held" => forgery \/ suspect \/ failed \/ says \in 1..live
  BY Judged DEF IInv
<1>3. forgery \/ suspect <=> \E m \in met : Forges(m, live)
  BY DEF IInv, Charged
<1>4. /\ last'.what = v /\ last'.says = says /\ last'.failed = failed
      /\ last'.arguments = arguments
  BY <1>1
<1> HIDE DEF v, failed
<1>5. Typed'
  BY <1>1 DEF IInv, Typed
<1>6. Unknowing' /\ Merging'
  BY <1>1 DEF Unknowing, Merging
<1>7. stream' \/ rendered' => job'.data = Plain /\ job'.kept = Plain
  BY <1>1 DEF IInv, Charged
<1>8. ForgeryIsChargedToItsRequest'
  <2> DEFINE forged == \E m \in met : Forges(m, live)
  <2>1. forged' <=> forged
    BY <1>1 DEF Forges
  <2>2. /\ last'.what # "nothing" =>
             /\ forged => last'.what \in {"held", "left in place"}
             /\ last'.what = "left in place" => forged
             /\ last'.what = "held" => forged \/ last'.failed \/ last'.says \in 1..live'
    BY <1>1, <1>2, <1>3, <1>4
  <2>3. rendered' => job'.data \in {Plain} /\ job'.kept \in {Plain}
    BY <1>7
  <2>4. forged <=> \E m \in met' : m.text \in 1..live' \/ (m.how = "data" /\ m.text = Literal)
    BY <1>1 DEF Forges
  <2> HIDE DEF forged
  <2> QED BY <2>2, <2>3, <2>4 DEF ForgeryIsChargedToItsRequest
<1>9. ConclusionIsAsSent'
  <2> SUFFICES ASSUME ~last'.failed PROVE Submitted(last.arguments)'
    BY DEF ConclusionIsAsSent, Submitted
  <2>1. Submitted(arguments)
    BY <1>4 DEF failed
  <2> QED BY <1>1, <1>4, <2>1 DEF Submitted
<1> QED BY <1>1, <1>5, <1>6, <1>7, <1>8, <1>9 DEF IInv, Charged, InOrder

-----------------------------------------------------------------------------
(* A turn. *)

(* What a request knows of itself while it runs.                           *)
Kept ==
  /\ UNCHANGED <<live, job, suspect, stream, last>>
  /\ pc # "idle" /\ pc' # "idle"

(* As long as a request runs there is no verdict to charge or to check.    *)
LEMMA NoVerdictYet ==
  ASSUME IInv, Kept, rendered' => rendered \/ stream,
         \/ forgery' = forgery /\ met' = met
         \/ forgery' \in BOOLEAN /\ (forgery' \/ suspect <=> \E m \in met' : Forges(m, live))
  PROVE  Charged' /\ ConclusionIsAsSent'
<1>1. last' = Nothing /\ last'.what = "nothing"
  BY DEF IInv, Typed, Kept, Nothing
<1>2. stream' \/ rendered' => job'.data = Plain /\ job'.kept = Plain
  BY DEF IInv, Charged, Kept
<1>3. ForgeryIsChargedToItsRequest' /\ ConclusionIsAsSent'
  BY <1>1, <1>2 DEF ForgeryIsChargedToItsRequest, ConclusionIsAsSent
<1>4. forgery' \/ suspect' <=> \E m \in met' : Forges(m, live')
  BY DEF IInv, Charged, Kept
<1> QED BY <1>2, <1>3, <1>4 DEF Charged

(* The provider is asked, and has nothing sent yet.                        *)
LEMMA CompleteStep == ASSUME IInv, NEW r \in Replies, Complete(r) PROVE IInv'
<1>1. /\ pc = "asking" /\ pc' = "waiting" /\ plan' = r /\ reply' = NoReply
      /\ sent' = [content |-> FALSE, calls |-> [i \in DOMAIN r.calls |-> 0]]
      /\ UNCHANGED <<live, forgery, job, suspect, stream, conversation, served, last, met, rendered>>
      /\ \A i \in DOMAIN r.calls : r.calls[i].says \in Known
  BY DEF Complete, fence, talk
<1>2. Kept
  BY <1>1 DEF Kept
<1>3. r \in Reply /\ Len(r.calls) \in Nat
  BY PlannedCalls
<1>4. /\ reply' \in [content : BOOLEAN, calls : Seq(Part)] /\ reply'.calls = <<>>
      /\ Len(reply'.calls) = 0 /\ DOMAIN reply'.calls = {}
  <2>1. <<>> \in Seq(Part) /\ Len(<<>>) = 0 /\ DOMAIN <<>> = {}
    OBVIOUS
  <2> QED BY <1>1, <2>1 DEF NoReply
<1>5. Typed'
  <2>1. Known' = Known
    BY <1>1 DEF Known, Identifiers
  <2> QED BY <1>1, <1>3, <1>4, <2>1 DEF IInv, Typed
<1>6. Unknowing'
  BY <1>1 DEF IInv, Unknowing
<1>7. Merging'
  <2>1. sent' \in [content : BOOLEAN, calls : [DOMAIN r.calls -> Nat]]
    BY <1>1
  <2>2. \A i \in DOMAIN r.calls : sent'.calls[i] = 0
    BY <1>1
  <2> QED BY <1>1, <1>3, <1>4, <2>1, <2>2 DEF Merging
<1>8. Charged' /\ ConclusionIsAsSent'
  BY <1>1, <1>2, NoVerdictYet
<1> QED BY <1>1, <1>5, <1>6, <1>7, <1>8 DEF IInv, InOrder

(* A reply joins the conversation; with calls in it, they are served next. *)
LEMMA HeardIs ==
  ASSUME live \in Nat, live # 0, Quiet(conversation, job, live), plan \in Reply,
         NEW r, r.calls \in Seq(Part), Heard(r)
  PROVE  /\ Quiet(conversation', job, live) /\ Len(conversation') \in Nat /\ served' = 0
         /\ r.calls = <<>> => pc' = "asking"
         /\ r.calls # <<>> =>
              /\ pc' = "serving" /\ Len(conversation') > 0
              /\ conversation'[Len(conversation')].role = "assistant"
<1> DEFINE ids == [i \in DOMAIN r.calls |-> r.calls[i].id]
           assistant == Message("assistant", ids, {}, Mentions)
           told == Message("user", <<>>, {}, {})
<1>1. ids \in Seq(Nat)
  <2> DEFINE c == r.calls
             P == Part
  <2>1. c \in Seq(P)
    OBVIOUS
  <2> HIDE DEF c, P
  <2>2. Len(c) \in Nat /\ DOMAIN c = 1..Len(c) /\ \A i \in 1..Len(c) : c[i] \in P
    BY <2>1
  <2>3. \A i \in 1..Len(c) : c[i].id \in Nat
    BY <2>2 DEF P, Part
  <2>4. [i \in 1..Len(c) |-> c[i].id] \in [1..Len(c) -> Nat]
    BY <2>3
  <2>5. [i \in 1..Len(c) |-> c[i].id] \in Seq(Nat)
    BY <2>2, <2>4
  <2> QED BY <2>2, <2>5 DEF c
<1>2. /\ Mentions \in SUBSET Int /\ {} \in SUBSET Int /\ <<>> \in Seq(Nat)
      /\ {} \in SUBSET [tag : {live}, text : Int \ {live}]
  <2>1. plan.quotes \in Int /\ \A i \in DOMAIN plan.calls : plan.calls[i] \in ToolCall
    BY PlannedCalls
  <2>2. \A i \in DOMAIN plan.calls : plan.calls[i].says \in Int
    BY <2>1, ToolCallFields
  <2> QED BY <2>1, <2>2 DEF Mentions
<1> HIDE DEF ids
<1>3. /\ assistant \in Sealed(live) /\ told \in Sealed(live)
      /\ assistant.role = "assistant" /\ told.said = {}
  <2>1. assistant \in Sealed(live)
    BY <1>1, <1>2, MessageIsSealed
  <2>2. told \in Sealed(live)
    BY <1>1, <1>2, MessageIsSealed
  <2>3. assistant.role = "assistant" /\ told.said = {}
    BY DEF Message
  <2> QED BY <2>1, <2>2, <2>3
<1> DEFINE once == Append(conversation, assistant)
           twice == Append(once, told)
<1>5. /\ r.calls = <<>> => conversation' = twice /\ pc' = "asking"
      /\ r.calls # <<>> => conversation' = once /\ pc' = "serving"
      /\ served' = 0
  BY DEF Heard, ids
<1> HIDE DEF assistant, told
<1>6. /\ Quiet(once, job, live) /\ Len(once) \in Nat /\ Len(once) > 0
      /\ once[Len(once)] = assistant
  BY <1>3, QuietMore
<1> HIDE DEF once
<1>7. Quiet(twice, job, live) /\ Len(twice) \in Nat
  BY <1>3, <1>6, QuietMore
<1> HIDE DEF twice
<1> QED BY <1>3, <1>5, <1>6, <1>7

(* A reply that is heard is heard whole, and nothing of it is served yet.  *)
LEMMA HeardStep ==
  ASSUME IInv, pc = "waiting", Heard(reply'), plan' = plan,
         reply' \in [content : BOOLEAN, calls : Seq(Part)], Len(reply'.calls) = Len(plan.calls),
         \A i \in DOMAIN plan.calls : reply'.calls[i] = Pieces(i, plan.calls[i].pieces),
         UNCHANGED <<live, forgery, job, suspect, stream, last, met, rendered>>
  PROVE  IInv'
<1>1. /\ live \in Nat /\ live # 0 /\ Quiet(conversation, job, live) /\ plan \in Reply
  BY DEF IInv, Typed, Unknowing
<1>2. reply'.calls \in Seq(Part)
  OBVIOUS
<1>3. /\ Quiet(conversation', job, live) /\ Len(conversation') \in Nat /\ served' = 0
      /\ reply'.calls = <<>> => pc' = "asking"
      /\ reply'.calls # <<>> =>
           /\ pc' = "serving" /\ Len(conversation') > 0
           /\ conversation'[Len(conversation')].role = "assistant"
  BY <1>1, <1>2, HeardIs
<1>4. pc' \in {"asking", "serving"}
  BY <1>3
<1>5. Kept
  BY <1>4 DEF Kept
<1>6. Typed'
  <2>1. Known' = Known
    BY DEF Known, Identifiers
  <2> QED BY <1>3, <1>4, <2>1 DEF IInv, Typed
<1>7. Unknowing'
  BY <1>3 DEF Unknowing
<1>8. Merging'
  BY <1>4 DEF Merging
<1>9. Charged' /\ ConclusionIsAsSent'
  BY <1>5, NoVerdictYet
<1>10. IsWhole'
  BY DEF IsWhole, Pieces
<1>11. pc' = "serving" => /\ served' < Len(plan'.calls) /\ served' < Len(conversation')
                          /\ conversation'[Len(conversation') - served'].role = "assistant"
                          /\ \A h \in 1..served' : plan'.calls[h].name # "submit"
  <2> SUFFICES ASSUME pc' = "serving"
               PROVE  /\ served' < Len(plan'.calls) /\ served' < Len(conversation')
                      /\ conversation'[Len(conversation') - served'].role = "assistant"
                      /\ \A h \in 1..served' : plan'.calls[h].name # "submit"
    OBVIOUS
  <2>1. reply'.calls # <<>>
    BY <1>3
  <2>2. Len(plan.calls) \in Nat /\ Len(plan.calls) # 0
    BY <1>1, <1>2, <2>1, PlannedCalls, EmptySeq
  <2>3. Len(conversation') \in Nat
    BY <1>3
  <2>4. Len(conversation') - 0 = Len(conversation')
    BY <2>3
  <2> QED BY <1>3, <2>1, <2>2, <2>4
<1> QED BY <1>6, <1>7, <1>8, <1>9, <1>10, <1>11 DEF IInv, InOrder

(* One body carries the reply as the provider has it.                      *)
LEMMA AnswersStep == ASSUME IInv, Answers PROVE IInv'
<1>1. /\ pc = "waiting" /\ Heard(reply') /\ plan' = plan
      /\ reply' = [content |-> plan.content,
                   calls |-> [i \in DOMAIN plan.calls |-> Whole(plan.calls[i], i)]]
      /\ UNCHANGED <<live, forgery, job, suspect, stream, last, met, rendered>>
  BY DEF Answers, fence
<1>2. /\ plan \in Reply /\ Len(plan.calls) \in Nat /\ DOMAIN plan.calls = 1..Len(plan.calls)
      /\ plan.content \in BOOLEAN
      /\ \A i \in DOMAIN plan.calls : plan.calls[i].pieces \in Nat
  BY PlannedCalls, ToolCallFields DEF IInv, Typed
<1>3. \A i \in DOMAIN plan.calls : Whole(plan.calls[i], i) = Pieces(i, plan.calls[i].pieces)
  BY DEF Whole, Pieces
<1> DEFINE n == Len(plan.calls)
           f == [i \in 1..n |-> Pieces(i, plan.calls[i].pieces)]
<1>4. \A i \in 1..n : f[i] \in Part
  BY <1>2, PiecesArePart DEF IInv
<1>5. reply'.calls = f /\ reply'.content \in BOOLEAN
  BY <1>1, <1>2, <1>3
<1>6. f \in Seq(Part) /\ Len(f) = n
  <2> HIDE DEF n
  <2>1. n \in Nat /\ f \in [1..n -> Part]
    BY <1>2, <1>4 DEF n
  <2> HIDE DEF f
  <2> QED BY <2>1
<1>7. reply' \in [content : BOOLEAN, calls : Seq(Part)]
  <2>1. reply' = [content |-> reply'.content, calls |-> reply'.calls]
    BY <1>1
  <2> QED BY <1>5, <1>6, <2>1
<1>8. \A i \in DOMAIN plan.calls : reply'.calls[i] = Pieces(i, plan.calls[i].pieces)
  BY <1>2, <1>5
<1> QED BY <1>1, <1>5, <1>6, <1>7, <1>8, HeardStep

(* Prose is shown as it comes, of a request that may show it.              *)
LEMMA StreamContentStep == ASSUME IInv, StreamContent PROVE IInv'
<1>1. /\ pc = "waiting" /\ stream /\ reply' = [reply EXCEPT !.content = TRUE]
      /\ sent' = [sent EXCEPT !.content = TRUE] /\ rendered' = TRUE
      /\ UNCHANGED <<live, forgery, pc, job, suspect, stream, conversation, served, plan, last, met>>
  BY DEF StreamContent, fence, bracket, talk
<1>2. Kept
  BY <1>1 DEF Kept
<1>3. reply' \in [content : BOOLEAN, calls : Seq(Part)] /\ reply'.calls = reply.calls
  BY <1>1 DEF IInv, Typed
<1>4. Typed'
  <2>1. Known' = Known
    BY <1>1 DEF Known, Identifiers
  <2> QED BY <1>1, <1>3, <2>1 DEF IInv, Typed
<1>5. Unknowing'
  BY <1>1 DEF IInv, Unknowing
<1>6. Merging'
  <2>1. sent \in [content : BOOLEAN, calls : [DOMAIN plan.calls -> Nat]]
    BY <1>1 DEF IInv, Merging
  <2>2. sent' \in [content : BOOLEAN, calls : [DOMAIN plan.calls -> Nat]] /\ sent'.calls = sent.calls
    BY <1>1, <2>1
  <2> QED BY <1>1, <1>3, <2>2 DEF IInv, Merging, Pieces
<1>7. Charged' /\ ConclusionIsAsSent'
  BY <1>1, <1>2, NoVerdictYet
<1> QED BY <1>1, <1>4, <1>5, <1>6, <1>7 DEF IInv, InOrder

(* A piece is merged where it belongs, whenever it comes.                  *)
LEMMA StreamPieceStep == ASSUME IInv, NEW i \in DOMAIN plan.calls, StreamPiece(i) PROVE IInv'
<1> DEFINE n == sent.calls[i]
           m == Merged(reply.calls, i, n + 1, n = 0)
           D == DOMAIN plan.calls
<1>1. /\ pc = "waiting" /\ stream
      /\ sent' = [sent EXCEPT !.calls[i] = @ + 1]
      /\ reply' = [reply EXCEPT !.calls = Merged(@, i, sent'.calls[i], sent.calls[i] = 0)]
      /\ UNCHANGED <<live, forgery, pc, job, suspect, stream, conversation, served, plan, last,
                     met, rendered>>
  BY DEF StreamPiece, fence, bracket, talk
<1>2. Kept
  BY <1>1 DEF Kept
<1>3. /\ sent \in [content : BOOLEAN, calls : [D -> Nat]]
      /\ Len(reply.calls) <= Len(plan.calls)
      /\ \A j \in D :
           IF sent.calls[j] = 0 THEN j \in DOMAIN reply.calls => reply.calls[j] = NoCall
           ELSE j \in DOMAIN reply.calls /\ reply.calls[j] = Pieces(j, sent.calls[j])
  BY <1>1 DEF IInv, Merging
<1>4. /\ sent' \in [content : BOOLEAN, calls : [D -> Nat]] /\ sent'.calls[i] = n + 1
      /\ \A j \in D : j # i => sent'.calls[j] = sent.calls[j]
      /\ n \in Nat
  <2> HIDE DEF D
  <2>1. i \in D
    BY DEF D
  <2> DEFINE f == sent.calls
  <2>2. f \in [D -> Nat] /\ sent.content \in BOOLEAN /\ f[i] = n
    BY <1>3
  <2>3. sent'.calls = [f EXCEPT ![i] = @ + 1] /\ sent'.content = sent.content
        /\ sent' = [content |-> sent'.content, calls |-> sent'.calls]
    BY <1>1, <1>3
  <2> HIDE DEF f, n
  <2>4. /\ [f EXCEPT ![i] = @ + 1] \in [D -> Nat] /\ [f EXCEPT ![i] = @ + 1][i] = n + 1
        /\ \A j \in D : j # i => [f EXCEPT ![i] = @ + 1][j] = f[j]
        /\ n \in Nat
    BY <2>1, <2>2
  <2> QED BY <2>2, <2>3, <2>4 DEF f
<1>5. /\ m \in Seq(Part) /\ Len(m) <= Len(plan.calls)
      /\ i \in DOMAIN m /\ m[i] = Pieces(i, n + 1)
      /\ \A j \in D : j # i =>
            /\ j \in DOMAIN reply.calls => j \in DOMAIN m /\ m[j] = reply.calls[j]
            /\ j \in DOMAIN m /\ j \notin DOMAIN reply.calls => m[j] = NoCall
  BY <1>1, PieceMerged DEF IInv
<1>6. reply \in [content : BOOLEAN, calls : Seq(Part)] /\ reply' = [reply EXCEPT !.calls = m]
  BY <1>1, <1>4 DEF IInv, Typed
<1> HIDE DEF m, D
<1>7. reply' \in [content : BOOLEAN, calls : Seq(Part)] /\ reply'.calls = m
  BY <1>5, <1>6
<1>8. Typed'
  <2>1. Known' = Known
    BY <1>1 DEF Known, Identifiers
  <2> QED BY <1>1, <1>7, <2>1 DEF IInv, Typed
<1>9. Unknowing'
  BY <1>1 DEF IInv, Unknowing
<1>10. ASSUME NEW j \in D
       PROVE  IF sent'.calls[j] = 0 THEN j \in DOMAIN m => m[j] = NoCall
              ELSE j \in DOMAIN m /\ m[j] = Pieces(j, sent'.calls[j])
  <2>1. CASE j = i
    <3>1. n + 1 # 0
      BY <1>4
    <3> QED BY <1>4, <1>5, <2>1, <3>1
  <2>2. CASE j # i
    <3>1. sent'.calls[j] = sent.calls[j]
      BY <1>4, <2>2
    <3>2. CASE sent.calls[j] = 0
      BY <1>3, <1>5, <2>2, <3>1, <3>2
    <3>3. CASE sent.calls[j] # 0
      BY <1>3, <1>5, <2>2, <3>1, <3>3
    <3> QED BY <3>2, <3>3
  <2> QED BY <2>1, <2>2
<1>11. Merging'
  BY <1>1, <1>4, <1>5, <1>7, <1>10 DEF Merging, Pieces, D
<1>12. Charged' /\ ConclusionIsAsSent'
  BY <1>1, <1>2, NoVerdictYet
<1> QED BY <1>1, <1>8, <1>9, <1>11, <1>12 DEF IInv, InOrder

(* Once every piece has come, whatever the order, the reply is whole.      *)
LEMMA StreamDoneStep == ASSUME IInv, StreamDone PROVE IInv'
<1>1. /\ pc = "waiting" /\ stream /\ SentAll /\ Heard(reply)
      /\ UNCHANGED <<live, forgery, job, suspect, stream, plan, sent, reply, last, met, rendered>>
  BY DEF StreamDone, fence, coming
<1>2. /\ Len(reply.calls) <= Len(plan.calls)
      /\ \A j \in DOMAIN plan.calls :
           IF sent.calls[j] = 0 THEN j \in DOMAIN reply.calls => reply.calls[j] = NoCall
           ELSE j \in DOMAIN reply.calls /\ reply.calls[j] = Pieces(j, sent.calls[j])
  BY <1>1 DEF IInv, Merging
<1>3. /\ plan \in Reply /\ Len(plan.calls) \in Nat /\ DOMAIN plan.calls = 1..Len(plan.calls)
      /\ \A j \in DOMAIN plan.calls : plan.calls[j].pieces # 0
      /\ reply \in [content : BOOLEAN, calls : Seq(Part)]
  <2>1. plan \in Reply
    BY DEF IInv, Typed
  <2>2. \A j \in DOMAIN plan.calls : plan.calls[j].pieces \in Nat /\ plan.calls[j].pieces >= 1
    BY <2>1, PlannedCalls, ToolCallFields
  <2>3. \A j \in DOMAIN plan.calls : plan.calls[j].pieces # 0
    BY <2>2
  <2> QED BY <2>1, <2>3, PlannedCalls DEF IInv, Typed
<1>4. \A j \in DOMAIN plan.calls :
        j \in DOMAIN reply.calls /\ reply.calls[j] = Pieces(j, plan.calls[j].pieces)
  BY <1>1, <1>2, <1>3 DEF SentAll
<1>5. Len(reply.calls) \in Nat /\ DOMAIN reply.calls = 1..Len(reply.calls)
  <2> DEFINE c == reply.calls
             P == Part
  <2>1. c \in Seq(P)
    BY <1>3
  <2> HIDE DEF c, P
  <2>2. Len(c) \in Nat /\ DOMAIN c = 1..Len(c)
    BY <2>1
  <2> QED BY <2>2 DEF c
<1>6. Len(reply.calls) = Len(plan.calls)
  <2> DEFINE a == Len(plan.calls)
             b == Len(reply.calls)
  <2>1. \A j \in 1..a : j \in 1..b
    BY <1>3, <1>4, <1>5
  <2>2. a \in Nat /\ b \in Nat /\ b <= a
    BY <1>2, <1>3, <1>5
  <2> HIDE DEF a, b
  <2>3. a = b
    BY <2>1, <2>2
  <2> QED BY <2>3 DEF a, b
<1>7. Heard(reply')
  BY <1>1 DEF Heard
<1>8. /\ reply' \in [content : BOOLEAN, calls : Seq(Part)] /\ Len(reply'.calls) = Len(plan.calls)
      /\ \A i \in DOMAIN plan.calls : reply'.calls[i] = Pieces(i, plan.calls[i].pieces)
  BY <1>1, <1>3, <1>4, <1>6
<1> QED BY <1>1, <1>7, <1>8, HeardStep

(* A conversation may fail on any text, or run out of turns.               *)
LEMMA FailsStep ==
  ASSUME IInv, GiveUp \/ \E text \in Known : Breaks(text)
  PROVE  IInv'
<1>1. "failed" \notin Conclusions(job.kind)
  BY DEF Conclusions
<1>2. CASE GiveUp
  <2>1. pc # "idle" /\ Return("failed", Plain, <<>>) /\ Plain \in Known
    BY <1>2 DEF GiveUp, Known
  <2> QED BY <1>1, <2>1, ReturnStep
<1>3. ASSUME NEW text \in Known, Breaks(text) PROVE IInv'
  <2>1. pc # "idle" /\ Return("failed", text, <<>>)
    BY <1>3 DEF Breaks
  <2> QED BY <1>1, <2>1, ReturnStep
<1> QED BY <1>2, <1>3

-----------------------------------------------------------------------------
(* The calls of a reply. *)

(* The call that is served next is the next of the plan.                   *)
LEMMA ServedNext ==
  ASSUME IInv, pc = "serving"
  PROVE  LET i == served + 1
         IN  /\ i \in DOMAIN plan.calls /\ served \in Nat
             /\ Len(reply.calls) = Len(plan.calls) /\ Len(plan.calls) \in Nat
             /\ DOMAIN reply.calls = DOMAIN plan.calls
             /\ DOMAIN plan.calls = 1..Len(plan.calls)
             /\ reply.calls[i] = Pieces(i, plan.calls[i].pieces)
             /\ reply.calls[i].name = plan.calls[i].name /\ reply.calls[i].id \in Nat
             /\ Call = plan.calls[i] /\ Call.says \in Known
<1>1. /\ served \in Nat /\ served < Len(plan.calls) /\ IsWhole /\ plan \in Reply
      /\ reply \in [content : BOOLEAN, calls : Seq(Part)]
      /\ \A i \in DOMAIN plan.calls : plan.calls[i].says \in Known
  BY DEF IInv, Typed, InOrder
<1>2. Len(plan.calls) \in Nat /\ DOMAIN plan.calls = 1..Len(plan.calls)
  BY <1>1, PlannedCalls
<1>3. served + 1 \in DOMAIN plan.calls
  BY <1>1, <1>2
<1>4. DOMAIN reply.calls = 1..Len(reply.calls)
  <2> DEFINE c == reply.calls
             P == Part
  <2>1. c \in Seq(P)
    BY <1>1
  <2> HIDE DEF c, P
  <2> QED BY <2>1 DEF c
<1> QED BY <1>1, <1>2, <1>3, <1>4 DEF IsWhole, Pieces, Call

(* What a call adds to the texts met, and to the latch.                    *)
LEMMA MetMore ==
  ASSUME IInv, pc # "idle", NEW A, met' = met \cup A, NEW g \in BOOLEAN,
         forgery' = (forgery \/ g), g <=> \E m \in A : Forges(m, live)
  PROVE  forgery' \in BOOLEAN /\ (forgery' \/ suspect <=> \E m \in met' : Forges(m, live))
<1>1. forgery \/ suspect <=> \E m \in met : Forges(m, live)
  BY DEF IInv, Charged
<1> QED BY <1>1

(* The result of a call goes back to the model, sealed, and the next call  *)
(* is served or the next turn begins.                                      *)
LEMMA ResultStep ==
  ASSUME IInv, pc = "serving", NEW fences \in SUBSET [tag : {live}, text : Int \ {live}],
         Result(fences), plan.calls[served + 1].name # "submit",
         \/ forgery' = forgery /\ met' = met
         \/ forgery' \in BOOLEAN /\ (forgery' \/ suspect <=> \E m \in met' : Forges(m, live))
  PROVE  IInv'
<1> DEFINE i == served + 1
           msg == Message("tool", <<reply.calls[i].id>>, fences, {})
           N == Len(plan.calls)
<1>1. /\ i \in 1..N /\ served \in Nat /\ Len(reply.calls) = N /\ N \in Nat
      /\ reply.calls[i].id \in Nat
  BY ServedNext
<1>2. /\ conversation' = Append(conversation, msg)
      /\ \/ i = N /\ pc' = "asking" /\ served' = 0
         \/ i # N /\ pc' = "serving" /\ served' = i
      /\ UNCHANGED <<live, job, suspect, stream, plan, reply, last, rendered>>
  BY <1>1 DEF Result, coming
<1>3. Quiet(conversation, job, live) /\ live \in Nat /\ live # 0
  BY DEF IInv, Unknowing, Typed
<1>4. msg \in Sealed(live) /\ msg.said = {}
  <2>1. <<reply.calls[i].id>> \in Seq(Nat)
    BY <1>1
  <2>2. {} \in SUBSET Int
    OBVIOUS
  <2>3. msg \in Sealed(live)
    BY <1>3, <2>1, <2>2, MessageIsSealed
  <2>4. msg.said = {}
    BY DEF Message
  <2> QED BY <2>3, <2>4
<1> HIDE DEF msg
<1>5. /\ Quiet(conversation', job, live) /\ Len(conversation') = Len(conversation) + 1
      /\ Len(conversation) \in Nat
      /\ \A k \in 1..Len(conversation) : conversation'[k] = conversation[k]
  BY <1>2, <1>3, <1>4, QuietMore
<1>6. Kept
  BY <1>2 DEF Kept
<1>7. Typed'
  <2>1. Known' = Known
    BY <1>2 DEF Known, Identifiers
  <2> QED BY <1>1, <1>2, <2>1 DEF IInv, Typed
<1>8. Unknowing'
  BY <1>2, <1>5 DEF Unknowing
<1>9. Merging'
  BY <1>2 DEF Merging
<1>10. Charged' /\ ConclusionIsAsSent'
  BY <1>2, <1>6, NoVerdictYet
<1>11. ASSUME pc' = "serving"
       PROVE  /\ IsWhole' /\ served' < Len(plan'.calls)
              /\ \A h \in 1..served' : plan'.calls[h].name # "submit"
              /\ conversation'[Len(conversation') - served'].role = "assistant"
              /\ served' < Len(conversation')
  <2>1. served' = i /\ i # N
    BY <1>2, <1>11
  <2>2. /\ IsWhole /\ served < Len(conversation)
        /\ \A h \in 1..served : plan.calls[h].name # "submit"
        /\ conversation[Len(conversation) - served].role = "assistant"
    BY DEF IInv, InOrder
  <2>3. IsWhole'
    BY <1>2, <2>2 DEF IsWhole, Pieces
  <2>4. served' < Len(plan'.calls)
    BY <1>1, <1>2, <2>1
  <2>5. \A h \in 1..served' : plan'.calls[h].name # "submit"
    <3>1. \A h \in 1..(served + 1) : h \in 1..served \/ h = served + 1
      BY <1>1
    <3> QED BY <1>2, <2>1, <2>2, <3>1
  <2>6. /\ Len(conversation') - served' = Len(conversation) - served
        /\ Len(conversation) - served \in 1..Len(conversation)
        /\ served' < Len(conversation')
    BY <1>1, <1>5, <2>1, <2>2
  <2>7. conversation'[Len(conversation') - served'] = conversation[Len(conversation) - served]
    BY <1>5, <2>6
  <2> QED BY <2>2, <2>3, <2>4, <2>5, <2>6, <2>7
<1> QED BY <1>7, <1>8, <1>9, <1>10, <1>11 DEF IInv, InOrder

(* A text is fenced under the live identifier.                             *)
LEMMA FencedIsSealed ==
  ASSUME IInv, pc # "idle", NEW t \in Int
  PROVE  {Wrapped(t, live)} \in SUBSET [tag : {live}, text : Int \ {live}]
<1>1. live \in Nat /\ live # 0
  BY DEF IInv, Typed
<1>2. Wrapped(t, live) \in [tag : {live}, text : Int \ {live}]
  BY <1>1, WrappedIsSealed
<1> QED BY <1>2

(* A call that is refused, or whose arguments do not decode, is told so.   *)
LEMMA RefuseStep == ASSUME IInv, Refuse \/ FailToDecode PROVE IInv'
<1>1. /\ pc = "serving" /\ reply.calls[served + 1].name \in Tools \cup {"unknown", "garbled"}
      /\ Result({Wrapped(Plain, live)}) /\ forgery' = forgery /\ met' = met
  BY DEF Refuse, FailToDecode, ServeNext, ToolError
<1>2. plan.calls[served + 1].name # "submit"
  BY <1>1, ServedNext DEF Tools
<1>3. {Wrapped(Plain, live)} \in SUBSET [tag : {live}, text : Int \ {live}]
  BY <1>1, FencedIsSealed, MarksDiffer
<1> QED BY <1>1, <1>2, <1>3, ResultStep

(* A call that is let through carries no marker literal: what it mentions  *)
(* forges if it is an identifier.                                          *)
LEMMA LetThrough ==
  ASSUME IInv, pc = "serving", ~FenceMarkerWithoutIdentifier(Call.says, live)
  PROVE  /\ Call.says \in Int
         /\ Forges([how |-> "call", text |-> Call.says], live) <=> Issued(Call.says, live)
         /\ FenceData(Call.says, live) <=> Issued(Call.says, live)
<1>1. live \in Nat /\ Call.says \in Known
  BY ServedNext DEF IInv, Typed
<1>2. Call.says \in Int
  BY <1>1, KnownTexts
<1> QED BY <1>2 DEF Forges, Issued, FenceData, FenceForged, FenceMarkerWithoutIdentifier

(* An unknown tool's name is quoted back, and charged.                     *)
LEMMA NameUnknownStep == ASSUME IInv, NameUnknown PROVE IInv'
<1> DEFINE c == [how |-> "call", text |-> Call.says]
           g == FenceData(Call.says, live)
<1>1. /\ pc = "serving" /\ reply.calls[served + 1].name = "unknown"
      /\ Result({Wrapped(Call.says, live)})
      /\ ~FenceMarkerWithoutIdentifier(Call.says, live)
      /\ forgery' = (forgery \/ g) /\ met' = met \cup {c}
  BY DEF NameUnknown, ServeNext, ToolError, Met
<1>2. plan.calls[served + 1].name # "submit"
  BY <1>1, ServedNext
<1>3. Call.says \in Int /\ (Forges(c, live) <=> g)
  BY <1>1, LetThrough
<1>4. g \in BOOLEAN
  BY DEF FenceData, FenceForged, Issued
<1>5. {Wrapped(Call.says, live)} \in SUBSET [tag : {live}, text : Int \ {live}]
  BY <1>1, <1>3, FencedIsSealed
<1> HIDE DEF c, g
<1>6. g <=> \E m \in {c} : Forges(m, live)
  BY <1>3
<1>7. forgery' \in BOOLEAN /\ (forgery' \/ suspect <=> \E m \in met' : Forges(m, live))
  BY <1>1, <1>4, <1>6, MetMore
<1> QED BY <1>1, <1>2, <1>5, <1>7, ResultStep

(* A tool that runs: what it was called with is latched, and what it       *)
(* returns is charged as the kind of text it is.                           *)
LEMMA ToolStep ==
  ASSUME IInv, NEW name \in Tools, Dispatch(name), NEW how, NEW text, NEW h \in BOOLEAN,
         NEW fences \in SUBSET [tag : {live}, text : Int \ {live}], Result(fences),
         forgery' = (Latched \/ h),
         \/ ~h /\ met' = met \cup {[how |-> "call", text |-> Call.says]}
         \/ /\ met' = met \cup {[how |-> "call", text |-> Call.says], [how |-> how, text |-> text]}
            /\ h <=> Forges([how |-> how, text |-> text], live)
  PROVE  IInv'
<1> DEFINE c == [how |-> "call", text |-> Call.says]
           d == [how |-> how, text |-> text]
           i == Issued(Call.says, live)
<1>1. /\ pc = "serving" /\ reply.calls[served + 1].name = name
      /\ ~FenceMarkerWithoutIdentifier(Call.says, live)
  BY DEF Dispatch, ServeNext
<1>2. plan.calls[served + 1].name # "submit"
  BY <1>1, ServedNext DEF Tools
<1>3. Forges(c, live) <=> i
  BY <1>1, LetThrough
<1>4. i \in BOOLEAN /\ forgery' = (forgery \/ (i \/ h))
  BY DEF Latched, Issued
<1>5. \/ ~h /\ met' = met \cup {c}
      \/ met' = met \cup {c, d} /\ (h <=> Forges(d, live))
  OBVIOUS
<1> HIDE DEF c, d, i
<1>6. forgery' \in BOOLEAN /\ (forgery' \/ suspect <=> \E m \in met' : Forges(m, live))
  <2>1. CASE ~h /\ met' = met \cup {c}
    <3>1. (i \/ h) <=> \E m \in {c} : Forges(m, live)
      BY <1>3, <2>1
    <3> QED BY <1>1, <1>4, <2>1, <3>1, MetMore
  <2>2. CASE met' = met \cup {c, d} /\ (h <=> Forges(d, live))
    <3>1. (i \/ h) <=> \E m \in {c, d} : Forges(m, live)
      BY <1>3, <2>2
    <3> QED BY <1>1, <1>4, <2>2, <3>1, MetMore
  <2> QED BY <1>5, <2>1, <2>2
<1> QED BY <1>1, <1>2, <1>6, ResultStep

(* What a tool of the repository, a search and any other tool returns is   *)
(* charged for an identifier; only the last for a marker literal too.      *)
LEMMA ToolsStep ==
  ASSUME IInv, NEW text \in Known, ReadRepo(text) \/ Search(text) \/ Fetch(text) \/ Fails(text)
  PROVE  IInv'
<1> DEFINE S == [tag : {live}, text : Int \ {live}]
<1>1. live \in Nat /\ text \in Int /\ MaskFenceMarkers(text) \in Int /\ pc # "idle"
  <2>1. live \in Nat
    BY DEF IInv, Typed
  <2>2. text \in Int
    BY <2>1, KnownTexts
  <2>3. MaskFenceMarkers(text) \in Int
    BY <2>2 DEF MaskFenceMarkers, Plain
  <2>4. pc = "serving"
    BY DEF ReadRepo, Search, Fetch, Fails, Dispatch, ServeNext
  <2> QED BY <2>1, <2>2, <2>3, <2>4
<1>2. {Wrapped(text, live)} \in SUBSET S /\ {Wrapped(MaskFenceMarkers(text), live)} \in SUBSET S
  BY <1>1, FencedIsSealed
<1>3. /\ Forges([how |-> "repo", text |-> text], live) <=> Issued(text, live)
      /\ Forges([how |-> "search", text |-> text], live) <=> Issued(text, live)
      /\ Forges([how |-> "data", text |-> text], live) <=> FenceForged(text, live)
  BY DEF Forges, Issued, FenceForged
<1>4. Issued(text, live) \in BOOLEAN /\ FenceForged(text, live) \in BOOLEAN
  BY DEF Issued, FenceForged
<1>5. CASE ReadRepo(text)
  <2>1. /\ "read" \in Tools /\ Dispatch("read") /\ Result({Wrapped(text, live)})
        /\ forgery' = (Latched \/ Issued(text, live))
        /\ met' = met \cup {[how |-> "call", text |-> Call.says], [how |-> "repo", text |-> text]}
    BY <1>5 DEF ReadRepo, FenceRepoData, Tools
  <2> QED BY <1>2, <1>3, <1>4, <2>1, ToolStep
<1>6. CASE Search(text)
  <2>1. /\ "search" \in Tools /\ Dispatch("search")
        /\ Result({Wrapped(MaskFenceMarkers(text), live)})
        /\ forgery' = (Latched \/ FenceData(MaskFenceMarkers(text), live))
        /\ met' = met \cup {[how |-> "call", text |-> Call.says], [how |-> "search", text |-> text]}
    BY <1>6 DEF Search, Tools
  <2>2. FenceData(MaskFenceMarkers(text), live) <=> Issued(text, live)
    BY <1>1, MarksDiffer DEF FenceData, FenceForged, MaskFenceMarkers, Issued
  <2>3. FenceData(MaskFenceMarkers(text), live) \in BOOLEAN
    BY DEF FenceData, FenceForged, Issued
  <2> QED BY <1>2, <1>3, <2>1, <2>2, <2>3, ToolStep
<1>7. CASE Fetch(text)
  <2>1. /\ "fetch" \in Tools /\ Dispatch("fetch") /\ Result({Wrapped(text, live)})
        /\ forgery' = (Latched \/ FenceForged(text, live))
        /\ met' = met \cup {[how |-> "call", text |-> Call.says], [how |-> "data", text |-> text]}
    BY <1>7 DEF Fetch, FenceData, Tools
  <2> QED BY <1>2, <1>3, <1>4, <2>1, ToolStep
<1>8. CASE Fails(text)
  <2>1. PICK name \in Tools : Dispatch(name)
    BY <1>8 DEF Fails
  <2>2. /\ Result({Wrapped(text, live)})
        /\ forgery' = (Latched \/ FenceForged(text, live))
        /\ met' = met \cup {[how |-> "call", text |-> Call.says], [how |-> "data", text |-> text]}
    BY <1>8 DEF Fails, FenceData, ToolError
  <2> QED BY <1>2, <1>3, <1>4, <2>1, <2>2, ToolStep
<1> QED BY <1>5, <1>6, <1>7, <1>8

(* A tool with nothing to show is charged for its call alone.              *)
LEMMA EmptyStep == ASSUME IInv, Empty PROVE IInv'
<1>1. PICK name \in Tools : Dispatch(name)
  BY DEF Empty
<1>2. /\ Result({}) /\ forgery' = (Latched \/ FALSE)
      /\ met' = met \cup {[how |-> "call", text |-> Call.says]}
  BY DEF Empty, Met, Latched
<1>3. {} \in SUBSET [tag : {live}, text : Int \ {live}] /\ FALSE \in BOOLEAN
  OBVIOUS
<1> QED BY <1>1, <1>2, <1>3, ToolStep

(* The first submission of the reply ends the request, as it was sent.     *)
LEMMA SubmitStep == ASSUME IInv, Submit PROVE IInv'
<1> DEFINE i == served + 1
<1>1. /\ pc = "serving" /\ reply.calls[i].name = "submit"
      /\ Return(Decoded(Call), Call.says, reply.calls[i].arguments)
  BY DEF Submit, ServeNext
<1>2. /\ i \in DOMAIN plan.calls /\ served \in Nat /\ Len(reply.calls) = Len(plan.calls)
      /\ DOMAIN reply.calls = DOMAIN plan.calls /\ DOMAIN plan.calls = 1..Len(plan.calls)
      /\ reply.calls[i] = Pieces(i, plan.calls[i].pieces)
      /\ reply.calls[i].name = plan.calls[i].name /\ Call.says \in Known
  BY <1>1, ServedNext
<1>3. /\ IsWhole /\ \A h \in 1..served : plan.calls[h].name # "submit"
      /\ conversation[Len(conversation) - served].role = "assistant"
  BY <1>1 DEF IInv, InOrder
<1>4. Submitted(reply.calls[i].arguments)
  <2>1. i - 1 = served
    BY <1>2
  <2>2. reply.calls[i].arguments = [k \in 1..plan.calls[i].pieces |-> k]
    BY <1>2 DEF Pieces
  <2>3. \A h \in DOMAIN reply.calls : reply.calls[h].id # 0
    <3> SUFFICES ASSUME NEW h \in DOMAIN reply.calls PROVE reply.calls[h].id # 0
      OBVIOUS
    <3>a. h \in DOMAIN plan.calls
      BY <1>2
    <3>b. reply.calls[h] = Pieces(h, plan.calls[h].pieces)
      BY <1>3, <3>a DEF IsWhole
    <3>c. Pieces(h, plan.calls[h].pieces).id = h
      BY DEF Pieces
    <3>1. reply.calls[h].id = h
      BY <3>b, <3>c
    <3>2. Len(plan.calls) \in Nat
      BY <1>1, ServedNext
    <3>3. h # 0
      BY <1>2, <3>2
    <3> QED BY <3>1, <3>3
  <2> HIDE DEF i
  <2> QED BY <1>1, <1>2, <1>3, <2>1, <2>2, <2>3 DEF Submitted
<1>5. pc # "idle"
  BY <1>1
<1> QED BY <1>1, <1>2, <1>4, <1>5, ReturnStep

-----------------------------------------------------------------------------
(* The agent. *)

(* Before the first request there is nothing to fence, charge or conclude. *)
LEMMA InitIInv == Init => IInv
<1> SUFFICES ASSUME Init PROVE IInv
  OBVIOUS
<1>1. <<>> \in Seq(ToolCall) /\ <<>> \in Seq(Part)
  OBVIOUS
<1>2. NoPlan \in Reply /\ NoReply \in [content : BOOLEAN, calls : Seq(Part)]
  BY <1>1 DEF NoReply, NoPlan, Reply, Plain
<1>3. Typed
  BY <1>2 DEF Init, FenceInit, Typed
<1>4. Unknowing /\ Merging
  BY DEF Init, Unknowing, Merging
<1>5. ForgeryIsChargedToItsRequest /\ ConclusionIsAsSent
  BY DEF Init, ForgeryIsChargedToItsRequest, ConclusionIsAsSent, Nothing
<1>6. Charged /\ InOrder
  BY <1>5 DEF Init, Charged, InOrder
<1> QED BY <1>3, <1>4, <1>6 DEF IInv

(* Nothing happens, and nothing changes.                                   *)
LEMMA StutterStep == ASSUME IInv, UNCHANGED vars PROVE IInv'
<1>1. /\ UNCHANGED <<live, forgery, pc, requests, job, suspect, stream, conversation, turn, served>>
      /\ UNCHANGED <<plan, sent, reply, last, met, rendered>>
  BY DEF vars, fence, bracket, talk, coming
<1>2. Typed' /\ Unknowing'
  BY <1>1 DEF IInv, Typed, Unknowing, Known, Identifiers
<1>3. Charged'
  BY <1>1 DEF IInv, Charged, ForgeryIsChargedToItsRequest, Forges
<1>4. Merging' /\ InOrder'
  BY <1>1 DEF IInv, Merging, InOrder, IsWhole, Pieces, ConclusionIsAsSent
<1> QED BY <1>2, <1>3, <1>4 DEF IInv

(* Every step of a run keeps the invariant.                                *)
LEMMA NextIInv == ASSUME IInv, [Next]_vars PROVE IInv'
<1>1. CASE \E j \in Jobs : Begin(j)
  BY <1>1, BeginStep
<1>2. CASE \E r \in Replies : Complete(r)
  BY <1>2, CompleteStep
<1>3. CASE GiveUp \/ \E text \in Known : Breaks(text)
  BY <1>3, FailsStep
<1>4. CASE Answers
  BY <1>4, AnswersStep
<1>5. CASE StreamContent \/ StreamDone
  BY <1>5, StreamContentStep, StreamDoneStep
<1>6. CASE \E i \in DOMAIN plan.calls : StreamPiece(i)
  BY <1>6, StreamPieceStep
<1>7. CASE Serve
  <2>1. CASE Refuse \/ FailToDecode
    BY <2>1, RefuseStep
  <2>2. CASE NameUnknown
    BY <2>2, NameUnknownStep
  <2>3. CASE Empty
    BY <2>3, EmptyStep
  <2>4. CASE Submit
    BY <2>4, SubmitStep
  <2>5. CASE \E text \in Known : ReadRepo(text) \/ Search(text) \/ Fetch(text) \/ Fails(text)
    BY <2>5, ToolsStep
  <2> QED BY <1>7, <2>1, <2>2, <2>3, <2>4, <2>5 DEF Serve
<1>8. CASE UNCHANGED vars
  BY <1>8, StutterStep
<1> QED BY <1>1, <1>2, <1>3, <1>4, <1>5, <1>6, <1>7, <1>8 DEF Next, Conversing, Rest

(* The inductive invariant of the agent holds in every reachable state.    *)
THEOREM Invariance == Spec => []IInv
BY InitIInv, NextIInv, PTL DEF Spec

(* Whatever was published, quoted or returned before, nothing in a         *)
(* conversation but its prompt and the model's own replies names the       *)
(* identifier its fences are closed with, and no fence holds it.           *)
THEOREM IdentifierIsUnknown == Spec => []FencedUnderOneIdentifier
<1>1. IInv => FencedUnderOneIdentifier
  <2> SUFFICES ASSUME IInv, pc # "idle", NEW i \in DOMAIN conversation
               PROVE  /\ i = 1 => live \in conversation[i].said
                      /\ live \in conversation[i].said =>
                           i = 1 \/ (i > Opened(job) /\ conversation[i].role = "assistant")
                      /\ \A f \in conversation[i].fences : f.tag = live /\ f.text # live
    BY DEF FencedUnderOneIdentifier
  <2> DEFINE S == Sealed(live)
  <2>1. conversation \in Seq(S) /\ Quiet(conversation, job, live)
    BY DEF IInv, Unknowing, Quiet
  <2> HIDE DEF S
  <2>2. conversation[i] \in S
    BY <2>1
  <2>3. conversation[i].fences \in SUBSET [tag : {live}, text : Int \ {live}]
    BY <2>2 DEF S, Sealed
  <2> QED BY <2>1, <2>3 DEF Quiet
<1> QED BY Invariance, <1>1, PTL

(* Forgery met by a request holds or leaves this request, and only this.   *)
THEOREM ForgeryIsCharged == Spec => []ForgeryIsChargedToItsRequest
<1>1. IInv => ForgeryIsChargedToItsRequest
  BY DEF IInv, Charged
<1> QED BY Invariance, <1>1, PTL

(* A conclusion is the first submission of a whole reply, piece for piece. *)
THEOREM ConclusionWasSent == Spec => []ConclusionIsAsSent
<1>1. IInv => ConclusionIsAsSent
  BY DEF IInv, InOrder
<1> QED BY Invariance, <1>1, PTL
=============================================================================
