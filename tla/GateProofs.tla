----------------------------- MODULE GateProofs -----------------------------
(***************************************************************************)
(* The gate with the two parts it goes through: the terminal, on which it  *)
(* shows an assessment and asks about it, and the fix that it has approved *)
(* there.  They share no state; each is proved about by itself, for every  *)
(* value of its constants, and together in AttendedRun at the end.         *)
(***************************************************************************)
EXTENDS AttendedRun, TLAPS, WellFoundedInduction, FiniteSetTheorems

(***************************************************************************)
(* The gate, for every budget and any number of pushes.  The three reads   *)
(* (checkout, changed files, pin) are ordered in time and the head only    *)
(* grows, so a head that is still the pin is a head that everything was    *)
(* read at; and what an assessment says of the holds stays true until the  *)
(* next one.                                                               *)
(***************************************************************************)

(* Every commit on the branch is a push or a diff, and is accounted for. *)
Commits ==
  /\ head = moves + landed
  /\ landed <= fixAttempts

(* What was read was read between the pin and now. *)
ReadInOrder ==
  /\ candidate <= head /\ recorded <= head /\ tree <= head
  /\ files # Nowhere => candidate <= files /\ files <= head
  /\ pc # "sync" /\ tree # Nowhere => candidate <= tree
  /\ pc \notin {"sync", "files", "done"} => files # Nowhere
  /\ decision = "merge" => files # Nowhere

(* What the last assessment settled, and until when. *)
HoldsKept ==
  /\ bump = "downgrade" => bumpHold = "downgrade"
  /\ pc \notin {"judge", "done"} => verdict # "safe"
  /\ decision = "merge" => verdict = "safe"
  /\ verdict = "safe" =>
       bump # "downgrade" /\ tree # Nowhere /\ ~forged /\ (gap => url)
  /\ pc = "judge" /\ hard => verdict = "needs_approval" /\ ~diff
  /\ pc \in {"judge", "ask", "refresh", "approve", "commit"} /\ ~hard =>
       bump # "downgrade" /\ tree # Nowhere /\ ~forged
  /\ pc \in {"ask", "refresh", "approve", "commit"} => ~hard

(* Before a decision, and at a merge, no diff is unaccounted for. *)
OnRecord ==
  /\ pc # "done" => decision = "none"
  /\ decision \in {"none", "merge"} =>
       landed = fixAttempts /\ fixes = fixAttempts
  /\ pc \in {"approve", "commit"} => fixAttempts < MaxFixAttempts

IInv == TypeOK /\ Commits /\ ReadInOrder /\ HoldsKept /\ OnRecord

USE GateAssumption DEF Heads, Nowhere

(* Init leads into the invariant: nothing has been read, held or written. *)
LEMMA InitIInv == Init => IInv
<1> SUFFICES ASSUME Init PROVE IInv
  OBVIOUS
<1> USE DEF Init
<1>1. TypeOK
  <2>1. /\ head \in 0..(MaxMoves + MaxFixAttempts) /\ moves \in 0..MaxMoves
        /\ landed \in 0..MaxFixAttempts
        /\ candidate \in 0..(MaxMoves + MaxFixAttempts)
        /\ recorded \in 0..(MaxMoves + MaxFixAttempts)
        /\ fixAttempts \in 0..MaxFixAttempts /\ fixes \in 0..MaxFixAttempts
    OBVIOUS
  <2>2. files \in 0..(MaxMoves + MaxFixAttempts) \cup {-1}
    OBVIOUS
  <2> QED BY <2>1, <2>2 DEF TypeOK, Verdicts
<1>2. Commits /\ ReadInOrder
  BY DEF Commits, ReadInOrder
<1>3. HoldsKept
  BY DEF HoldsKept
<1>4. OnRecord
  BY DEF OnRecord
<1> QED BY <1>1, <1>2, <1>3, <1>4 DEF IInv

-----------------------------------------------------------------------------
(* What an assessment may leave behind: a safe verdict has no hold left, a *)
(* hard hold leaves nothing to talk about, and its absence is no hard hold.*)
LEMMA AssessKeepsHolds ==
  ASSUME IInv, Assess
  PROVE  /\ bump = "downgrade" => bumpHold' = "downgrade"
         /\ verdict' \in Verdicts /\ diff' \in BOOLEAN /\ hard' \in BOOLEAN
         /\ url' \in BOOLEAN
         /\ verdict' = "safe" =>
              bump # "downgrade" /\ tree # Nowhere /\ ~forged /\ (gap => url')
         /\ hard' => verdict' = "needs_approval" /\ ~diff'
         /\ ~hard' => bump # "downgrade" /\ tree # Nowhere /\ ~forged
<1>1. bump = "downgrade" => bumpHold = "downgrade"
  BY DEF IInv, HoldsKept
<1>2. PICK a \in Assessments, distrusted \in BOOLEAN :
        LET answer == IF distrusted \/ forged THEN HardHeld(a) ELSE a
        IN  /\ bumpHold' = IF answer.verdict = "safe" /\ bump # "downgrade"
                             THEN "none" ELSE bumpHold
            /\ hard' = (distrusted \/ forged \/ HardHolds)
            /\ LET held == IF HardHolds THEN HardHeld(answer)
                           ELSE IF RunHolds(answer) THEN Held(answer)
                           ELSE answer
               IN  verdict' = held.verdict /\ diff' = held.diff
            /\ url' = a.url
  BY DEF Assess
<1> DEFINE answer == IF distrusted \/ forged THEN HardHeld(a) ELSE a
<1>3. /\ a \in [verdict : Verdicts \ {"none"}, diff : BOOLEAN, url : BOOLEAN]
      /\ a.verdict \in Verdicts /\ a.diff \in BOOLEAN /\ a.url \in BOOLEAN
  BY DEF Assessments
<1>4. /\ HardHeld(a).verdict = "needs_approval" /\ HardHeld(a).diff = FALSE
      /\ HardHeld(a).url = a.url
      /\ HardHeld(answer).verdict = "needs_approval"
      /\ HardHeld(answer).diff = FALSE
  BY <1>3 DEF HardHeld
<1>5. /\ answer.verdict \in Verdicts /\ answer.diff \in BOOLEAN
      /\ answer.url = a.url
      /\ distrusted \/ forged =>
           answer.verdict = "needs_approval" /\ ~answer.diff
  BY <1>3, <1>4 DEF Verdicts
<1>6. /\ Held(answer).verdict \in Verdicts \ {"safe"}
      /\ Held(answer).diff = answer.diff
      /\ answer.verdict = "needs_approval" =>
           Held(answer).verdict = "needs_approval"
  BY <1>3, <1>4, <1>5 DEF Held, HardHeld, Verdicts
<1>7. bump = "downgrade" => bumpHold' = "downgrade"
  BY <1>1, <1>2
<1>8. /\ hard' = (distrusted \/ forged \/ HardHolds)
      /\ HardHolds => verdict' = "needs_approval" /\ diff' = FALSE
      /\ ~HardHolds /\ RunHolds(answer) =>
           verdict' = Held(answer).verdict /\ diff' = Held(answer).diff
      /\ ~HardHolds /\ ~RunHolds(answer) =>
           verdict' = answer.verdict /\ diff' = answer.diff
      /\ url' = a.url
  BY <1>2, <1>4
<1>9. ~HardHolds => bump # "downgrade" /\ tree # Nowhere
  BY <1>7 DEF HardHolds
<1>10. ~RunHolds(answer) => (gap => url')
  BY <1>5, <1>8 DEF RunHolds
<1>11. HardHolds \in BOOLEAN /\ RunHolds(answer) \in BOOLEAN
  BY DEF HardHolds, RunHolds
<1>12. verdict' \in Verdicts /\ diff' \in BOOLEAN
  BY <1>5, <1>6, <1>8, <1>11 DEF Verdicts
<1>13. hard' \in BOOLEAN /\ url' \in BOOLEAN
  BY <1>3, <1>8
<1>14. verdict' = "safe" =>
         bump # "downgrade" /\ tree # Nowhere /\ ~forged /\ (gap => url')
  BY <1>5, <1>6, <1>8, <1>9, <1>10, <1>11
<1>15. hard' => verdict' = "needs_approval" /\ ~diff'
  BY <1>5, <1>6, <1>8, <1>11
<1>16. ~hard' => bump # "downgrade" /\ tree # Nowhere /\ ~forged
  BY <1>8, <1>9
<1> QED BY <1>7, <1>12, <1>13, <1>14, <1>15, <1>16
-----------------------------------------------------------------------------
(* Every step keeps the types; head and landed stay bounded because every  *)
(* commit is a push, which is bounded, or an attempt, which is budgeted.   *)
LEMMA TypeOKStep == IInv /\ [Next]_vars => TypeOK'
<1> SUFFICES ASSUME IInv, [Next]_vars PROVE TypeOK'
  OBVIOUS
<1>1. TypeOK /\ Commits /\ OnRecord
  BY DEF IInv
<1> USE <1>1 DEF TypeOK, Verdicts, Continue, forge, facts, inputs, assessment, attempt
<1>2. CASE Sync
  BY <1>2 DEF Sync
<1>3. CASE ReadFiles
  BY <1>3 DEF ReadFiles
<1>4. CASE ReadFilesFails
  BY <1>4 DEF ReadFilesFails, Decide
<1>5. CASE Assess
  <2>1. /\ bumpHold' \in {"none", "major", "downgrade"}
        /\ pc' = "judge"
        /\ UNCHANGED <<forge, facts, attempt, inputs>>
    BY <1>5 DEF Assess
  <2>2. /\ verdict' \in Verdicts /\ diff' \in BOOLEAN /\ hard' \in BOOLEAN
        /\ url' \in BOOLEAN
    BY <1>5, AssessKeepsHolds
  <2> QED BY <2>1, <2>2
<1>6. CASE Judging
  BY <1>6 DEF Judging, Defer, Discuss, Merge, HoldStands, ProposeDiff,
              NeedsApproval, Decide
<1>7. CASE Asking
  BY <1>7 DEF Asking, OperatorAnswers, OperatorDefers, RefreshAfterAnswer,
              NeedsApproval, Decide
<1>8. CASE ApproveDiff
  BY <1>8 DEF ApproveDiff, NeedsApproval, Decide
<1>9. CASE CommitDiff
  BY <1>9 DEF CommitDiff, DiffLands, Commits, OnRecord
<1>10. CASE CommitDiffFails
  BY <1>10 DEF CommitDiffFails, NeedsApprovalAfterWrite, DiffLands, Commits,
               OnRecord
<1>11. CASE ConfirmDiff
  BY <1>11 DEF ConfirmDiff, NeedsApproval, Decide
<1>12. CASE HeadMoves
  BY <1>12 DEF HeadMoves, Commits
<1>13. CASE UNCHANGED vars
  BY <1>13 DEF vars
<1> QED BY <1>2, <1>3, <1>4, <1>5, <1>6, <1>7, <1>8, <1>9, <1>10, <1>11,
           <1>12, <1>13 DEF Next, Program, Writing, Finished

(* Every step keeps the books of commits and attempts. *)
LEMMA RecordStep == IInv /\ [Next]_vars => Commits' /\ OnRecord'
<1> SUFFICES ASSUME IInv, [Next]_vars PROVE Commits' /\ OnRecord'
  OBVIOUS
<1>1. TypeOK /\ Commits /\ OnRecord
  BY DEF IInv
<1> USE <1>1 DEF Commits, OnRecord, Continue, forge, facts, inputs, attempt
<1>2. CASE Sync \/ ReadFiles \/ Assess
  BY <1>2 DEF Sync, ReadFiles, Assess
<1>3. CASE ReadFilesFails
  BY <1>3 DEF ReadFilesFails, Decide
<1>4. CASE Judging
  BY <1>4 DEF Judging, Defer, Discuss, Merge, HoldStands, ProposeDiff,
              NeedsApproval, Decide, MayWrite
<1>5. CASE Asking
  BY <1>5 DEF Asking, OperatorAnswers, OperatorDefers, RefreshAfterAnswer,
              NeedsApproval, Decide
<1>6. CASE ApproveDiff
  BY <1>6 DEF ApproveDiff, NeedsApproval, Decide
<1>7. CASE CommitDiff
  BY <1>7 DEF CommitDiff, DiffLands, TypeOK
<1>8. CASE CommitDiffFails
  BY <1>8 DEF CommitDiffFails, NeedsApprovalAfterWrite, DiffLands, TypeOK
<1>9. CASE ConfirmDiff
  BY <1>9 DEF ConfirmDiff, NeedsApproval, Decide
<1>10. CASE HeadMoves
  BY <1>10 DEF HeadMoves, TypeOK
<1>11. CASE UNCHANGED vars
  BY <1>11 DEF vars
<1> QED BY <1>2, <1>3, <1>4, <1>5, <1>6, <1>7, <1>8, <1>9, <1>10, <1>11
        DEF Next, Program, Writing, Finished

(* Every step keeps the order of the three reads. *)
LEMMA ReadInOrderStep == IInv /\ [Next]_vars => ReadInOrder'
<1> SUFFICES ASSUME IInv, [Next]_vars PROVE ReadInOrder'
  OBVIOUS
<1>1. TypeOK /\ ReadInOrder /\ OnRecord
  BY DEF IInv
<1> USE <1>1 DEF TypeOK, ReadInOrder, OnRecord, Continue, forge, facts, inputs, attempt
<1>2. CASE Sync
  BY <1>2 DEF Sync
<1>3. CASE ReadFiles
  BY <1>3 DEF ReadFiles
<1>4. CASE ReadFilesFails
  BY <1>4 DEF ReadFilesFails, Decide
<1>5. CASE Assess
  BY <1>5 DEF Assess
<1>6. CASE Judging
  BY <1>6 DEF Judging, Defer, Discuss, Merge, HoldStands, ProposeDiff,
              NeedsApproval, Decide
<1>7. CASE Asking
  BY <1>7 DEF Asking, OperatorAnswers, OperatorDefers, RefreshAfterAnswer,
              NeedsApproval, Decide
<1>8. CASE ApproveDiff
  BY <1>8 DEF ApproveDiff, NeedsApproval, Decide
<1>9. CASE CommitDiff
  BY <1>9 DEF CommitDiff, DiffLands
<1>10. CASE CommitDiffFails
  BY <1>10 DEF CommitDiffFails, NeedsApprovalAfterWrite, DiffLands
<1>11. CASE ConfirmDiff
  BY <1>11 DEF ConfirmDiff, NeedsApproval, Decide
<1>12. CASE HeadMoves
  BY <1>12 DEF HeadMoves
<1>13. CASE UNCHANGED vars
  BY <1>13 DEF vars
<1> QED BY <1>2, <1>3, <1>4, <1>5, <1>6, <1>7, <1>8, <1>9, <1>10, <1>11,
           <1>12, <1>13 DEF Next, Program, Writing, Finished

(* Every step keeps what the last assessment settled: only Assess says     *)
(* anything new, and Sync changes the tree while no verdict stands.        *)
LEMMA HoldsKeptStep == IInv /\ [Next]_vars => HoldsKept'
<1> SUFFICES ASSUME IInv, [Next]_vars PROVE HoldsKept'
  OBVIOUS
<1>1. TypeOK /\ HoldsKept /\ OnRecord
  BY DEF IInv
<1> USE <1>1 DEF HoldsKept, OnRecord, Continue, facts, inputs, assessment, attempt
<1>2. CASE Sync
  BY <1>2 DEF Sync
<1>3. CASE ReadFiles
  BY <1>3 DEF ReadFiles
<1>4. CASE ReadFilesFails
  BY <1>4 DEF ReadFilesFails, Decide
<1>5. CASE Assess
  BY <1>5, AssessKeepsHolds DEF Assess
<1>6. CASE Judging
  <2>1. CASE Defer \/ Merge \/ HoldStands
    BY <1>6, <2>1 DEF Defer, Merge, HoldStands, NeedsApproval, Decide
  <2>2. CASE Discuss
    BY <1>6, <2>2 DEF Discuss, Discussable, NeedsApproval, Decide
  <2>3. CASE ProposeDiff
    <3>1. ~hard /\ verdict = "needs_approval"
      BY <2>3 DEF ProposeDiff
    <3>2. CASE MayWrite /\ Continue("approve") /\ UNCHANGED <<inputs, assessment>>
      BY <2>3, <3>1, <3>2 DEF ProposeDiff
    <3>3. CASE NeedsApproval
      BY <3>1, <3>3 DEF NeedsApproval, Decide
    <3> QED BY <2>3, <3>2, <3>3 DEF ProposeDiff
  <2> QED BY <1>6, <2>1, <2>2, <2>3 DEF Judging
<1>7. CASE Asking
  BY <1>7 DEF Asking, OperatorAnswers, OperatorDefers, RefreshAfterAnswer,
              NeedsApproval, Decide
<1>8. CASE ApproveDiff
  BY <1>8 DEF ApproveDiff, NeedsApproval, Decide
<1>9. CASE CommitDiff
  BY <1>9 DEF CommitDiff
<1>10. CASE CommitDiffFails
  BY <1>10 DEF CommitDiffFails, NeedsApprovalAfterWrite
<1>11. CASE ConfirmDiff
  BY <1>11 DEF ConfirmDiff, NeedsApproval, Decide
<1>12. CASE HeadMoves
  BY <1>12 DEF HeadMoves
<1>13. CASE UNCHANGED vars
  BY <1>13 DEF vars
<1> QED BY <1>2, <1>3, <1>4, <1>5, <1>6, <1>7, <1>8, <1>9, <1>10, <1>11,
           <1>12, <1>13 DEF Next, Program, Writing, Finished

-----------------------------------------------------------------------------
(* The inductive invariant holds in every reachable state of the gate. *)
THEOREM Invariance == Spec => []IInv
<1>1. IInv /\ [Next]_vars => IInv'
  BY TypeOKStep, RecordStep, ReadInOrderStep, HoldsKeptStep DEF IInv
<1> QED BY InitIInv, <1>1, PTL DEF Spec

(* Every variable of the gate keeps its type, the head its bound. *)
THEOREM TypeCorrect == Spec => []TypeOK
<1>1. IInv => TypeOK
  BY DEF IInv
<1> QED BY Invariance, <1>1, PTL

(* What the invariant says of a merge. *)
LEMMA GateIsSafe ==
  IInv => MergesWhatWasRead /\ NoHoldIsMerged /\ EveryAttemptIsOnRecord
<1>1. IInv => MergesWhatWasRead
  BY DEF IInv, TypeOK, ReadInOrder, HoldsKept, OnRecord, MergesWhatWasRead
<1>2. IInv => NoHoldIsMerged
  BY DEF IInv, HoldsKept, NoHoldIsMerged
<1>3. IInv => EveryAttemptIsOnRecord
  BY DEF IInv, TypeOK, Commits, OnRecord, EveryAttemptIsOnRecord
<1> QED BY <1>1, <1>2, <1>3

(* What is merged at the pinned head was read there: three reads between   *)
(* the pin and now, and the pin is now.                                    *)
THEOREM MergedWasRead == Spec => []MergesWhatWasRead
BY Invariance, GateIsSafe, PTL

(* No merge while the run itself holds anything against the update. *)
THEOREM HoldsAreHeeded == Spec => []NoHoldIsMerged
BY Invariance, GateIsSafe, PTL

(* What no discussion can lift is neither discussed nor written about. *)
THEOREM HardHoldsEndIt == Spec => []HardHoldsAreFinal
<1>1. IInv => HardHoldsAreFinal
  BY DEF IInv, HoldsKept, HardHoldsAreFinal
<1> QED BY Invariance, <1>1, PTL

(* A merged attempt has every commit and every attempt on its record. *)
THEOREM AttemptsAreOnRecord == Spec => []EveryAttemptIsOnRecord
BY Invariance, GateIsSafe, PTL

(* A commit of the run lands on the head that the tree and the files were   *)
(* read at.                                                                *)
LEMMA LandsInPlace ==
  IInv /\ [Next]_vars => (landed' # landed => tree = head /\ files = head)
<1> SUFFICES ASSUME IInv, Next, landed' # landed
             PROVE  tree = head /\ files = head
  BY DEF vars, forge
<1>1. pc = "commit" /\ head = candidate
  BY DEF Next, Program, Writing, Judging, Asking, Sync, ReadFiles,
         ReadFilesFails, Assess, Defer, Discuss, Merge, HoldStands,
         ProposeDiff, OperatorAnswers, OperatorDefers, RefreshAfterAnswer,
         ApproveDiff, CommitDiff, CommitDiffFails, ConfirmDiff, HeadMoves,
         Finished, Continue, NeedsApproval, Decide, forge, vars
<1>2. tree # Nowhere /\ files # Nowhere
  BY <1>1 DEF IInv, HoldsKept, ReadInOrder
<1> QED BY <1>1, <1>2 DEF IInv, TypeOK, ReadInOrder

(* The only steps that put a commit of the run on the branch do so on the  *)
(* head that the tree and the files were read at.                          *)
THEOREM DiffsLandInPlace == Spec => DiffsLandWhereProposed
BY Invariance, LandsInPlace, PTL DEF Spec, DiffsLandWhereProposed

-----------------------------------------------------------------------------
(***************************************************************************)
(* The terminal, for every session, every set of secrets and whatever is   *)
(* typed.                                                                  *)
(***************************************************************************)
HIDE GateAssumption DEF Heads, Nowhere

(* A set of numbers that is not empty has a least one. *)
LEMMA LeastNatural ==
  ASSUME NEW B, B \subseteq Nat, B # {}
  PROVE  \E m \in B : \A n \in B : m <= n
<1> DEFINE R == OpToRel(<, Nat)
<1>1. IsWellFoundedOn(R, Nat)
  BY NatLessThanWellFounded
<1>2. \A i, j \in Nat : i < j => <<i, j>> \in R
  BY DEF OpToRel
<1> HIDE DEF R
<1>3. PICK m \in B : \A n \in B : ~(<<n, m>> \in R)
  BY <1>1, WFMin
<1>4. ASSUME NEW n \in B, ~(m <= n) PROVE FALSE
  <2>1. m \in Nat /\ n \in Nat
    OBVIOUS
  <2>2. n < m
    BY <1>4, <2>1
  <2> QED BY <1>2, <1>3, <2>1, <2>2
<1> QED BY <1>4

(* What a set keeps from each number to the next it keeps of all. *)
LEMMA Upwards ==
  ASSUME NEW B, 0 \in B, \A n \in Nat : n \in B => n + 1 \in B
  PROVE  \A n \in Nat : n \in B
<1> SUFFICES ASSUME NEW k \in Nat, k \notin B PROVE FALSE
  OBVIOUS
<1> DEFINE out == {n \in Nat : n \notin B}
<1>1. PICK m \in out : \A n \in out : m <= n
  <2>1. out \subseteq Nat /\ out # {}
    OBVIOUS
  <2> HIDE DEF out
  <2> QED BY <2>1, LeastNatural
<1>2. m \in Nat /\ m # 0 /\ m \notin B
  OBVIOUS
<1>3. m - 1 \in Nat /\ ~(m <= m - 1) /\ m - 1 + 1 = m
  BY <1>2
<1>4. m - 1 \in B
  BY <1>1, <1>3
<1> QED BY <1>2, <1>3, <1>4

(* N steps from a start. *)
Walk(f, N, V, v, step) ==
  /\ f \in [0..N -> V] /\ f[0] = v
  /\ \A i \in 1..N : f[i] = step[i][f[i - 1]]

(* Steps on a set can be taken any number of times. *)
LEMMA WalkExists ==
  ASSUME NEW N \in Nat, NEW V, NEW v \in V, NEW step \in [1..N -> [V -> V]]
  PROVE  \E f : Walk(f, N, V, v, step)
<1> DEFINE Runs(f, n) == f[0] = v /\ \A i \in 1..n : f[i] = step[i][f[i - 1]]
           B == {n \in Nat : n <= N => \E f \in [0..n -> V] : Runs(f, n)}
<1>1. 0 \in B
  <2>1. [i \in 0..0 |-> v] \in [0..0 -> V] /\ Runs([i \in 0..0 |-> v], 0)
    OBVIOUS
  <2> QED BY <2>1
<1>2. ASSUME NEW n \in Nat, n \in B PROVE n + 1 \in B
  <2> SUFFICES ASSUME n + 1 <= N PROVE \E f \in [0..n + 1 -> V] : Runs(f, n + 1)
    OBVIOUS
  <2>1. PICK f \in [0..n -> V] : Runs(f, n)
    BY <1>2
  <2> DEFINE g == [i \in 0..n + 1 |-> IF i = n + 1 THEN step[n + 1][f[n]] ELSE f[i]]
  <2>2. n + 1 \in 1..N /\ f[n] \in V
    OBVIOUS
  <2>3. step[n + 1][f[n]] \in V
    BY <2>2
  <2>4. g \in [0..n + 1 -> V]
    BY <2>3
  <2>5. g[0] = v
    BY <2>1
  <2>6. ASSUME NEW i \in 1..n + 1 PROVE g[i] = step[i][g[i - 1]]
    <3>1. CASE i = n + 1
      BY <3>1
    <3>2. CASE i # n + 1
      <4>1. i \in 1..n /\ i - 1 \in 0..n
        BY <3>2
      <4>2. g[i] = f[i] /\ g[i - 1] = f[i - 1]
        BY <4>1
      <4> QED BY <2>1, <4>1, <4>2
    <3> QED BY <3>1, <3>2
  <2> QED BY <2>4, <2>5, <2>6
<1>3. \A n \in Nat : n \in B
  <2> HIDE DEF B
  <2> QED BY <1>1, <1>2, Upwards
<1>4. \E f \in [0..N -> V] : Runs(f, N)
  BY <1>3
<1> QED BY <1>4 DEF Walk

(* A place in the input where a line begins. *)
LineStart(p) ==
  p = 0 \/ input[p] \in Breaks \/ (p = Len(input) /\ ~session.keyboard)

(* From from to at the input is one line, of the question's own time. *)
OneLine ==
  /\ from # 0
  /\ from = 1 \/ input[from - 1] \in Breaks
  /\ at \in from..Len(input)
  /\ \A i \in from..at - 1 : input[i] \notin Breaks
  /\ input[at] \in Breaks \/ (at = Len(input) /\ ~session.keyboard)
  /\ session.keyboard => \A i \in from..at : typedFor[i] = posed

AtPrompt == {"ask", "prompt", "read", "weigh"}
Answering == {"prompt", "read"}
Heeded == {"unanswered", "answered", "approved", "declined", "now", "keep", "wait"}

InputTyped ==
  /\ session \in Sessions
  /\ input \in Seq(STRING) /\ typedFor \in Seq(Nat) /\ Len(typedFor) = Len(input)
  /\ at \in 0..Len(input) /\ posed \in Nat /\ from \in Nat
  /\ then \in {"idle", "begin"}
  /\ session.keyboard => Len(input) = 0 \/ input[Len(input)] \in Breaks

AtALine ==
  /\ phase \in Answering => ~desynced /\ ~unfinished
  /\ ~desynced /\ ~unfinished /\ (phase \in Answering \/ ~session.keyboard) =>
       LineStart(at)
  /\ session.keyboard /\ phase \in Answering =>
       \A i \in at + 1..Len(input) : typedFor[i] = posed

Answered ==
  /\ phase \in AtPrompt => session.interactive /\ outcome = "none"
  /\ phase = "weigh" /\ (err = "none" \/ heard # <<>>) => OneLine
  /\ session.interactive /\ outcome \in Heeded => OneLine

InputInv == InputTyped /\ AtALine /\ Answered

(* What a session is made of. *)
LEMMA SessionFields ==
  ASSUME SessionsOK, NEW s \in Sessions
  PROVE  /\ s.keyboard \in BOOLEAN /\ s.interactive \in BOOLEAN /\ s.screen \in BOOLEAN
         /\ s.script \in Seq(STRING) /\ s.texts \in Seq(Seq(STRING))
         /\ s.questions \in Seq(Kinds)
         /\ s.keyboard => s.script = <<>>
<1>1. s \in Session /\ (s.keyboard => s.script = <<>>)
  BY DEF SessionsOK
<1> QED BY <1>1 DEF Session

(* Nothing has been read or asked at first. *)
LEMMA InitInput == ASSUME SessionsOK, TerminalInit PROVE InputInv
<1>1. session \in Sessions
  BY DEF TerminalInit
<1>2. /\ session.script \in Seq(STRING)
      /\ session.keyboard => session.script = <<>>
  BY <1>1, SessionFields
<1>3. InputTyped
  <2>1. typedFor \in Seq(Nat) /\ Len(typedFor) = Len(input)
    <3>1. input \in Seq(STRING) /\ typedFor = [i \in 1..Len(input) |-> 0]
      BY <1>2 DEF TerminalInit
    <3>2. Len(input) \in Nat
      BY <3>1
    <3> QED BY <3>1, <3>2
  <2>2. at \in 0..Len(input)
    BY <1>2 DEF TerminalInit
  <2> QED BY <1>1, <1>2, <2>1, <2>2 DEF InputTyped, TerminalInit
<1>4. AtALine
  BY DEF AtALine, LineStart, TerminalInit, Answering
<1>5. Answered
  BY DEF Answered, TerminalInit, AtPrompt, Heeded
<1> QED BY <1>3, <1>4, <1>5 DEF InputInv

(* A step that leaves the input, the question and the answer alone keeps    *)
(* what holds of them.                                                      *)
LEMMA InputKept ==
  ASSUME InputInv, UNCHANGED <<session, arriving, stream, asking>>,
         then' \in {"idle", "begin"}, phase' \in AtPrompt => phase' = phase
  PROVE  InputInv'
<1> USE DEF arriving, stream, asking
<1>1. InputTyped'
  BY DEF InputInv, InputTyped
<1>2. OneLine <=> OneLine'
  BY DEF OneLine
<1>3. AtALine'
  BY DEF InputInv, AtALine, LineStart, AtPrompt, Answering
<1>4. Answered'
  BY <1>2 DEF InputInv, Answered, AtPrompt
<1> QED BY <1>1, <1>3, <1>4 DEF InputInv

(* A streamed turn reads nothing, *)
LEMMA TurnsKeepInput ==
  ASSUME InputInv, Turns PROVE InputInv'
<1>1. CASE QuietTurn
  BY <1>1, InputKept DEF QuietTurn, InputInv, InputTyped
<1>2. CASE TurnStart
  BY <1>2, InputKept DEF TurnStart, InputInv, InputTyped, AtPrompt
<1>3. CASE TakeStop
  BY <1>3, InputKept DEF TakeStop, InputInv, InputTyped, AtPrompt
<1>4. CASE CloseStop
  BY <1>4, InputKept DEF CloseStop, InputInv, InputTyped, AtPrompt
<1>5. CASE JoinAnimation
  BY <1>5, InputKept DEF JoinAnimation, InputInv, InputTyped, AtPrompt, threads
<1>6. CASE EndLine
  <2>1. UNCHANGED <<session, arriving, stream, asking, then>> /\ phase' = then
    BY <1>6 DEF EndLine, threads
  <2> QED BY <2>1, InputKept DEF InputInv, InputTyped, AtPrompt
<1>7. CASE BeginTurn
  BY <1>7, InputKept DEF BeginTurn, InputInv, InputTyped, AtPrompt
<1>8. CASE Delta
  BY <1>8, InputKept DEF Delta, InputInv, InputTyped, threads
<1>9. CASE TurnEnd
  BY <1>9, InputKept DEF TurnEnd, InputInv, InputTyped, AtPrompt
<1> QED BY <1>1, <1>2, <1>3, <1>4, <1>5, <1>6, <1>7, <1>8, <1>9
        DEF Turns, EndStream

(* nor does an animation. *)
LEMMA AnimationKeepsInput ==
  ASSUME InputInv, NEW g, Animation(g) PROVE InputInv'
<1>1. CASE Stopped(g)
  BY <1>1, InputKept DEF Stopped, InputInv, InputTyped
<1>2. CASE Tick(g)
  <2>1. UNCHANGED <<session, phase, then, arriving, stream, asking>>
    BY <1>2 DEF Tick
  <2> QED BY <2>1, InputKept DEF InputInv, InputTyped
<1> QED BY <1>1, <1>2 DEF Animation

(* A question is posed while nothing is being read. *)
LEMMA PoseKeepsInput ==
  ASSUME InputInv, Pose PROVE InputInv'
<1> USE DEF arriving, stream, threads
<1>1. /\ phase = "idle" /\ UNCHANGED <<session, arriving, stream, posed, then>>
      /\ heard' = <<>> /\ from' = 0 /\ (session.interactive => phase' = "ask" /\ outcome' = "none")
      /\ (~session.interactive => phase' = phase)
  BY DEF Pose
<1>2. InputTyped'
  BY <1>1 DEF InputInv, InputTyped
<1>3. AtALine'
  BY <1>1 DEF InputInv, AtALine, LineStart, Answering
<1>4. Answered'
  BY <1>1 DEF InputInv, Answered, AtPrompt, Heeded
<1> QED BY <1>2, <1>3, <1>4 DEF InputInv

(* Where a read may end. *)
LEMMA Reading ==
  ASSUME SessionsOK, InputInv, NEW p \in 0..Len(input)
  PROVE  /\ Len(input) \in Nat /\ MaxAnswer \in Nat \ {0}
         /\ Reach(p) \in p..Len(input)
         /\ Full(p) => Reach(p) = p + MaxAnswer
         /\ ~Full(p) => Reach(p) = Len(input)
         /\ Stops(p) \subseteq p + 1..Len(input)
         /\ \A i \in Stops(p) : input[i] \in Breaks
<1>1. Len(input) \in Nat /\ MaxAnswer \in Nat \ {0}
  BY DEF InputInv, InputTyped, SessionsOK
<1>2. /\ Reach(p) \in p..Len(input)
      /\ Full(p) => Reach(p) = p + MaxAnswer
      /\ ~Full(p) => Reach(p) = Len(input)
  BY <1>1 DEF Reach, Full
<1> QED BY <1>1, <1>2 DEF Stops

(* The first break in reach. *)
LEMMA FirstStop ==
  ASSUME SessionsOK, InputInv, NEW p \in 0..Len(input), Stops(p) # {}
  PROVE  /\ StopAfter(p) \in p + 1..Len(input)
         /\ input[StopAfter(p)] \in Breaks
         /\ \A i \in p + 1..StopAfter(p) - 1 : input[i] \notin Breaks
<1> DEFINE B == Stops(p)
<1>1. B \subseteq Nat /\ B # {}
  <2>1. Len(input) \in Nat /\ Stops(p) \subseteq p + 1..Len(input)
    BY Reading
  <2> QED BY <2>1
<1>2. \E i \in B : \A j \in B : i <= j
  <2> HIDE DEF B
  <2> QED BY <1>1, LeastNatural
<1>3. StopAfter(p) \in B /\ \A j \in B : StopAfter(p) <= j
  BY <1>2 DEF StopAfter
<1>4. Reach(p) \in p..Len(input) /\ Len(input) \in Nat /\ B = Stops(p)
  BY Reading
<1>5. StopAfter(p) \in p + 1..Reach(p) /\ input[StopAfter(p)] \in Breaks
  BY <1>3 DEF Stops
<1>6. ASSUME NEW i \in p + 1..StopAfter(p) - 1, input[i] \in Breaks PROVE FALSE
  <2>1. i \in p + 1..Reach(p) /\ ~(StopAfter(p) <= i)
    BY <1>4, <1>5
  <2>2. i \in B
    BY <1>6, <2>1 DEF Stops
  <2> QED BY <1>3, <2>1, <2>2
<1> QED BY <1>4, <1>5, <1>6

(* ask leaves its catching up at the beginning of a line. *)
LEMMA AsksKeepInput ==
  ASSUME SessionsOK, InputInv, Asks PROVE InputInv'
<1> USE DEF arriving, stream, threads, asking
<1>0. Len(input) \in Nat /\ at \in 0..Len(input)
  BY DEF InputInv, InputTyped
<1>1. CASE AskSilenced
  <2>1. /\ phase = "ask" /\ phase' = "weigh" /\ heard' = <<>> /\ err' = "too long"
        /\ UNCHANGED <<session, arriving, stream, posed, from, outcome, then>>
    BY <1>1 DEF AskSilenced
  <2>2. InputTyped'
    BY <2>1 DEF InputInv, InputTyped
  <2>3. AtALine'
    BY <2>1 DEF InputInv, AtALine, LineStart, Answering
  <2>4. Answered'
    BY <2>1 DEF InputInv, Answered, AtPrompt, Heeded
  <2> QED BY <2>2, <2>3, <2>4 DEF InputInv
<1>2. CASE AskCatchesUp
  <2>1. /\ phase = "ask" /\ phase' = "ask" /\ ~desynced /\ unfinished' = FALSE /\ DropRest(at)
        /\ UNCHANGED <<session, arriving, asking, then>>
    BY <1>2 DEF AskCatchesUp
  <2>2. /\ at' \in 0..Len(input)
        /\ ~session.keyboard /\ ~desynced' => input[at'] \in Breaks
    <3>1. CASE session.keyboard
      BY <1>0, <2>1, <3>1 DEF DropRest, InputInv, InputTyped
    <3>2. CASE ~session.keyboard /\ Stops(at) # {}
      <4>1. at' = StopAfter(at) /\ desynced' = desynced
        BY <2>1, <3>2 DEF DropRest
      <4>2. StopAfter(at) \in at + 1..Len(input) /\ input[StopAfter(at)] \in Breaks
        BY <1>0, <3>2, FirstStop
      <4> QED BY <1>0, <2>1, <4>1, <4>2
    <3>3. CASE ~session.keyboard /\ Stops(at) = {}
      BY <1>0, <2>1, <3>3, Reading DEF DropRest
    <3> QED BY <3>1, <3>2, <3>3
  <2>3. InputTyped'
    BY <2>1, <2>2 DEF InputInv, InputTyped
  <2>4. AtALine'
    BY <2>1, <2>2 DEF InputInv, AtALine, LineStart, Answering
  <2>5. Answered'
    BY <2>1 DEF InputInv, Answered, AtPrompt, Heeded
  <2> QED BY <2>3, <2>4, <2>5 DEF InputInv
<1>3. CASE AskDiscards
  <2>1. /\ phase = "ask" /\ phase' = "prompt" /\ ~desynced /\ ~unfinished
        /\ at' = IF session.keyboard THEN Len(input) ELSE at
        /\ posed' = posed + 1
        /\ UNCHANGED <<session, arriving, desynced, unfinished, heard, err, from,
                       outcome, then>>
    BY <1>3 DEF AskDiscards
  <2>2. InputTyped'
    BY <1>0, <2>1 DEF InputInv, InputTyped
  <2>3. AtALine'
    <3>1. CASE session.keyboard
      <4>1. LineStart(at)'
        BY <1>0, <2>1, <3>1 DEF InputInv, InputTyped, LineStart
      <4>2. \A i \in (at + 1..Len(input))' : typedFor'[i] = posed'
        BY <1>0, <2>1, <3>1
      <4> QED BY <2>1, <4>1, <4>2 DEF AtALine, InputInv, InputTyped
    <3>2. CASE ~session.keyboard
      BY <2>1, <3>2 DEF InputInv, AtALine, LineStart
    <3> QED BY <3>1, <3>2
  <2>4. Answered'
    BY <2>1 DEF InputInv, Answered, AtPrompt, Heeded
  <2> QED BY <2>2, <2>3, <2>4 DEF InputInv
<1>4. CASE AskPrompts
  <2>1. /\ phase = "prompt" /\ phase' = "read"
        /\ UNCHANGED <<session, arriving, stream, asking, then>>
    BY <1>4 DEF AskPrompts
  <2>2. InputTyped'
    BY <2>1 DEF InputInv, InputTyped
  <2>3. AtALine'
    BY <2>1 DEF InputInv, AtALine, LineStart, Answering
  <2>4. Answered'
    BY <2>1 DEF InputInv, Answered, AtPrompt, Heeded
  <2> QED BY <2>2, <2>3, <2>4 DEF InputInv
<1> QED BY <1>1, <1>2, <1>3, <1>4 DEF Asks

(* What is left of the invariant when something has been read. *)
LEMMA HeardKeepsInput ==
  ASSUME SessionsOK, InputInv, NEW answer, NEW error, Hears(answer, error),
         at' \in 0..Len(input),
         ~session.keyboard /\ ~desynced' /\ ~unfinished' => LineStart(at'),
         error = "none" \/ answer # <<>> => OneLine'
  PROVE  InputInv'
<1> USE DEF arriving, threads
<1>1. /\ phase = "read" /\ phase' = "weigh" /\ heard' = answer /\ err' = error
      /\ from' = at + 1
      /\ UNCHANGED <<session, arriving, posed, outcome, then>>
  BY DEF Hears
<1>2. InputTyped'
  BY <1>1 DEF InputInv, InputTyped
<1>3. AtALine'
  BY <1>1 DEF AtALine, LineStart, Answering
<1>4. Answered'
  BY <1>1 DEF InputInv, Answered, AtPrompt, Heeded
<1> QED BY <1>2, <1>3, <1>4 DEF InputInv

(* A read takes one line or none. *)
LEMMA ReadsKeepInput ==
  ASSUME SessionsOK, InputInv, Reads PROVE InputInv'
<1>0. /\ Len(input) \in Nat /\ at \in 0..Len(input)
          /\ MaxAnswer \in Nat \ {0}
  BY DEF InputInv, InputTyped, SessionsOK
<1>r. /\ Reach(at) \in at..Len(input)
      /\ Full(at) => Reach(at) = at + MaxAnswer
  BY <1>0, Reading
<1>h. ASSUME NEW answer, NEW error, Hears(answer, error)
      PROVE  /\ phase = "read" /\ from' = at + 1
             /\ UNCHANGED <<session, input, typedFor, posed>>
             /\ ~desynced /\ ~unfinished /\ LineStart(at)
             /\ session.keyboard => \A i \in at + 1..Len(input) : typedFor[i] = posed
  BY <1>h DEF Hears, arriving, InputInv, AtALine, Answering
<1>1. CASE ReadLine
  <2> DEFINE i == StopAfter(at)
  <2>1. PICK answer, error : Hears(answer, error)
    BY <1>1 DEF ReadLine
  <2>2. /\ Stops(at) # {} /\ at' = i /\ UNCHANGED <<desynced, unfinished>>
    BY <1>1 DEF ReadLine
  <2>3. /\ i \in at + 1..Len(input) /\ input[i] \in Breaks
        /\ \A k \in at + 1..i - 1 : input[k] \notin Breaks
    BY <1>0, <2>2, FirstStop
  <2> HIDE DEF i
  <2>4. OneLine'
    <3>1. (from = 1 \/ input[from - 1] \in Breaks)'
      BY <1>0, <1>h, <2>1, <2>3 DEF LineStart
    <3> QED BY <1>0, <1>h, <2>1, <2>2, <2>3, <3>1 DEF OneLine
  <2>5. LineStart(at')
    BY <2>2, <2>3 DEF LineStart
  <2> QED BY <1>0, <2>1, <2>2, <2>3, <2>4, <2>5, HeardKeepsInput
<1>2. CASE ReadEnd
  <2> DEFINE answer == SubSeq(input, at + 1, Len(input))
  <2>1. /\ Hears(answer, "eof") /\ ~session.keyboard /\ Stops(at) = {} /\ ~Full(at)
        /\ at' = Len(input) /\ UNCHANGED <<desynced, unfinished>>
    BY <1>2 DEF ReadEnd
  <2>2. \A k \in at + 1..Len(input) : input[k] \notin Breaks
    BY <1>0, <2>1, Reading DEF Stops
  <2>3. ASSUME answer # <<>> PROVE OneLine'
    <3>1. at < Len(input)
      BY <1>0, <2>3 DEF InputInv, InputTyped
    <3>2. (from = 1 \/ input[from - 1] \in Breaks)'
      BY <1>0, <1>h, <2>1, <3>1 DEF LineStart
    <3> QED BY <1>0, <1>h, <2>1, <2>2, <3>1, <3>2 DEF OneLine
  <2>4. LineStart(at')
    BY <2>1 DEF LineStart
  <2> HIDE DEF answer
  <2> QED BY <1>0, <2>1, <2>3, <2>4, HeardKeepsInput
<1>3. CASE ReadTooLong
  <2>1. /\ Hears(<<>>, "too long") /\ Full(at) /\ DropRest(at + MaxAnswer)
        /\ UNCHANGED unfinished
    BY <1>3 DEF ReadTooLong
  <2>a. Full(at)
    BY <2>1
  <2>2. at + MaxAnswer \in 0..Len(input)
    BY <1>0, <1>r, <2>a
  <2>3. /\ at' \in 0..Len(input)
        /\ ~session.keyboard /\ ~desynced' => input[at'] \in Breaks
    <3>1. CASE session.keyboard
      BY <1>0, <2>1, <2>2, <3>1 DEF DropRest
    <3>2. CASE ~session.keyboard /\ Stops(at + MaxAnswer) # {}
      <4>1. at' = StopAfter(at + MaxAnswer) /\ desynced' = desynced
        BY <2>1, <3>2 DEF DropRest
      <4> QED BY <1>0, <2>2, <3>2, <4>1, FirstStop
    <3>3. CASE ~session.keyboard /\ Stops(at + MaxAnswer) = {}
      <4>1. at' = Reach(at + MaxAnswer) /\ desynced' = TRUE
        BY <2>1, <3>3 DEF DropRest
      <4> QED BY <1>0, <2>2, <4>1, Reading
    <3> QED BY <3>1, <3>2, <3>3
  <2> QED BY <1>0, <2>1, <2>3, HeardKeepsInput DEF LineStart
<1>4. CASE ReadBreaks
  <2>1. PICK n \in at..Reach(at) : at' = n /\ unfinished' = (n > at)
    BY <1>4 DEF ReadBreaks
  <2>2. Hears(<<>>, "broken") /\ UNCHANGED desynced
    BY <1>4 DEF ReadBreaks
  <2>3. n \in 0..Len(input) /\ n >= at
    BY <1>0, <1>r, <2>1
  <2>4. ~unfinished' => at' = at
    <3>1. unfinished' <=> n > at
      BY <2>1
    <3>2. CASE n > at
      BY <3>1, <3>2
    <3>3. CASE ~(n > at)
      BY <1>0, <2>1, <2>3, <3>3
    <3> QED BY <3>2, <3>3
  <2> QED BY <1>0, <1>h, <2>1, <2>2, <2>3, <2>4, HeardKeepsInput
<1> QED BY <1>1, <1>2, <1>3, <1>4 DEF Reads

(* An answer is heeded as it was heard. *)
LEMMA WeighingKeepsInput ==
  ASSUME InputInv, NoAnswer \/ Conclude \/ AskAgain PROVE InputInv'
<1> USE DEF arriving, threads, stream
<1>1. /\ phase = "weigh" /\ phase' \in {"idle", "ask"}
      /\ UNCHANGED <<session, arriving, stream, posed, heard, err, from, then>>
  BY DEF NoAnswer, Conclude, AskAgain, Weighed
<1>2. OneLine <=> OneLine'
  BY <1>1 DEF OneLine
<1>3. InputTyped'
  BY <1>1 DEF InputInv, InputTyped
<1>4. AtALine'
  BY <1>1 DEF InputInv, AtALine, LineStart, Answering
<1>5. Answered'
  <2>1. CASE NoAnswer
    BY <1>1, <2>1 DEF NoAnswer, Answered, AtPrompt, Heeded
  <2>2. CASE Conclude
    BY <1>1, <1>2, <2>2 DEF Conclude, InputInv, Answered, AtPrompt
  <2>3. CASE AskAgain
    BY <1>1, <1>2, <2>3 DEF AskAgain, InputInv, Answered, AtPrompt
  <2> QED BY <2>1, <2>2, <2>3
<1> QED BY <1>3, <1>4, <1>5 DEF InputInv

(* What is typed comes after what has been read, by lines. *)
LEMMA TypeKeepsInput ==
  ASSUME SessionsOK, InputInv, Type PROVE InputInv'
<1> USE DEF threads, stream, asking
<1>1. PICK l \in Lines :
        /\ input' = input \o l
        /\ typedFor' = typedFor \o
             [i \in DOMAIN l |-> IF phase \in Answering THEN posed ELSE 0]
  BY DEF Type, Answering
<1>2. /\ session.keyboard
      /\ UNCHANGED <<session, phase, stream, asking, then>>
  BY DEF Type
<1> DEFINE more == [i \in DOMAIN l |-> IF phase \in Answering THEN posed ELSE 0]
<1>3. /\ l \in Seq(STRING) /\ Len(l) \in Nat \ {0} /\ l[Len(l)] \in Breaks
  BY DEF SessionsOK, Last
<1>4. /\ input \in Seq(STRING) /\ typedFor \in Seq(Nat) /\ Len(typedFor) = Len(input)
      /\ at \in 0..Len(input) /\ posed \in Nat /\ Len(input) \in Nat
  BY DEF InputInv, InputTyped
<1>5. /\ more \in Seq(Nat) /\ Len(more) = Len(l)
      /\ \A i \in 1..Len(l) : phase \in Answering => more[i] = posed
  BY <1>3, <1>4
<1> HIDE DEF more
<1>6. /\ input' \in Seq(STRING) /\ Len(input') = Len(input) + Len(l)
      /\ input'[Len(input')] = l[Len(l)]
      /\ \A i \in 1..Len(input) : input'[i] = input[i]
  BY <1>1, <1>3, <1>4
<1>7. /\ typedFor' \in Seq(Nat) /\ Len(typedFor') = Len(input')
      /\ typedFor' = typedFor \o more
      /\ \A i \in 1..Len(input) : typedFor'[i] = typedFor[i]
      /\ \A i \in Len(input) + 1..Len(input') : phase \in Answering => typedFor'[i] = posed
  <2>1. typedFor' = typedFor \o more
    BY <1>1 DEF more
  <2>2. typedFor' \in Seq(Nat) /\ Len(typedFor') = Len(typedFor) + Len(more)
    <3>1. \A u, v \in Seq(Nat) : u \o v \in Seq(Nat) /\ Len(u \o v) = Len(u) + Len(v)
      OBVIOUS
    <3> QED BY <1>4, <1>5, <2>1, <3>1
  <2>3. \A i \in 1..Len(input) : typedFor'[i] = typedFor[i]
    <3>1. \A i \in 1..Len(typedFor) : (typedFor \o more)[i] = typedFor[i]
      BY <1>4, <1>5
    <3> QED BY <1>4, <2>1, <3>1
  <2>4. ASSUME NEW i \in Len(input) + 1..Len(input'), phase \in Answering
        PROVE  typedFor'[i] = posed
    <3>1. i - Len(input) \in 1..Len(more) /\ typedFor'[i] = more[i - Len(input)]
      <4> DEFINE k == i - Len(input)
      <4>1. k \in 1..Len(more) /\ i = Len(typedFor) + k
        BY <1>3, <1>4, <1>5, <1>6
      <4> HIDE DEF k
      <4>2. (typedFor \o more)[Len(typedFor) + k] = more[k]
        BY <1>4, <1>5, <4>1
      <4> QED BY <2>1, <4>1, <4>2 DEF k
    <3> QED BY <1>5, <2>4, <3>1
  <2> QED BY <1>4, <1>5, <1>6, <2>1, <2>2, <2>3, <2>4
<1>8. InputTyped'
  BY <1>2, <1>3, <1>4, <1>6, <1>7 DEF InputInv, InputTyped
<1>9. AtALine'
  <2>1. LineStart(at) => LineStart(at)'
    BY <1>2, <1>4, <1>6 DEF LineStart
  <2>2. session.keyboard /\ phase \in Answering =>
          \A i \in at + 1..Len(input') : typedFor'[i] = posed
    <3> SUFFICES ASSUME session.keyboard, phase \in Answering, NEW i \in at + 1..Len(input')
                 PROVE  typedFor'[i] = posed
      OBVIOUS
    <3>1. \A k \in at + 1..Len(input) : typedFor[k] = posed
      BY DEF InputInv, AtALine
    <3>2. CASE i <= Len(input)
      <4>1. i \in at + 1..Len(input) /\ i \in 1..Len(input)
        BY <1>4, <3>2
      <4> QED BY <1>7, <3>1, <4>1
    <3>3. CASE ~(i <= Len(input))
      <4>1. i \in Len(input) + 1..Len(input')
        BY <1>4, <3>3
      <4> QED BY <1>7, <4>1
    <3> QED BY <3>2, <3>3
  <2> QED BY <1>2, <2>1, <2>2 DEF InputInv, AtALine
<1>10. Answered'
  <2>1. OneLine => OneLine'
    <3> SUFFICES ASSUME OneLine PROVE OneLine'
      OBVIOUS
    <3>1. /\ from \in Nat \ {0} /\ at \in from..Len(input)
          /\ from - 1 \in Nat /\ (from # 1 => from - 1 \in 1..Len(input))
      BY <1>4 DEF OneLine, InputInv, InputTyped
    <3>2. \A i \in from..at : i \in 1..Len(input) /\ input'[i] = input[i]
                                  /\ typedFor'[i] = typedFor[i]
      <4>1. \A i \in from..at : i \in 1..Len(input)
        BY <1>4, <3>1
      <4> QED BY <1>6, <1>7, <4>1
    <3>3. at \in from..at /\ \A i \in from..at - 1 : i \in from..at
      BY <1>4, <3>1
    <3>4. at \in from..Len(input')
      BY <1>3, <1>4, <1>6, <3>1
    <3>5. from = 1 \/ input'[from - 1] \in Breaks
      BY <1>6, <3>1 DEF OneLine
    <3> QED BY <1>2, <3>1, <3>2, <3>3, <3>4, <3>5 DEF OneLine
  <2> QED BY <1>2, <2>1 DEF InputInv, Answered
<1> QED BY <1>8, <1>9, <1>10 DEF InputInv

(* Every step keeps it. *)
LEMMA NextInput ==
  ASSUME SessionsOK, InputInv, [TerminalNext]_terminalVars PROVE InputInv'
<1>1. CASE UNCHANGED terminalVars
  BY <1>1, InputKept DEF terminalVars, threads, InputInv, InputTyped
<1>2. CASE Turns
  BY <1>2, TurnsKeepInput
<1>3. CASE Prompts
  BY <1>3, PoseKeepsInput, AsksKeepInput, ReadsKeepInput, WeighingKeepsInput DEF Prompts
<1>4. CASE \E g \in Generations(session) : Animation(g)
  BY <1>4, AnimationKeepsInput
<1>5. CASE Type
  BY <1>5, TypeKeepsInput
<1>6. CASE Rest
  BY <1>1, <1>6 DEF Rest
<1> QED BY <1>1, <1>2, <1>3, <1>4, <1>5, <1>6 DEF TerminalNext

(* What is known of the input says so of every answer. *)
LEMMA AnswersHeeded == InputInv => AnswersAreWhole
BY DEF InputInv, Answered, Heeded, OneLine, AnswersAreWhole

(* It is known at the beginning, and after every step. *)
LEMMA StepsInput ==
  (TerminalInit => InputInv) /\ (InputInv /\ [TerminalNext]_terminalVars => InputInv')
BY InitInput, NextInput, TerminalAssumption

(* What a prompt takes for an answer is one whole line, of its own time:    *)
(* ask catches up with a line that broke before it reads another.           *)
THEOREM WholeAnswers == TerminalSpec => []AnswersAreWhole
BY StepsInput, AnswersHeeded, PTL DEF TerminalSpec

-----------------------------------------------------------------------------
(* Concatenation. *)
LEMMA Joined ==
  ASSUME NEW S, NEW a \in Seq(S), NEW b \in Seq(S)
  PROVE  /\ a \o b \in Seq(S) /\ Len(a \o b) = Len(a) + Len(b)
         /\ Len(a) \in Nat /\ Len(b) \in Nat
         /\ \A i \in 1..Len(a) : (a \o b)[i] = a[i]
         /\ \A i \in 1..Len(b) : (a \o b)[Len(a) + i] = b[i]
OBVIOUS

(* Sequences are the same that agree everywhere. *)
LEMMA SameSequence ==
  ASSUME NEW S, NEW a \in Seq(S), NEW b \in Seq(S), Len(a) = Len(b),
         \A i \in 1..Len(a) : a[i] = b[i]
  PROVE  a = b
OBVIOUS

(* Concatenation is associative, with the empty sequence as its unit. *)
LEMMA JoinedTwice ==
  ASSUME NEW S, NEW a \in Seq(S), NEW b \in Seq(S), NEW c \in Seq(S)
  PROVE  /\ (a \o b) \o c = a \o (b \o c)
         /\ a \o <<>> = a /\ <<>> \o a = a
OBVIOUS

(* What FlattenSeq puts together, n pieces of it. *)
Flat(S, ss, f) ==
  /\ f \in [0..Len(ss) -> Seq(S)] /\ f[0] = <<>>
  /\ \A i \in 1..Len(ss) : f[i] = f[i - 1] \o ss[i]

(* The pieces can be put together one by one, *)
LEMMA FlatExists ==
  ASSUME NEW S, NEW ss \in Seq(Seq(S))
  PROVE  \E f : Flat(S, ss, f)
<1> DEFINE V == Seq(S)
           N == Len(ss)
           step == [i \in 1..N |-> [v \in V |-> v \o ss[i]]]
<1>1. N \in Nat /\ \A i \in 1..N : ss[i] \in V
  OBVIOUS
<1>2. \A u, v \in V : u \o v \in V
  OBVIOUS
<1>3. <<>> \in V
  OBVIOUS
<1> HIDE DEF V, N
<1>4. step \in [1..N -> [V -> V]]
  BY <1>1, <1>2
<1>5. PICK f \in [0..N -> V] : f[0] = <<>> /\ \A i \in 1..N : f[i] = step[i][f[i - 1]]
  <2> HIDE DEF step
  <2> DEFINE v == <<>>
  <2>1. v \in V
    BY <1>3
  <2> HIDE DEF v
  <2>2. \E f : Walk(f, N, V, v, step)
    BY <1>1, <1>4, <2>1, WalkExists
  <2> QED BY <2>2 DEF v, Walk
<1>6. \A i \in 1..N : f[i] = f[i - 1] \o ss[i]
  <2>1. \A i \in 1..N : f[i - 1] \in V
    BY <1>1
  <2> QED BY <1>5, <2>1
<1> QED BY <1>5, <1>6 DEF Flat, V, N

(* and FlattenSeq is what results. *)
LEMMA FlatIs ==
  ASSUME NEW S, NEW ss \in Seq(Seq(S)), NEW f, Flat(S, ss, f)
  PROVE  FlattenSeq(ss) = f[Len(ss)]
<1> DEFINE N == Len(ss)
           Next1(g, i) == IF i = 1 THEN ss[i] ELSE g[i - 1] \o ss[i]
           flatten == CHOOSE g : g = [i \in 1..N |-> Next1(g, i)]
           h == [i \in 1..N |-> f[i]]
<1>1. N \in Nat /\ \A i \in 1..N : ss[i] \in Seq(S) /\ f[i - 1] \in Seq(S)
  <2>1. N \in Nat /\ \A i \in 1..N : ss[i] \in Seq(S)
    OBVIOUS
  <2>2. \A i \in 1..N : i - 1 \in 0..N
    BY <2>1
  <2> QED BY <2>1, <2>2 DEF Flat
<1>r. /\ f[0] = <<>>
      /\ \A i \in 1..N : f[i] = f[i - 1] \o ss[i]
  BY DEF Flat
<1>2. CASE N = 0
  <2>1. ss = <<>>
    BY <1>2
  <2> QED BY <1>2, <2>1 DEF FlattenSeq, Flat
<1>3. CASE N # 0
  <2>1. h = [i \in 1..N |-> Next1(h, i)]
    <3>1. ASSUME NEW i \in 1..N PROVE f[i] = Next1(h, i)
      <4>1. CASE i = 1
        <5>1. f[1] = <<>> \o ss[1]
          <6>1. f[i] = f[i - 1] \o ss[i]
            BY <1>r
          <6>2. i - 1 = 0
            BY <4>1
          <6> QED BY <1>r, <4>1, <6>1, <6>2
        <5> QED BY <1>1, <4>1, <5>1
      <4>2. CASE i # 1
        <5>1. i - 1 \in 1..N
          BY <1>1, <4>2
        <5> QED BY <4>2, <5>1 DEF Flat
      <4> QED BY <4>1, <4>2
    <3> QED BY <3>1
  <2>2. flatten = [i \in 1..N |-> Next1(flatten, i)]
    <3> HIDE DEF Next1, h
    <3> QED BY <2>1
  <2> DEFINE B == {n \in Nat : n + 1 <= N => flatten[n + 1] = f[n + 1]}
  <2>3. \A i \in 1..N : flatten[i] = Next1(flatten, i)
    <3> HIDE DEF Next1, flatten
    <3> QED BY <2>2
  <2>4. 0 \in B
    <3>1. 1 \in 1..N
      BY <1>1, <1>3
    <3>2. flatten[1] = ss[1]
      <4> HIDE DEF flatten
      <4> QED BY <2>3, <3>1
    <3>3. f[1] = <<>> \o ss[1]
      <4>1. f[1] = f[1 - 1] \o ss[1]
        <5> HIDE DEF N
        <5> QED BY <1>r, <3>1, Zenon
      <4>2. 1 - 1 = 0
        OBVIOUS
      <4> QED BY <1>r, <4>1, <4>2
    <3> HIDE DEF flatten
    <3> QED BY <1>1, <3>1, <3>2, <3>3
  <2>5. ASSUME NEW n \in Nat, n \in B PROVE n + 1 \in B
    <3> SUFFICES ASSUME n + 1 + 1 <= N PROVE flatten[n + 1 + 1] = f[n + 1 + 1]
      OBVIOUS
    <3>1. n + 1 + 1 \in 1..N /\ n + 1 + 1 # 1 /\ n + 1 + 1 - 1 = n + 1 /\ n + 1 <= N
      BY <1>1
    <3> HIDE DEF flatten
    <3>2. flatten[n + 1] = f[n + 1]
      BY <2>5, <3>1
    <3> DEFINE k == n + 1 + 1
    <3>a. k \in 1..N /\ k # 1 /\ k - 1 = n + 1
      BY <3>1
    <3> HIDE DEF k, N
    <3>3. f[k] = f[n + 1] \o ss[k]
      BY <1>r, <3>a
    <3>4. flatten[k] = flatten[n + 1] \o ss[k]
      BY <2>3, <3>a
    <3> QED BY <3>2, <3>3, <3>4 DEF k
  <2>6. \A n \in Nat : n \in B
    <3> HIDE DEF B
    <3> QED BY <2>4, <2>5, Upwards
  <2>7. flatten[N] = f[N]
    <3>1. N - 1 \in Nat /\ N - 1 + 1 = N /\ N <= N
      BY <1>1, <1>3
    <3>2. N - 1 \in B
      BY <2>6, <3>1
    <3> HIDE DEF flatten
    <3> QED BY <3>1, <3>2
  <2> QED BY <1>3, <2>7 DEF FlattenSeq
<1> QED BY <1>2, <1>3

(* Sequences flatten to a sequence. *)
LEMMA Flattened ==
  ASSUME NEW S, NEW ss \in Seq(Seq(S))
  PROVE  FlattenSeq(ss) \in Seq(S)
<1>1. PICK f : Flat(S, ss, f)
  BY FlatExists
<1>2. Len(ss) \in Nat /\ f[Len(ss)] \in Seq(S)
  BY <1>1 DEF Flat
<1> QED BY <1>1, <1>2, FlatIs

(* What is flattened in two parts is flattened. *)
LEMMA FlattenedTwo ==
  ASSUME NEW S, NEW a \in Seq(Seq(S)), NEW b \in Seq(Seq(S))
  PROVE  FlattenSeq(a \o b) = FlattenSeq(a) \o FlattenSeq(b)
<1>1. PICK f : Flat(S, a, f)
  BY FlatExists
<1>2. PICK g : Flat(S, b, g)
  BY FlatExists
<1> DEFINE m == Len(a)
           n == Len(b)
           h == [i \in 0..m + n |-> IF i <= m THEN f[i] ELSE f[m] \o g[i - m]]
<1>3. m \in Nat /\ n \in Nat /\ a \o b \in Seq(Seq(S)) /\ Len(a \o b) = m + n
  BY Joined
<1>4. /\ \A i \in 0..m : f[i] \in Seq(S)
      /\ \A i \in 0..n : g[i] \in Seq(S)
      /\ \A i \in 1..n : b[i] \in Seq(S)
  <2>1. (\A i \in 0..m : f[i] \in Seq(S)) /\ \A i \in 0..n : g[i] \in Seq(S)
    BY <1>1, <1>2 DEF Flat
  <2>2. \A i \in 1..n : b[i] \in Seq(S)
    OBVIOUS
  <2> QED BY <2>1, <2>2
<1>j. \A u, v, w \in Seq(S) : u \o (v \o w) = (u \o v) \o w
  BY JoinedTwice
<1>5. h \in [0..m + n -> Seq(S)] /\ h[0] = <<>>
  <2>1. \A i \in 0..m + n : h[i] \in Seq(S)
    <3> SUFFICES ASSUME NEW i \in 0..m + n PROVE h[i] \in Seq(S)
      OBVIOUS
    <3>1. CASE i <= m
      BY <1>3, <1>4, <3>1
    <3>2. CASE ~(i <= m)
      <4>1. i - m \in 0..n /\ m \in 0..m
        BY <1>3, <3>2
      <4> QED BY <1>4, <3>2, <4>1
    <3> QED BY <3>1, <3>2
  <2> QED BY <1>1, <1>3, <2>1 DEF Flat
<1>6. ASSUME NEW i \in 1..m + n PROVE h[i] = h[i - 1] \o (a \o b)[i]
  <2>1. CASE i <= m
    <3>1. (a \o b)[i] = a[i] /\ i \in 1..m /\ i - 1 \in 0..m + n /\ i - 1 <= m /\ i \in 0..m + n
      BY <1>3, <2>1, Joined
    <3> QED BY <1>1, <2>1, <3>1 DEF Flat
  <2>2. CASE ~(i <= m)
    <3>1. i - m \in 1..n /\ m + (i - m) = i /\ i - 1 \in 0..m + n /\ i \in 0..m + n
          /\ i - 1 - m = i - m - 1 /\ i - m - 1 \in 0..n /\ m \in 0..m
      BY <1>3, <2>2
    <3>2. (a \o b)[i] = b[i - m]
      BY <1>3, <3>1, Joined
    <3>3. g[i - m] = g[i - m - 1] \o b[i - m]
      BY <1>2, <3>1 DEF Flat
    <3>4. h[i - 1] = f[m] \o g[i - m - 1]
      <4>1. CASE i - 1 = m
        <5>1. h[i - 1] = f[m] /\ i - m - 1 = 0
          BY <1>3, <3>1, <4>1
        <5>2. g[0] = <<>>
          BY <1>2 DEF Flat
        <5>3. f[m] \in Seq(S)
          BY <1>4, <3>1
        <5>4. f[m] \o <<>> = f[m]
          BY <5>3
        <5> QED BY <5>1, <5>2, <5>4
      <4>2. CASE i - 1 # m
        <5>1. ~(i - 1 <= m)
          BY <1>3, <2>2, <3>1, <4>2
        <5> QED BY <3>1, <5>1
      <4> QED BY <4>1, <4>2
    <3>5. h[i] = f[m] \o g[i - m]
      BY <2>2, <3>1
    <3>6. f[m] \in Seq(S) /\ g[i - m - 1] \in Seq(S) /\ b[i - m] \in Seq(S)
      BY <1>4, <3>1
    <3>7. f[m] \o (g[i - m - 1] \o b[i - m]) = (f[m] \o g[i - m - 1]) \o b[i - m]
      BY <1>j, <3>6
    <3> HIDE DEF h, m, n
    <3> QED BY <3>2, <3>3, <3>4, <3>5, <3>7
  <2> QED BY <2>1, <2>2
<1>7. Flat(S, a \o b, h)
  <2> HIDE DEF h
  <2> QED BY <1>3, <1>5, <1>6 DEF Flat
<1>8. h[m + n] = f[m] \o g[n]
  <2>1. CASE n = 0
    <3>1. g[n] = <<>> /\ f[m] \in Seq(S)
      BY <1>2, <1>3, <1>4, <2>1 DEF Flat
    <3> QED BY <1>3, <2>1, <3>1
  <2>2. CASE n # 0
    <3>1. m + n \in 0..m + n /\ ~(m + n <= m) /\ m + n - m = n
      BY <1>3, <2>2
    <3>2. ASSUME NEW k \in 0..m + n, k = m + n PROVE h[k] = f[m] \o g[n]
      <4>1. ~(k <= m) /\ k - m = n
        BY <1>3, <2>2, <3>2
      <4> QED BY <4>1
    <3> HIDE DEF h, m, n
    <3> QED BY <3>1, <3>2, Zenon
  <2> QED BY <2>1, <2>2
<1> QED BY <1>1, <1>2, <1>3, <1>7, <1>8, FlatIs

-----------------------------------------------------------------------------
(* A sequence that agrees with two others one after the other. *)
LEMMA SameAsJoined ==
  ASSUME NEW V, NEW p \in Seq(V), NEW q \in Seq(V), NEW r \in Seq(V),
         Len(p) = Len(q) + Len(r), \A i \in 1..Len(q) : p[i] = q[i],
         \A i \in 1..Len(r) : p[Len(q) + i] = r[i]
  PROVE  p = q \o r
<1>1. /\ q \o r \in Seq(V) /\ Len(q \o r) = Len(p)
      /\ Len(q) \in Nat /\ Len(r) \in Nat
  OBVIOUS
<1>2. ASSUME NEW i \in 1..Len(p) PROVE p[i] = (q \o r)[i]
  <2>1. CASE i <= Len(q)
    <3>1. i \in 1..Len(q)
      BY <1>1, <2>1
    <3> QED BY <3>1
  <2>2. CASE ~(i <= Len(q))
    <3>1. PICK k \in 1..Len(r) : i = Len(q) + k
      <4>1. i - Len(q) \in 1..Len(r) /\ i = Len(q) + (i - Len(q))
        BY <1>1, <2>2
      <4> QED BY <4>1
    <3>2. p[Len(q) + k] = r[k]
      OBVIOUS
    <3>3. (q \o r)[Len(q) + k] = r[k]
      BY <1>1
    <3> QED BY <3>1, <3>2, <3>3
  <2> QED BY <2>1, <2>2
<1> QED BY <1>1, <1>2, SameSequence

(* p is made of m pieces as in q and n pieces as in r. *)
Splits(S, m, n, p, q, r) ==
  /\ m \in Nat /\ n \in Nat
  /\ p \in [1..m + n -> Seq(S)] /\ q \in [1..m -> Seq(S)] /\ r \in [1..n -> Seq(S)]
  /\ \A i \in 1..m : p[i] = q[i]
  /\ \A i \in 1..n : p[m + i] = r[i]

(* What is translated piece by piece can be translated in two parts. *)
LEMMA PieceByPiece ==
  ASSUME NEW S, NEW m, NEW n, NEW p, NEW q, NEW r, Splits(S, m, n, p, q, r)
  PROVE  /\ FlattenSeq(p) = FlattenSeq(q) \o FlattenSeq(r)
         /\ FlattenSeq(q) \in Seq(S)
<1> DEFINE V == Seq(S)
<1>1. /\ p \in Seq(V) /\ q \in Seq(V) /\ r \in Seq(V)
      /\ Len(q) = m /\ Len(r) = n /\ Len(p) = m + n
  <2>1. /\ p \in [1..m + n -> V] /\ q \in [1..m -> V] /\ r \in [1..n -> V]
        /\ m \in Nat /\ n \in Nat /\ m + n \in Nat
    BY DEF V, Splits
  <2> HIDE DEF V
  <2> QED BY <2>1
<1>2. /\ \A i \in 1..m : p[i] = q[i]
      /\ \A i \in 1..n : p[m + i] = r[i]
  BY DEF Splits
<1>3. p = q \o r
  <2> HIDE DEF V
  <2> QED BY <1>1, <1>2, SameAsJoined
<1> QED BY <1>1, <1>3, FlattenedTwo, Flattened

(* A translation piece by piece is a sequence. *)
LEMMA OnePiece ==
  ASSUME NEW S, NEW n \in Nat, NEW p \in [1..n -> Seq(S)]
  PROVE  FlattenSeq(p) \in Seq(S)
<1> DEFINE V == Seq(S)
<1>1. p \in Seq(V)
  <2> HIDE DEF V
  <2>1. p \in [1..n -> V]
    BY DEF V
  <2> QED BY <2>1
<1> QED BY <1>1, Flattened

(* What a text may be made of.  The literals are strings, which no prover   *)
(* knows.                                                                   *)
Glyphs == STRING \cup {" ", "\n", "invalid", "e acute", Mark, "c3"}
                 \cup {Name, Thinking, Prompt, "heading", Question}
Text == Seq(Glyphs)

(* Concatenation of texts. *)
LEMMA TextFacts ==
  ASSUME NEW a \in Text, NEW b \in Text
  PROVE  /\ a \o b \in Text /\ Len(a) \in Nat /\ Len(b) \in Nat
         /\ Len(a \o b) = Len(a) + Len(b)
         /\ DOMAIN a = 1..Len(a) /\ DOMAIN (a \o b) = 1..Len(a) + Len(b)
         /\ \A i \in 1..Len(a) : (a \o b)[i] = a[i] /\ a[i] \in Glyphs
         /\ \A i \in 1..Len(b) : (a \o b)[Len(a) + i] = b[i] /\ b[i] \in Glyphs
<1>1. a \in Seq(Glyphs) /\ b \in Seq(Glyphs)
  BY DEF Text
<1>2. \A s \in Seq(Glyphs) : Len(s) \in Nat /\ DOMAIN s = 1..Len(s)
                              /\ \A i \in 1..Len(s) : s[i] \in Glyphs
  OBVIOUS
<1> QED BY <1>1, <1>2, Joined DEF Text

(* Sequences of one element, and of none. *)
LEMMA Single == ASSUME NEW S, NEW x \in S PROVE <<x>> \in Seq(S) /\ <<>> \in Seq(S)
OBVIOUS

(* TextFacts of one glyph, and of none. *)
LEMMA Letters ==
  ASSUME NEW x \in Glyphs
  PROVE  <<x>> \in Text /\ <<>> \in Text /\ <<" ">> \in Text /\ <<Mark>> \in Text
<1>1. " " \in Glyphs /\ Mark \in Glyphs
  BY DEF Glyphs
<1> QED BY <1>1, Single DEF Text

(* display.Safe works rune by rune. *)
LEMMA SafeTwo ==
  ASSUME NEW a \in Text, NEW b \in Text
  PROVE  /\ Safe(a) \in Text
         /\ Safe(a \o b) = Safe(a) \o Safe(b)
<1>1. ASSUME NEW x \in Glyphs PROVE Shown(x) \in Text
  <2>1. CASE x \in {"invalid", "BEL", "ESC"}
    <3>1. Shown(x) = <<>>
      BY <2>1 DEF Shown, Blank
    <3> QED BY <3>1, Letters
  <2>2. CASE x \notin {"invalid", "BEL", "ESC"} /\ x \in Blank
    <3>1. Shown(x) = <<" ">>
      BY <2>2 DEF Shown, Blank
    <3> QED BY <3>1, Letters
  <2>3. CASE x \notin {"invalid", "BEL", "ESC"} /\ x \notin Blank
    <3>1. Shown(x) = <<x>>
      BY <2>3 DEF Shown, Blank
    <3> QED BY <3>1, Letters
  <2> QED BY <2>1, <2>2, <2>3
<1> DEFINE m == Len(a)
           n == Len(b)
           p == [i \in 1..m + n |-> Shown((a \o b)[i])]
           q == [i \in 1..m |-> Shown(a[i])]
           r == [i \in 1..n |-> Shown(b[i])]
<1>2. m \in Nat /\ n \in Nat /\ a \o b \in Text /\ Len(a \o b) = m + n
  BY TextFacts
<1>3. /\ \A i \in 1..m : a[i] \in Glyphs
      /\ \A i \in 1..n : b[i] \in Glyphs
      /\ \A i \in 1..m + n : (a \o b)[i] \in Glyphs
  BY <1>2, TextFacts
<1>4. p \in [1..m + n -> Seq(Glyphs)] /\ q \in [1..m -> Seq(Glyphs)] /\ r \in [1..n -> Seq(Glyphs)]
  BY <1>1, <1>3 DEF Text
<1>5. /\ \A i \in 1..m : p[i] = q[i]
      /\ \A i \in 1..n : p[m + i] = r[i]
  <2>1. \A i \in 1..m : i \in 1..m + n /\ (a \o b)[i] = a[i]
    BY <1>2, TextFacts
  <2>2. \A i \in 1..n : m + i \in 1..m + n
    BY <1>2
  <2>3. \A i \in 1..n : (a \o b)[m + i] = b[i]
    BY TextFacts
  <2> QED BY <2>1, <2>2, <2>3
<1>6. Safe(a) = FlattenSeq(q) /\ Safe(b) = FlattenSeq(r) /\ Safe(a \o b) = FlattenSeq(p)
  BY TextFacts DEF Safe
<1> HIDE DEF p, q, r, m, n
<1>7. Splits(Glyphs, m, n, p, q, r)
  BY <1>2, <1>4, <1>5 DEF Splits
<1> QED BY <1>6, <1>7, PieceByPiece DEF Text

-----------------------------------------------------------------------------
(* A set of numbers with a bound that is not empty has a greatest one. *)
LEMMA GreatestNatural ==
  ASSUME NEW B, B \subseteq Nat, B # {}, NEW n \in Nat, \A k \in B : k <= n
  PROVE  \E m \in B : \A k \in B : k <= m
<1> DEFINE C == {n - k : k \in B}
<1>1. C \subseteq Nat /\ C # {}
  <2>1. \A k \in B : n - k \in Nat
    OBVIOUS
  <2> QED BY <2>1
<1>2. PICK c \in C : \A d \in C : c <= d
  <2> HIDE DEF C
  <2> QED BY <1>1, LeastNatural
<1>3. PICK m \in B : c = n - m
  OBVIOUS
<1>4. ASSUME NEW k \in B PROVE k <= m
  <2>1. n - k \in C
    OBVIOUS
  <2>2. c <= n - k
    BY <1>2, <2>1
  <2> QED BY <1>3, <2>2
<1> QED BY <1>4

(* A value that stands by the name at j reaches i. *)
ValueReaches(u, j, i) ==
  \E k \in j..i - 1 : /\ u[j] \in Names /\ OnItsLine(u, j, k)
                      /\ \A h \in k + 1..i : u[h] \notin Blank
Nearby(u, i) == \E j \in 1..i - 1 : ValueReaches(u, j, i)

(* No value goes on behind p that stands by a name before it. *)
NotAcross(u, p) == \A j \in 1..p : \A i \in p + 1..Len(u) : ~ValueReaches(u, j, i)

(* v is what u holds from p + 1 to q. *)
IsPart(u, p, q, v) ==
  /\ u \in Text /\ v \in Text /\ p \in Nat /\ q \in Nat /\ p <= q /\ q <= Len(u)
  /\ Len(v) = q - p /\ \A i \in 1..q - p : v[i] = u[p + i]

(* If the values stand by their names there are no others. *)
LEMMA ValuesNearby ==
  ASSUME NEW u \in Text, StandByTheirNames(u), NEW i \in 0..Len(u)
  PROVE  InValue(u, i) <=> Nearby(u, i)
<1>0. Len(u) \in Nat /\ DOMAIN u = 1..Len(u)
  BY TextFacts
<1>1. ASSUME Nearby(u, i) PROVE InValue(u, i)
  BY <1>1 DEF Nearby, ValueReaches, InValue
<1>2. ASSUME InValue(u, i) PROVE Nearby(u, i)
  <2>a. PICK j \in 1..i - 1 : \E k \in j..i - 1 :
          /\ u[j] \in Names /\ \A h \in k + 1..i : u[h] \notin Blank
          /\ OnItsLine(u, j, k) \/ OnTheNext(u, j, k)
    BY <1>2 DEF InValue
  <2>1. PICK k \in j..i - 1 :
          /\ u[j] \in Names /\ \A h \in k + 1..i : u[h] \notin Blank
          /\ OnItsLine(u, j, k) \/ OnTheNext(u, j, k)
    BY <2>a
  <2>2. ~OnTheNext(u, j, k)
    <3> SUFFICES ASSUME OnTheNext(u, j, k) PROVE FALSE
      OBVIOUS
    <3>1. PICK n \in j + 1..k : /\ u[n] = "\n"
                                /\ \A h \in j + 1..k : h # n => u[h] = " "
      BY DEF OnTheNext
    <3>2. j \in DOMAIN u /\ n \in DOMAIN u /\ j < n
      BY <1>0
    <3>3. \A h \in j + 1..n : h \in j + 1..k
      BY <1>0
    <3>4. \A h \in j + 1..n : u[h] \in Blank
      BY <3>1, <3>3 DEF Blank
    <3>5. u[n] = " "
      BY <2>1, <3>2, <3>4 DEF StandByTheirNames
    <3> QED BY <3>1, <3>5
  <2> QED BY <2>1, <2>2 DEF Nearby, ValueReaches
<1> QED BY <1>1, <1>2

(* They do so in every part as well. *)
LEMMA PartStands ==
  ASSUME NEW u, NEW p, NEW q, NEW v, IsPart(u, p, q, v), StandByTheirNames(u)
  PROVE  StandByTheirNames(v)
<1>1. /\ u \in Text /\ v \in Text /\ p \in Nat /\ q \in Nat /\ p <= q /\ q <= Len(u)
      /\ Len(v) = q - p /\ \A i \in 1..q - p : v[i] = u[p + i]
  BY DEF IsPart
<1>2. Len(u) \in Nat /\ DOMAIN u = 1..Len(u) /\ DOMAIN v = 1..q - p
  BY <1>1, TextFacts
<1> SUFFICES ASSUME NEW j \in DOMAIN v, NEW k \in DOMAIN v, j < k, v[j] \in Names,
                    \A h \in j + 1..k : v[h] \in Blank
             PROVE  v[j] = Known /\ v[k] = " "
  BY DEF StandByTheirNames
<1>3. /\ j \in 1..q - p /\ k \in 1..q - p /\ p + j \in 1..Len(u) /\ p + k \in 1..Len(u)
      /\ p + j < p + k
  BY <1>1, <1>2
<1>4. v[j] = u[p + j] /\ v[k] = u[p + k]
  BY <1>1, <1>3
<1>5. ASSUME NEW h \in p + j + 1..p + k PROVE u[h] \in Blank
  <2>0. /\ h \in Int /\ j \in Int /\ k \in Int /\ p \in Int /\ q \in Int
        /\ p + j + 1 <= h /\ h <= p + k /\ 1 <= j /\ k <= q - p
    BY <1>1, <1>3
  <2>1. h - p \in j + 1..k /\ h - p \in 1..q - p /\ p + (h - p) = h
    BY <2>0
  <2>2. v[h - p] = u[p + (h - p)]
    BY <1>1, <2>1
  <2> QED BY <2>1, <2>2
<1> DEFINE m == p + j
           n == p + k
<1>6. m \in DOMAIN u /\ n \in DOMAIN u /\ m < n /\ u[m] \in Names /\ \A h \in m + 1..n : u[h] \in Blank
  BY <1>2, <1>3, <1>4, <1>5
<1>7. u[m] = v[j] /\ u[n] = v[k]
  BY <1>4
<1> HIDE DEF m, n
<1> QED BY <1>6, <1>7 DEF StandByTheirNames

(* A value of a part is one of the whole, *)
LEMMA NearbyInPart ==
  ASSUME NEW u, NEW p, NEW q, NEW v, IsPart(u, p, q, v), NotAcross(u, p),
         NEW i \in 1..q - p, NEW w, w = p + i
  PROVE  Nearby(v, i) <=> Nearby(u, w)
<1>1. /\ u \in Text /\ v \in Text /\ p \in Nat /\ q \in Nat /\ p <= q /\ q <= Len(u)
      /\ \A h \in 1..q - p : v[h] = u[p + h]
  BY DEF IsPart
<1>2. Len(u) \in Nat /\ i \in Nat /\ w \in p + 1..Len(u) /\ w \in Nat
  BY <1>1, TextFacts
<1>3. ASSUME Nearby(v, i) PROVE Nearby(u, w)
  <2>a. PICK j \in 1..i - 1 : ValueReaches(v, j, i)
    BY <1>3 DEF Nearby
  <2>1. PICK k \in j..i - 1 :
          /\ v[j] \in Names /\ \A h \in j + 1..k : v[h] = " "
          /\ \A h \in k + 1..i : v[h] \notin Blank
    BY <2>a DEF ValueReaches, OnItsLine
  <2> DEFINE m == p + j
             n == p + k
  <2>2. m \in 1..w - 1 /\ n \in m..w - 1 /\ j \in 1..q - p
    BY <1>1, <1>2
  <2>3. u[m] \in Names
    BY <1>1, <2>1, <2>2
  <2>4. ASSUME NEW h \in m + 1..n PROVE u[h] = " "
    <3>1. h - p \in j + 1..k /\ h - p \in 1..q - p /\ p + (h - p) = h
      BY <1>1, <1>2
    <3>2. v[h - p] = u[p + (h - p)]
      BY <1>1, <3>1
    <3> QED BY <2>1, <3>1, <3>2
  <2>5. ASSUME NEW h \in n + 1..w PROVE u[h] \notin Blank
    <3>1. h - p \in k + 1..i /\ h - p \in 1..q - p /\ p + (h - p) = h
      BY <1>1, <1>2
    <3>2. v[h - p] = u[p + (h - p)]
      BY <1>1, <3>1
    <3> QED BY <2>1, <3>1, <3>2
  <2> HIDE DEF m, n
  <2>6. ValueReaches(u, m, w)
    BY <2>2, <2>3, <2>4, <2>5 DEF ValueReaches, OnItsLine
  <2> QED BY <2>2, <2>6 DEF Nearby
<1>4. ASSUME Nearby(u, w) PROVE Nearby(v, i)
  <2>1. PICK m \in 1..w - 1 : ValueReaches(u, m, w)
    BY <1>4 DEF Nearby
  <2>2. ~(m \in 1..p)
    BY <1>2, <2>1 DEF NotAcross
  <2>3. PICK n \in m..w - 1 :
          /\ u[m] \in Names /\ \A h \in m + 1..n : u[h] = " "
          /\ \A h \in n + 1..w : u[h] \notin Blank
    BY <2>1 DEF ValueReaches, OnItsLine
  <2> DEFINE j == m - p
             k == n - p
  <2>4. /\ j \in 1..i - 1 /\ k \in j..i - 1 /\ j \in 1..q - p /\ p + j = m
        /\ j \in Nat /\ k \in Nat
    BY <1>1, <1>2, <2>2
  <2>5. v[j] \in Names
    BY <1>1, <2>3, <2>4
  <2>6. ASSUME NEW h \in j + 1..k PROVE v[h] = " "
    <3>1. p + h \in m + 1..n /\ h \in 1..q - p
      BY <1>1, <1>2, <2>4
    <3> QED BY <1>1, <2>3, <3>1
  <2>7. ASSUME NEW h \in k + 1..i PROVE v[h] \notin Blank
    <3>1. p + h \in n + 1..w /\ h \in 1..q - p
      BY <1>1, <1>2, <2>4
    <3> QED BY <1>1, <2>3, <3>1
  <2> HIDE DEF j, k
  <2>8. ValueReaches(v, j, i)
    BY <2>4, <2>5, <2>6, <2>7 DEF ValueReaches, OnItsLine
  <2> QED BY <2>4, <2>8 DEF Nearby
<1> QED BY <1>3, <1>4

(* so a part that begins behind a blank is scrubbed as in the whole. *)
LEMMA ScrubbedInPart ==
  ASSUME NEW u, NEW p, NEW q, NEW v, IsPart(u, p, q, v), NotAcross(u, p),
         StandByTheirNames(u), p # 0 => u[p] \in Blank,
         NEW i \in 1..q - p, NEW w, w = p + i
  PROVE  Scrubbed(v, i) = Scrubbed(u, w)
<1>1. /\ u \in Text /\ v \in Text /\ p \in Nat /\ q \in Nat /\ p <= q /\ q <= Len(u)
      /\ Len(v) = q - p /\ \A h \in 1..q - p : v[h] = u[p + h]
  BY DEF IsPart
<1>a. Len(u) \in Nat
  BY <1>1, TextFacts
<1>2. i \in Nat /\ i \in 0..Len(v) /\ w \in 0..Len(u) /\ w - 1 \in 0..Len(u)
  BY <1>1, <1>a
<1>3. StandByTheirNames(v)
  BY PartStands
<1>4. ASSUME NEW h \in 1..q - p, NEW x, x = p + h PROVE InValue(v, h) <=> InValue(u, x)
  <2>1. x \in 0..Len(u) /\ h \in 0..Len(v)
    BY <1>1, <1>a, <1>4
  <2>2. InValue(v, h) <=> Nearby(v, h)
    BY <1>1, <1>3, <2>1, ValuesNearby
  <2>3. InValue(u, x) <=> Nearby(u, x)
    BY <1>1, <2>1, ValuesNearby
  <2>4. Nearby(v, h) <=> Nearby(u, x)
    BY <1>4, NearbyInPart
  <2> QED BY <2>2, <2>3, <2>4
<1>5. InValue(v, i) <=> InValue(u, w)
  BY <1>4
<1>6. InValue(v, i - 1) <=> InValue(u, w - 1)
  <2>1. CASE i = 1
    <3>1. ~InValue(v, i - 1)
      BY <2>1 DEF InValue
    <3>2. ~InValue(u, p)
      <4> SUFFICES ASSUME NEW j \in 1..p - 1, NEW k \in j..p - 1,
                          \A h \in k + 1..p : u[h] \notin Blank
                   PROVE  FALSE
        BY DEF InValue
      <4>1. p \in k + 1..p /\ p # 0
        BY <1>1
      <4> QED BY <4>1
    <3>3. w - 1 = p
      BY <1>1, <2>1
    <3> QED BY <3>1, <3>2, <3>3
  <2>2. CASE i # 1
    <3>1. i - 1 \in 1..q - p /\ w - 1 = p + (i - 1)
      BY <1>1, <1>2, <2>2
    <3> QED BY <1>4, <3>1
  <2> QED BY <2>1, <2>2
<1>7. v[i] = u[w]
  BY <1>1
<1> QED BY <1>5, <1>6, <1>7 DEF Scrubbed

(* A scrubbed character is a text. *)
LEMMA ScrubbedIs == ASSUME NEW u \in Text, NEW i \in 1..Len(u) PROVE Scrubbed(u, i) \in Text
<1>1. u[i] \in Glyphs
  BY TextFacts
<1>2. CASE ~InValue(u, i)
  BY <1>1, <1>2, Letters DEF Scrubbed
<1>3. CASE InValue(u, i) /\ InValue(u, i - 1)
  BY <1>1, <1>3, Letters DEF Scrubbed
<1>4. CASE InValue(u, i) /\ ~InValue(u, i - 1)
  BY <1>1, <1>4, Letters DEF Scrubbed
<1> QED BY <1>2, <1>3, <1>4

(* Scrubbing makes a text of a text. *)
LEMMA ScrubIs == ASSUME NEW u \in Text PROVE ScrubSecrets(u) \in Text
<1> DEFINE p == [i \in 1..Len(u) |-> Scrubbed(u, i)]
<1>1. Len(u) \in Nat /\ ScrubSecrets(u) = FlattenSeq(p)
  BY TextFacts DEF ScrubSecrets
<1>2. p \in [1..Len(u) -> Text]
  BY ScrubbedIs
<1> HIDE DEF p
<1> QED BY <1>1, <1>2, OnePiece DEF Text

(* A text is scrubbed alike in two parts that no value connects. *)
LEMMA ScrubTwo ==
  ASSUME NEW a \in Text, NEW b \in Text, a # <<>> => a[Len(a)] \in Blank,
         StandByTheirNames(a \o b), NotAcross(a \o b, Len(a))
  PROVE  ScrubSecrets(a \o b) = ScrubSecrets(a) \o ScrubSecrets(b)
<1> DEFINE m == Len(a)
           n == Len(b)
           u == a \o b
           p == [i \in 1..m + n |-> Scrubbed(u, i)]
           q == [i \in 1..m |-> Scrubbed(a, i)]
           r == [i \in 1..n |-> Scrubbed(b, i)]
<1>0. /\ m \in Nat /\ n \in Nat /\ u \in Text /\ Len(u) = m + n
      /\ \A i \in 1..m : u[i] = a[i]
      /\ \A i \in 1..n : u[m + i] = b[i]
      /\ m # 0 => u[m] \in Blank
  <2>1. m # 0 => a # <<>>
    OBVIOUS
  <2>2. /\ m \in Nat /\ n \in Nat /\ u \in Text /\ Len(u) = m + n
        /\ \A i \in 1..m : u[i] = a[i]
        /\ \A i \in 1..n : u[m + i] = b[i]
    BY TextFacts
  <2>3. m # 0 => u[m] = a[m]
    BY <2>2
  <2> QED BY <2>1, <2>2, <2>3
<1>1. StandByTheirNames(u) /\ NotAcross(u, m)
  OBVIOUS
<1>2. /\ ScrubSecrets(a) = FlattenSeq(q) /\ ScrubSecrets(b) = FlattenSeq(r)
      /\ ScrubSecrets(u) = FlattenSeq(p)
  BY <1>0, TextFacts DEF ScrubSecrets
<1>m. m = Len(a) /\ n = Len(b)
  OBVIOUS
<1> HIDE DEF m, n, u
<1>3. ASSUME NEW i \in 1..m PROVE p[i] = q[i]
  <2>1. IsPart(u, 0, m, a)
    BY <1>0, <1>m DEF IsPart
  <2>2. NotAcross(u, 0)
    BY DEF NotAcross
  <2>3. i \in 1..m - 0 /\ i = 0 + i /\ i \in 1..m + n
    BY <1>0
  <2>4. Scrubbed(a, i) = Scrubbed(u, i)
    BY <1>1, <2>1, <2>2, <2>3, ScrubbedInPart
  <2> QED BY <2>3, <2>4
<1>4. ASSUME NEW i \in 1..n PROVE p[m + i] = r[i]
  <2> DEFINE w == m + i
             e == m + n
  <2>1. IsPart(u, m, e, b)
    BY <1>0, <1>m DEF IsPart
  <2>2. i \in 1..e - m /\ w \in 1..m + n
    BY <1>0
  <2>3. w = m + i
    OBVIOUS
  <2>4. m # 0 => u[m] \in Blank
    BY <1>0
  <2>5. p[w] = Scrubbed(u, w) /\ r[i] = Scrubbed(b, i)
    BY <2>2
  <2> HIDE DEF w, e, p, r
  <2>6. Scrubbed(b, i) = Scrubbed(u, w)
    BY <1>1, <2>1, <2>2, <2>3, <2>4, ScrubbedInPart
  <2> QED BY <2>3, <2>5, <2>6
<1>5. Splits(Glyphs, m, n, p, q, r)
  <2>1. p \in [1..m + n -> Text] /\ q \in [1..m -> Text] /\ r \in [1..n -> Text]
    BY <1>0, <1>m, ScrubbedIs
  <2> HIDE DEF p, q, r
  <2> QED BY <1>0, <1>3, <1>4, <2>1 DEF Splits, Text
<1> HIDE DEF p, q, r
<1> QED BY <1>2, <1>5, PieceByPiece DEF Text, u

(* A character is decoded alike on either side of a cut that does not split *)
(* one.                                                                     *)
LEMMA DecodeTwo ==
  ASSUME NEW a \in Text, NEW b \in Text,
         a # <<>> /\ b # <<>> => ~(a[Len(a)] = "c3" /\ b[1] = "a9")
  PROVE  /\ Decode(a) \in Text
         /\ Decode(a \o b) = Decode(a) \o Decode(b)
<1> DEFINE m == Len(a)
           n == Len(b)
           p == [i \in 1..m + n |-> Runes(a \o b, i)]
           q == [i \in 1..m |-> Runes(a, i)]
           r == [i \in 1..n |-> Runes(b, i)]
<1>0. /\ m \in Nat /\ n \in Nat /\ a \o b \in Text /\ Len(a \o b) = m + n
      /\ DOMAIN a = 1..m /\ DOMAIN b = 1..n /\ DOMAIN (a \o b) = 1..m + n
      /\ \A i \in 1..m : (a \o b)[i] = a[i] /\ a[i] \in Glyphs
      /\ \A i \in 1..n : (a \o b)[m + i] = b[i] /\ b[i] \in Glyphs
      /\ m # 0 /\ n # 0 => ~(a[m] = "c3" /\ b[1] = "a9")
  <2>1. (m # 0 => a # <<>>) /\ (n # 0 => b # <<>>)
    OBVIOUS
  <2> QED BY <2>1, TextFacts
<1> HIDE DEF m, n
<1>1. ASSUME NEW i \in 0..m PROVE Pair(a \o b, i) <=> Pair(a, i)
  <2>1. CASE i = 0
    BY <1>0, <2>1 DEF Pair
  <2>2. CASE i # 0 /\ i # m
    <3>1. i \in 1..m /\ i + 1 \in 1..m /\ i \in 1..m + n /\ i + 1 \in 1..m + n
      BY <1>0, <2>2
    <3> QED BY <1>0, <3>1 DEF Pair
  <2>3. CASE i # 0 /\ i = m
    <3>1. ~(i + 1 \in 1..m) /\ m \in 1..m
      BY <1>0, <2>3
    <3>2. i + 1 \in 1..m + n => n # 0 /\ 1 \in 1..n /\ (a \o b)[m + 1] = b[1]
      BY <1>0, <2>3
    <3> QED BY <1>0, <2>3, <3>1, <3>2 DEF Pair
  <2> QED BY <2>1, <2>2, <2>3
<1>2. ASSUME NEW i \in 1..n PROVE Pair(a \o b, m + i) <=> Pair(b, i)
  <2>1. m + i \in 1..m + n /\ (m + i + 1 \in 1..m + n <=> i + 1 \in 1..n) /\ m + i + 1 = m + (i + 1)
    BY <1>0
  <2> QED BY <1>0, <2>1 DEF Pair
<1>3. \A u : ~Pair(u, 0) \/ 0 \in DOMAIN u
  BY DEF Pair
<1>4. ASSUME NEW i \in 1..m PROVE p[i] = q[i]
  <2>1. i \in 1..m + n /\ i - 1 \in 0..m /\ i \in 0..m /\ (a \o b)[i] = a[i]
    BY <1>0
  <2>2. (Pair(a \o b, i) <=> Pair(a, i)) /\ (Pair(a \o b, i - 1) <=> Pair(a, i - 1))
    BY <1>1, <2>1
  <2>3. Runes(a \o b, i) = Runes(a, i)
    BY <2>1, <2>2 DEF Runes
  <2> QED BY <2>1, <2>3
<1>5. ASSUME NEW i \in 1..n PROVE p[m + i] = r[i]
  <2> DEFINE w == m + i
  <2>1. w \in 1..m + n /\ (a \o b)[w] = b[i] /\ w - 1 = m + i - 1
    BY <1>0
  <2>2. Pair(a \o b, w) <=> Pair(b, i)
    BY <1>2
  <2>3. Pair(a \o b, w - 1) <=> Pair(b, i - 1)
    <3>1. CASE i = 1
      <4>1. w - 1 = m /\ i - 1 = 0 /\ m \in 0..m
        BY <1>0, <3>1
      <4>2. ~Pair(b, 0)
        BY <1>0, <1>3
      <4>3. ~Pair(a, m)
        <5>1. ~(m + 1 \in 1..m)
          BY <1>0
        <5> QED BY <1>0, <5>1 DEF Pair
      <4> QED BY <1>1, <4>1, <4>2, <4>3
    <3>2. CASE i # 1
      <4>1. i - 1 \in 1..n /\ m + (i - 1) = w - 1
        BY <1>0, <3>2
      <4>2. Pair(a \o b, m + (i - 1)) <=> Pair(b, i - 1)
        BY <1>2, <4>1
      <4> QED BY <4>1, <4>2
    <3> QED BY <3>1, <3>2
  <2>4. Runes(a \o b, w) = Runes(b, i)
    <3> HIDE DEF w
    <3> QED BY <2>1, <2>2, <2>3 DEF Runes
  <2>5. p[w] = Runes(a \o b, w)
    BY <2>1
  <2> QED BY <2>4, <2>5
<1>6. \A u \in Text : \A i \in 1..Len(u) : Runes(u, i) \in Text
  <2> SUFFICES ASSUME NEW u \in Text, NEW i \in 1..Len(u) PROVE Runes(u, i) \in Text
    OBVIOUS
  <2>1. u[i] \in Glyphs /\ "invalid" \in Glyphs /\ "e acute" \in Glyphs
    BY TextFacts DEF Glyphs
  <2>a. ~(Pair(u, i) /\ Pair(u, i - 1))
    BY DEF Pair
  <2>2. CASE Pair(u, i)
    <3>1. Runes(u, i) = <<"e acute">>
      BY <2>2, <2>a DEF Runes
    <3> QED BY <2>1, <3>1, Letters
  <2>3. CASE Pair(u, i - 1) /\ ~Pair(u, i)
    <3>1. Runes(u, i) = <<>>
      BY <2>3 DEF Runes
    <3> QED BY <2>1, <3>1, Letters
  <2>4. CASE ~Pair(u, i - 1) /\ ~Pair(u, i) /\ u[i] \in Halves
    <3>1. Runes(u, i) = <<"invalid">>
      BY <2>4 DEF Runes
    <3> QED BY <2>1, <3>1, Letters
  <2>5. CASE ~Pair(u, i - 1) /\ ~Pair(u, i) /\ u[i] \notin Halves
    <3>1. Runes(u, i) = <<u[i]>>
      BY <2>5 DEF Runes
    <3> QED BY <2>1, <3>1, Letters
  <2> QED BY <2>2, <2>3, <2>4, <2>5
<1>7. Splits(Glyphs, m, n, p, q, r)
  <2>1. p \in [1..m + n -> Text] /\ q \in [1..m -> Text] /\ r \in [1..n -> Text]
    BY <1>0, <1>6 DEF m, n
  <2> HIDE DEF p, q, r
  <2> QED BY <1>0, <1>4, <1>5, <2>1 DEF Splits, Text
<1>8. /\ Decode(a) = FlattenSeq(q) /\ Decode(b) = FlattenSeq(r)
      /\ Decode(a \o b) = FlattenSeq(p)
  BY TextFacts DEF Decode, m, n
<1> HIDE DEF p, q, r
<1>9. FlattenSeq(p) = FlattenSeq(q) \o FlattenSeq(r) /\ FlattenSeq(q) \in Seq(Glyphs)
  BY <1>7, PieceByPiece
<1> QED BY <1>8, <1>9 DEF Text

-----------------------------------------------------------------------------
ANSI == {"none", "escape", "csi", "osc", "osc escape"}

(* A state of a control sequence is followed by another. *)
LEMMA ANSINextIs == ASSUME NEW s \in ANSI, NEW x PROVE ANSINext(s, x) \in ANSI
<1>1. CASE s = "none"
  BY <1>1 DEF ANSINext, ANSI
<1>2. CASE s = "escape"
  BY <1>2 DEF ANSINext, ANSI
<1>3. CASE s = "csi"
  BY <1>3 DEF ANSINext, ANSI
<1>4. CASE s = "osc"
  BY <1>4 DEF ANSINext, ANSI
<1>5. CASE s = "osc escape"
  BY <1>5 DEF ANSINext, ANSI
<1> QED BY <1>1, <1>2, <1>3, <1>4, <1>5 DEF ANSI

(* The states a control sequence is in, byte by byte. *)
LEMMA StatesAre ==
  ASSUME NEW s \in ANSI, NEW u \in Text, NEW f, f = ANSIStates(s, u)
  PROVE  /\ f[0] = s
         /\ \A i \in 1..Len(u) : f[i] = ANSINext(f[i - 1], u[i])
         /\ \A i \in 0..Len(u) : f[i] \in ANSI
<1> DEFINE N == Len(u)
           From(g, i) == IF i = 0 THEN s ELSE ANSINext(g[i - 1], u[i])
           Is(g) == g = [i \in 0..N |-> From(g, i)]
<1>1. N \in Nat
  BY TextFacts
<1>2. \E g : Is(g)
  <2> DEFINE step == [i \in 1..N |-> [v \in ANSI |-> ANSINext(v, u[i])]]
  <2>1. step \in [1..N -> [ANSI -> ANSI]]
    BY ANSINextIs
  <2> HIDE DEF step, N
  <2>2. PICK g : Walk(g, N, ANSI, s, step)
    BY <1>1, <2>1, WalkExists
  <2>3. /\ g \in [0..N -> ANSI] /\ g[0] = s
        /\ \A i \in 1..N : g[i] = step[i][g[i - 1]]
    BY <2>2 DEF Walk
  <2>4. ASSUME NEW i \in 0..N PROVE g[i] = From(g, i)
    <3>1. CASE i = 0
      BY <2>3, <3>1
    <3>2. CASE i # 0
      <4>1. i \in 1..N /\ i - 1 \in 0..N
        BY <1>1, <3>2
      <4>2. g[i - 1] \in ANSI
        BY <2>3, <4>1
      <4>3. step[i][g[i - 1]] = ANSINext(g[i - 1], u[i])
        BY <4>1, <4>2 DEF step
      <4> QED BY <2>3, <3>2, <4>1, <4>3
    <3> QED BY <3>1, <3>2
  <2> HIDE DEF From
  <2> QED BY <2>3, <2>4
<1>3. Is(f)
  <2>1. f = CHOOSE g : Is(g)
    BY DEF ANSIStates
  <2> HIDE DEF Is
  <2> QED BY <1>2, <2>1
<1>4. \A i \in 0..N : f[i] = From(f, i)
  <2> HIDE DEF From, N
  <2> QED BY <1>3
<1>5. f[0] = s /\ \A i \in 1..N : f[i] = ANSINext(f[i - 1], u[i])
  <2>1. 0 \in 0..N /\ \A i \in 1..N : i \in 0..N /\ i # 0
    BY <1>1
  <2> HIDE DEF N
  <2> QED BY <1>4, <2>1
<1> DEFINE B == {n \in Nat : n <= N => f[n] \in ANSI}
<1>6. \A n \in Nat : n \in B
  <2>1. 0 \in B
    BY <1>5
  <2>2. ASSUME NEW n \in Nat, n \in B PROVE n + 1 \in B
    <3> SUFFICES ASSUME n + 1 <= N PROVE f[n + 1] \in ANSI
      OBVIOUS
    <3>1. n + 1 \in 1..N /\ n + 1 - 1 = n /\ n <= N
      BY <1>1
    <3>2. f[n] \in ANSI
      BY <2>2, <3>1
    <3> DEFINE k == n + 1
    <3>3. k \in 1..N /\ k - 1 = n
      BY <3>1
    <3> HIDE DEF k, N
    <3> QED BY <1>5, <3>2, <3>3, ANSINextIs DEF k
  <2> HIDE DEF B
  <2> QED BY <2>1, <2>2, Upwards
<1> QED BY <1>1, <1>5, <1>6

(* one is left of a, from the state s, two of b after it, and whole of both; *)
(* c and d are what the first two show.                                     *)
Stripped(s, a, b, one, two, whole, c, d) ==
  /\ s \in ANSI /\ a \in Text /\ b \in Text
  /\ one = StripStreamControls(s, a) /\ two = StripStreamControls(one.state, b)
  /\ whole = StripStreamControls(s, a \o b)
  /\ c = one.clean /\ d = two.clean

(* Control sequences are stripped alike wherever a text is cut, from the    *)
(* state its first part has left.                                           *)
LEMMA StripTwo ==
  ASSUME NEW s, NEW a, NEW b, NEW one, NEW two, NEW whole, NEW c, NEW d,
         Stripped(s, a, b, one, two, whole, c, d)
  PROVE  /\ one.state \in ANSI /\ c \in Text
         /\ whole.state = two.state /\ whole.clean = c \o d
<1> DEFINE m == Len(a)
           n == Len(b)
           f == ANSIStates(s, a)
           t == f[m]
           g == ANSIStates(t, b)
           h == ANSIStates(s, a \o b)
           Passed(st, u, i) == IF ANSIPasses(st[i - 1], u[i]) THEN <<u[i]>> ELSE <<>>
           p == [i \in 1..m + n |-> Passed(h, a \o b, i)]
           q == [i \in 1..m |-> Passed(f, a, i)]
           r == [i \in 1..n |-> Passed(g, b, i)]
<1>t. s \in ANSI /\ a \in Text /\ b \in Text
  BY DEF Stripped
<1>0. /\ m \in Nat /\ n \in Nat /\ a \o b \in Text /\ Len(a \o b) = m + n
      /\ DOMAIN a = 1..m /\ DOMAIN b = 1..n /\ DOMAIN (a \o b) = 1..m + n
      /\ \A i \in 1..m : (a \o b)[i] = a[i] /\ a[i] \in Glyphs
      /\ \A i \in 1..n : (a \o b)[m + i] = b[i] /\ b[i] \in Glyphs
  BY <1>t, TextFacts
<1>1. /\ one.state = t /\ c = FlattenSeq(q)
      /\ two.state = g[n] /\ d = FlattenSeq(r)
      /\ whole.state = h[m + n] /\ whole.clean = FlattenSeq(p)
  BY <1>0 DEF StripStreamControls, Stripped
<1>2. /\ f[0] = s /\ \A i \in 1..m : f[i] = ANSINext(f[i - 1], a[i])
      /\ t \in ANSI
  <2>1. f = ANSIStates(s, a)
    OBVIOUS
  <2> HIDE DEF f
  <2>2. f[0] = s /\ \A i \in 1..Len(a) : f[i] = ANSINext(f[i - 1], a[i])
    BY <1>t, <2>1, StatesAre
  <2>3. \A i \in 0..Len(a) : f[i] \in ANSI
    BY <1>t, <2>1, StatesAre
  <2>4. Len(a) \in 0..Len(a)
    BY <1>0
  <2> QED BY <2>2, <2>3, <2>4
<1>3. g[0] = t /\ \A i \in 1..n : g[i] = ANSINext(g[i - 1], b[i])
  <2> HIDE DEF f, t
  <2> QED BY <1>2, <1>t, StatesAre
<1>4. h[0] = s /\ \A i \in 1..m + n : h[i] = ANSINext(h[i - 1], (a \o b)[i])
  <2> DEFINE ab == a \o b
  <2>1. ab \in Text /\ Len(ab) = m + n
    BY <1>0
  <2>2. h = ANSIStates(s, ab)
    OBVIOUS
  <2> HIDE DEF h, ab, m, n
  <2>3. /\ h[0] = s
        /\ \A i \in 1..Len(ab) : h[i] = ANSINext(h[i - 1], ab[i])
    BY <2>1, <2>2, <1>t, StatesAre
  <2> QED BY <2>1, <2>3 DEF ab
<1> HIDE DEF f, g, h, m, n
<1> DEFINE B == {i \in Nat : i <= m => h[i] = f[i]}
           C == {i \in Nat : i <= n => h[m + i] = g[i]}
<1>5. \A i \in Nat : i \in B
  <2>1. 0 \in B
    BY <1>2, <1>4
  <2>2. ASSUME NEW i \in Nat, i \in B PROVE i + 1 \in B
    <3> SUFFICES ASSUME i + 1 <= m PROVE h[i + 1] = f[i + 1]
      OBVIOUS
    <3> DEFINE k == i + 1
    <3>1. k \in 1..m /\ k \in 1..m + n /\ k - 1 = i /\ i <= m
      BY <1>0
    <3>2. h[i] = f[i]
      BY <2>2, <3>1
    <3> HIDE DEF k
    <3>3. h[k] = f[k]
      BY <1>0, <1>2, <1>4, <3>1, <3>2
    <3> QED BY <3>3 DEF k
  <2> HIDE DEF B
  <2> QED BY <2>1, <2>2, Upwards
<1>6. \A i \in Nat : i \in C
  <2>1. 0 \in C
    <3>1. m <= m /\ m + 0 = m
      BY <1>0
    <3>2. h[m] = f[m]
      BY <1>0, <1>5, <3>1
    <3> QED BY <1>3, <3>1, <3>2
  <2>2. ASSUME NEW i \in Nat, i \in C PROVE i + 1 \in C
    <3> SUFFICES ASSUME i + 1 <= n PROVE h[m + (i + 1)] = g[i + 1]
      OBVIOUS
    <3> DEFINE k == i + 1
               w == m + k
    <3>1. k \in 1..n /\ w \in 1..m + n /\ k - 1 = i /\ i <= n /\ w - 1 = m + i
      BY <1>0
    <3>2. h[w - 1] = g[k - 1]
      BY <2>2, <3>1
    <3>a. (a \o b)[w] = b[k]
      BY <1>0, <3>1
    <3> HIDE DEF k, w
    <3>3. h[w] = g[k]
      BY <1>3, <1>4, <3>1, <3>2, <3>a
    <3> QED BY <3>3 DEF k, w
  <2> HIDE DEF C
  <2> QED BY <2>1, <2>2, Upwards
<1>7. ASSUME NEW i \in 1..m PROVE p[i] = q[i]
  <2>1. i \in 1..m + n /\ i - 1 \in Nat /\ i - 1 <= m
    BY <1>0
  <2>2. h[i - 1] = f[i - 1] /\ (a \o b)[i] = a[i]
    BY <1>0, <1>5, <2>1
  <2> QED BY <2>1, <2>2
<1>8. ASSUME NEW i \in 1..n PROVE p[m + i] = r[i]
  <2> DEFINE w == m + i
  <2>1. w \in 1..m + n /\ i - 1 \in Nat /\ i - 1 <= n /\ w - 1 = m + (i - 1)
    <3>1. m \in Nat /\ n \in Nat /\ i \in 1..n
      BY <1>0
    <3> QED BY ONLY <3>1
  <2>2. h[w - 1] = g[i - 1] /\ (a \o b)[w] = b[i]
    BY <1>0, <1>6, <2>1
  <2>3. Passed(h, a \o b, w) = Passed(g, b, i)
    <3> HIDE DEF w
    <3> QED BY <2>2
  <2>4. p[w] = Passed(h, a \o b, w)
    BY <2>1
  <2> HIDE DEF w, Passed
  <2> QED BY <2>3, <2>4 DEF w
<1>9. Splits(Glyphs, m, n, p, q, r)
  <2>1. \A st, u, i : u[i] \in Glyphs => Passed(st, u, i) \in Text
    BY Letters
  <2>2. \A i \in 1..m + n : (a \o b)[i] \in Glyphs
    BY <1>0, <1>t, TextFacts
  <2>3. p \in [1..m + n -> Text] /\ q \in [1..m -> Text] /\ r \in [1..n -> Text]
    <3> HIDE DEF Passed
    <3> QED BY <1>0, <2>1, <2>2
  <2> HIDE DEF p, q, r
  <2> QED BY <1>0, <1>7, <1>8, <2>3 DEF Splits, Text
<1>10. FlattenSeq(p) = FlattenSeq(q) \o FlattenSeq(r) /\ FlattenSeq(q) \in Text
  <2> HIDE DEF p, q, r
  <2> QED BY <1>9, PieceByPiece DEF Text
<1>11. h[m + n] = g[n]
  BY <1>0, <1>6
<1> HIDE DEF p, q, r, t
<1> QED BY <1>1, <1>2, <1>10, <1>11

-----------------------------------------------------------------------------
(* A stretch of a sequence. *)
LEMMA Stretch ==
  ASSUME NEW S, NEW u \in Seq(S), NEW m \in Nat, NEW n \in Nat, 1 <= m, m <= n + 1, n <= Len(u)
  PROVE  /\ SubSeq(u, m, n) \in Seq(S) /\ Len(SubSeq(u, m, n)) = n - m + 1
         /\ \A i \in 1..n - m + 1 : SubSeq(u, m, n)[i] = u[m + i - 1]
OBVIOUS

(* A prefix agrees as far as it goes. *)
LEMMA PrefixIs ==
  ASSUME NEW S, NEW T, NEW s \in Seq(S), NEW t \in Seq(T)
  PROVE  IsPrefix(s, t) <=> Len(s) <= Len(t) /\ \A i \in 1..Len(s) : s[i] = t[i]
<1>0. Len(s) \in Nat /\ Len(t) \in Nat
  OBVIOUS
<1>1. CASE Len(s) <= Len(t)
  <2>1. /\ SubSeq(s, 1, Len(s)) \in Seq(S) /\ Len(SubSeq(s, 1, Len(s))) = Len(s)
        /\ \A i \in 1..Len(s) : SubSeq(s, 1, Len(s))[i] = s[i]
    BY <1>0
  <2>2. /\ SubSeq(t, 1, Len(s)) \in Seq(T) /\ Len(SubSeq(t, 1, Len(s))) = Len(s)
        /\ \A i \in 1..Len(s) : SubSeq(t, 1, Len(s))[i] = t[i]
    BY <1>0, <1>1
  <2> DEFINE a == SubSeq(s, 1, Len(s))
             b == SubSeq(t, 1, Len(s))
  <2>3. a = b <=> \A i \in 1..Len(s) : s[i] = t[i]
    <3>1. a \in Seq(S \cup T) /\ b \in Seq(S \cup T)
      BY <2>1, <2>2
    <3> HIDE DEF a, b
    <3>2. Len(a) = Len(s) /\ Len(b) = Len(s) /\ \A i \in 1..Len(s) : a[i] = s[i] /\ b[i] = t[i]
      BY <2>1, <2>2 DEF a, b
    <3> QED BY <3>1, <3>2, SameSequence
  <2> QED BY <1>1, <2>3 DEF IsPrefix
<1>2. CASE ~(Len(s) <= Len(t))
  BY <1>2 DEF IsPrefix
<1> QED BY <1>1, <1>2

(* a is what u begins with, m characters, and b the rest. *)
CutAt(u, m, a, b) ==
  /\ u \in Text /\ m \in 0..Len(u)
  /\ a = SubSeq(u, 1, m) /\ b = SubSeq(u, m + 1, Len(u))

(* A text cut in two. *)
LEMMA CutTwo ==
  ASSUME NEW u, NEW m, NEW a, NEW b, CutAt(u, m, a, b)
  PROVE  /\ a \in Text /\ Len(a) = m /\ b \in Text /\ Len(b) = Len(u) - m
         /\ a \o b = u
         /\ \A i \in 1..m : a[i] = u[i]
         /\ \A i \in 1..Len(u) - m : b[i] = u[m + i]
<1>1. u \in Seq(Glyphs) /\ Len(u) \in Nat /\ m \in Nat /\ m <= Len(u)
  BY DEF Text, CutAt
<1>a. a = SubSeq(u, 1, m) /\ b = SubSeq(u, m + 1, Len(u))
  BY DEF CutAt
<1>2. a \in Seq(Glyphs) /\ Len(a) = m /\ \A i \in 1..m : a[i] = u[i]
  BY <1>1, <1>a
<1>3. /\ b \in Seq(Glyphs) /\ Len(b) = Len(u) - m
      /\ \A i \in 1..Len(u) - m : b[i] = u[m + i]
  BY <1>1, <1>a
<1>4. u = a \o b
  <2>0. m + (Len(u) - m) = Len(u)
    BY <1>1
  <2>1. Len(u) = Len(a) + Len(b)
    BY <1>2, <1>3, <2>0, Zenon
  <2>2. \A i \in 1..Len(a) : u[i] = a[i]
    BY <1>2
  <2>3. ASSUME NEW i \in 1..Len(b) PROVE u[Len(a) + i] = b[i]
    <3>1. i \in 1..Len(u) - m
      BY <1>3
    <3>2. b[i] = u[m + i]
      BY <1>3, <3>1
    <3> QED BY <1>2, <3>2
  <2> QED BY <1>1, <1>2, <1>3, <2>1, <2>2, <2>3, SameAsJoined
<1> QED BY <1>2, <1>3, <1>4 DEF Text

(* Where a configured value stands in a text. *)
Stands(s, u, i) ==
  i + Len(s) - 1 <= Len(u) /\ \A k \in 1..Len(s) : u[i + k - 1] = s[k]

(* A configured value. *)
LEMMA SecretIs ==
  ASSUME SecretsOK, NEW s \in Secrets PROVE s \in Seq(STRING) /\ Len(s) \in Nat \ {0}
BY DEF SecretsOK

(* The values found at a place are those that stand there. *)
LEMMA ValuesStand ==
  ASSUME SecretsOK, NEW u \in Text, NEW i \in 1..Len(u), NEW s
  PROVE  s \in Values(u, i) <=> s \in Secrets /\ Stands(s, u, i)
<1> SUFFICES ASSUME s \in Secrets PROVE IsPrefix(s, SubSeq(u, i, Len(u))) <=> Stands(s, u, i)
  BY DEF Values
<1> DEFINE t == SubSeq(u, i, Len(u))
<1>1. u \in Seq(Glyphs) /\ Len(u) \in Nat /\ i \in Nat
  BY DEF Text
<1>2. /\ t \in Seq(Glyphs) /\ Len(t) = Len(u) - i + 1
      /\ \A k \in 1..Len(u) - i + 1 : t[k] = u[i + k - 1]
  BY <1>1
<1>3. s \in Seq(STRING) /\ Len(s) \in Nat
  BY SecretIs
<1> HIDE DEF t
<1>4. IsPrefix(s, t) <=> Len(s) <= Len(t) /\ \A k \in 1..Len(s) : s[k] = t[k]
  BY ONLY <1>2, <1>3, PrefixIs
<1>5. Len(s) <= Len(t) <=> i + Len(s) - 1 <= Len(u)
  BY <1>1, <1>2, <1>3
<1>6. Len(s) <= Len(t) => \A k \in 1..Len(s) : t[k] = u[i + k - 1]
  BY <1>1, <1>2, <1>3
<1>7. IsPrefix(s, t) <=> Stands(s, u, i)
  BY <1>4, <1>5, <1>6 DEF Stands
<1> QED BY <1>7 DEF t

(* There is a longest value at a place where there is any. *)
LEMMA LongestIs ==
  ASSUME SecretsOK, NEW u \in Text, NEW i \in 1..Len(u), Values(u, i) # {}
  PROVE  Longest(u, i) \in Values(u, i)
<1> DEFINE V == Values(u, i)
           L == {Len(s) : s \in V}
<1>1. \A s \in V : Len(s) \in Nat /\ Len(s) <= Len(u)
  <2> SUFFICES ASSUME NEW s \in V PROVE Len(s) \in Nat /\ Len(s) <= Len(u)
    OBVIOUS
  <2>1. s \in Secrets /\ Stands(s, u, i)
    BY ValuesStand
  <2> QED BY <2>1, SecretIs, TextFacts DEF Stands
<1>2. \E m \in L : \A k \in L : k <= m
  <2>1. L \subseteq Nat /\ L # {} /\ Len(u) \in Nat /\ \A k \in L : k <= Len(u)
    BY <1>1, TextFacts
  <2> HIDE DEF L
  <2> QED BY <2>1, GreatestNatural
<1>3. \E s \in V : \A t \in V : Len(t) <= Len(s)
  BY <1>2
<1> QED BY <1>3 DEF Longest

-----------------------------------------------------------------------------
(* Where the value ends that Redact found last. *)
LEMMA UntilAre ==
  ASSUME SecretsOK, NEW u \in Text, NEW f, f = Until(u)
  PROVE  /\ f[0] = 0
         /\ \A i \in 1..Len(u) :
              /\ f[i - 1] \in 0..Len(u) /\ f[i] \in 0..Len(u)
              /\ i <= f[i - 1] \/ Values(u, i) = {} => f[i] = f[i - 1]
              /\ ~(i <= f[i - 1]) /\ Values(u, i) # {} =>
                   f[i] = i + Len(Longest(u, i)) - 1
<1> DEFINE N == Len(u)
           V == 0..N
           Then(v, i) == IF i <= v \/ Values(u, i) = {} THEN v
                         ELSE i + Len(Longest(u, i)) - 1
           From(g, i) == IF i = 0 THEN 0
                         ELSE IF i <= g[i - 1] \/ Values(u, i) = {} THEN g[i - 1]
                         ELSE i + Len(Longest(u, i)) - 1
           Is(g) == g = [i \in 0..N |-> From(g, i)]
           step == [i \in 1..N |-> [v \in V |-> Then(v, i)]]
<1>1. N \in Nat
  BY TextFacts
<1>2. \A i \in 1..N : \A v \in V : Then(v, i) \in V
  <2> SUFFICES ASSUME NEW i \in 1..N, NEW v \in V, Values(u, i) # {}
               PROVE  i + Len(Longest(u, i)) - 1 \in V
    OBVIOUS
  <2> DEFINE s == Longest(u, i)
  <2>1. s \in Secrets /\ Stands(s, u, i)
    BY LongestIs, ValuesStand
  <2>2. Len(s) \in Nat \ {0}
    BY <2>1, SecretIs
  <2> HIDE DEF s
  <2>3. i + Len(s) - 1 \in V
    BY <1>1, <2>1, <2>2 DEF Stands
  <2> QED BY <2>3 DEF s
<1>3. \E g : Is(g)
  <2>1. step \in [1..N -> [V -> V]]
    <3> HIDE DEF Then, V
    <3> QED BY <1>2
  <2>2. 0 \in V
    BY <1>1
  <2> HIDE DEF step, N, V
  <2>3. PICK g : Walk(g, N, V, 0, step)
    BY <1>1, <2>1, <2>2, WalkExists
  <2>4. /\ g \in [0..N -> V] /\ g[0] = 0
        /\ \A i \in 1..N : g[i] = step[i][g[i - 1]]
    BY <2>3 DEF Walk
  <2>5. ASSUME NEW i \in 0..N PROVE g[i] = From(g, i)
    <3>1. CASE i = 0
      BY <2>4, <3>1
    <3>2. CASE i # 0
      <4>1. i \in 1..N /\ i - 1 \in 0..N /\ i > 0
        BY <1>1, <3>2
      <4>2. g[i - 1] \in V
        BY <2>4, <4>1
      <4>3. step[i][g[i - 1]] = Then(g[i - 1], i)
        <5> HIDE DEF Then
        <5> QED BY <4>1, <4>2 DEF step
      <4>4. g[i] = Then(g[i - 1], i)
        <5> HIDE DEF Then
        <5> QED BY <2>4, <4>1, <4>3
      <4>5. From(g, i) = Then(g[i - 1], i)
        <5>1. CASE i <= g[i - 1] \/ Values(u, i) = {}
          BY <3>2, <4>1, <5>1
        <5>2. CASE ~(i <= g[i - 1] \/ Values(u, i) = {})
          BY <3>2, <4>1, <5>2
        <5> QED BY <5>1, <5>2
      <4> HIDE DEF Then, From
      <4> QED BY <4>4, <4>5
    <3> QED BY <3>1, <3>2
  <2> HIDE DEF From
  <2> QED BY <2>4, <2>5
<1>4. Is(f)
  <2>1. f = CHOOSE g : Is(g)
    BY DEF Until
  <2> HIDE DEF Is
  <2> QED BY <1>3, <2>1
<1>5. \A i \in 0..N : f[i] = From(f, i)
  <2> HIDE DEF From, N
  <2> QED BY <1>4
<1>6. f[0] = 0
  <2>1. 0 \in 0..N
    BY <1>1
  <2> HIDE DEF N
  <2> QED BY <1>5, <2>1
<1>7. ASSUME NEW i \in 1..N PROVE f[i] = Then(f[i - 1], i)
  <2>1. i \in 0..N /\ i # 0 /\ i > 0
    BY <1>1
  <2>2. f[i] = From(f, i)
    <3> HIDE DEF From, N
    <3> QED BY <1>5, <2>1
  <2>3. CASE i <= f[i - 1] \/ Values(u, i) = {}
    BY <2>1, <2>2, <2>3
  <2>4. CASE ~(i <= f[i - 1] \/ Values(u, i) = {})
    BY <2>1, <2>2, <2>4
  <2> QED BY <2>3, <2>4
<1> DEFINE B == {n \in Nat : n <= N => f[n] \in V}
<1>8. \A n \in Nat : n \in B
  <2>1. 0 \in B
    BY <1>1, <1>6
  <2>2. ASSUME NEW n \in Nat, n \in B PROVE n + 1 \in B
    <3> SUFFICES ASSUME n + 1 <= N PROVE f[n + 1] \in V
      OBVIOUS
    <3> DEFINE k == n + 1
    <3>1. k \in 1..N /\ k - 1 = n /\ n <= N
      BY <1>1
    <3>2. f[n] \in V
      BY <2>2, <3>1
    <3> HIDE DEF k, N, V, Then
    <3>3. f[k] \in V
      BY <1>2, <1>7, <3>1, <3>2
    <3> QED BY <3>3 DEF k
  <2> HIDE DEF B
  <2> QED BY <2>1, <2>2, Upwards
<1>9. ASSUME NEW i \in 1..N
      PROVE  /\ f[i - 1] \in 0..Len(u) /\ f[i] \in 0..Len(u)
             /\ i <= f[i - 1] \/ Values(u, i) = {} => f[i] = f[i - 1]
             /\ ~(i <= f[i - 1]) /\ Values(u, i) # {} =>
                  f[i] = i + Len(Longest(u, i)) - 1
  <2>1. i \in Nat /\ i <= N /\ i - 1 \in Nat /\ i - 1 <= N
    BY <1>1
  <2>2. f[i] \in V /\ f[i - 1] \in V
    <3> HIDE DEF V, N
    <3> QED BY <1>8, <2>1
  <2>3. f[i] = Then(f[i - 1], i)
    BY <1>7
  <2> QED BY <2>2, <2>3
<1> QED BY <1>6, <1>9

-----------------------------------------------------------------------------
(* No configured value stands across the place where b begins. *)
Uncut(a, b) ==
  \A s \in Secrets : \A i \in 1..Len(a) :
    Stands(s, a \o b, i) => i + Len(s) - 1 <= Len(a)

(* Values stand in a part where they stand in the whole. *)
LEMMA ValuesTwo ==
  ASSUME SecretsOK, NEW a \in Text, NEW b \in Text, Uncut(a, b)
  PROVE  /\ \A i \in 1..Len(a) : Values(a \o b, i) = Values(a, i)
         /\ \A i \in 1..Len(b) : \A w : w = Len(a) + i => Values(a \o b, w) = Values(b, i)
<1> DEFINE m == Len(a)
           n == Len(b)
           ab == a \o b
<1>0. /\ m \in Nat /\ n \in Nat /\ ab \in Text /\ Len(ab) = m + n
      /\ \A i \in 1..m : ab[i] = a[i]
      /\ \A i \in 1..n : ab[m + i] = b[i]
  BY TextFacts
<1>u. \A s \in Secrets : \A i \in 1..m : Stands(s, ab, i) => i + Len(s) - 1 <= m
  BY DEF Uncut
<1> HIDE DEF m, n, ab
<1>1. ASSUME NEW i \in 1..m, NEW s \in Secrets PROVE Stands(s, ab, i) <=> Stands(s, a, i)
  <2>0. Len(s) \in Nat
    BY SecretIs
  <2>1. ASSUME i + Len(s) - 1 <= m PROVE \A k \in 1..Len(s) : ab[i + k - 1] = a[i + k - 1]
    <3> SUFFICES ASSUME NEW k \in 1..Len(s) PROVE ab[i + k - 1] = a[i + k - 1]
      OBVIOUS
    <3>1. i + k - 1 \in 1..m
      BY <1>0, <2>0, <2>1
    <3> QED BY <1>0, <3>1
  <2>2. i + Len(s) - 1 <= m => i + Len(s) - 1 <= m + n
    BY <1>0, <2>0
  <2> QED BY <1>0, <1>u, <2>1, <2>2 DEF Stands, m
<1>2. ASSUME NEW i \in 1..n, NEW w, w = m + i, NEW s \in Secrets
      PROVE  Stands(s, ab, w) <=> Stands(s, b, i)
  <2>0. Len(s) \in Nat
    BY SecretIs
  <2>1. ASSUME i + Len(s) - 1 <= n PROVE \A k \in 1..Len(s) : ab[w + k - 1] = b[i + k - 1]
    <3> SUFFICES ASSUME NEW k \in 1..Len(s) PROVE ab[w + k - 1] = b[i + k - 1]
      OBVIOUS
    <3>1. i + k - 1 \in 1..n /\ w + k - 1 = m + (i + k - 1)
      BY <1>0, <1>2, <2>0, <2>1
    <3>2. ab[m + (i + k - 1)] = b[i + k - 1]
      BY <1>0, <3>1
    <3> QED BY <3>1, <3>2
  <2>2. i + Len(s) - 1 <= n <=> w + Len(s) - 1 <= m + n
    BY <1>0, <1>2, <2>0
  <2> QED BY <1>0, <2>1, <2>2 DEF Stands, n
<1>3. ASSUME NEW i \in 1..m PROVE Values(ab, i) = Values(a, i)
  <2>1. i \in 1..Len(ab) /\ i \in 1..Len(a)
    BY <1>0 DEF m
  <2>2. \A s : s \in Values(ab, i) <=> s \in Values(a, i)
    BY <1>0, <1>1, <2>1, ValuesStand
  <2>3. Values(ab, i) \subseteq Secrets /\ Values(a, i) \subseteq Secrets
    BY DEF Values
  <2> QED BY <2>2, <2>3
<1>4. ASSUME NEW i \in 1..n, NEW w, w = m + i PROVE Values(ab, w) = Values(b, i)
  <2>1. w \in 1..Len(ab) /\ i \in 1..Len(b)
    BY <1>0, <1>4 DEF n
  <2>2. \A s : s \in Values(ab, w) <=> s \in Values(b, i)
    BY <1>0, <1>2, <1>4, <2>1, ValuesStand
  <2>3. Values(ab, w) \subseteq Secrets /\ Values(b, i) \subseteq Secrets
    BY DEF Values
  <2> QED BY <2>2, <2>3
<1> QED BY <1>3, <1>4 DEF m, n, ab

(* A redacted place is a text. *)
LEMMA RedactedIs ==
  ASSUME NEW u \in Text, NEW i \in 1..Len(u) PROVE Redacted(u, i) \in Text
<1>1. u[i] \in Glyphs
  BY TextFacts
<1>2. CASE i <= Until(u)[i - 1]
  BY <1>1, <1>2, Letters DEF Redacted
<1>3. CASE i > Until(u)[i - 1] /\ Values(u, i) = {} /\ ~(i <= Until(u)[i - 1])
  BY <1>1, <1>3, Letters DEF Redacted
<1>4. CASE ~(i > Until(u)[i - 1] /\ Values(u, i) = {}) /\ ~(i <= Until(u)[i - 1])
  BY <1>1, <1>4, Letters DEF Redacted
<1> QED BY <1>2, <1>3, <1>4

(* Where no value is cut, a text can be redacted in two parts. *)
LEMMA RedactTwo ==
  ASSUME SecretsOK, NEW a \in Text, NEW b \in Text, Uncut(a, b)
  PROVE  /\ Redact(a) \in Text
         /\ Redact(a \o b) = Redact(a) \o Redact(b)
<1> DEFINE m == Len(a)
           n == Len(b)
           ab == a \o b
           f == Until(a)
           g == Until(b)
           h == Until(ab)
           p == [i \in 1..m + n |-> Redacted(ab, i)]
           q == [i \in 1..m |-> Redacted(a, i)]
           r == [i \in 1..n |-> Redacted(b, i)]
<1>0. /\ m \in Nat /\ n \in Nat /\ ab \in Text /\ Len(ab) = m + n
      /\ DOMAIN a = 1..m /\ DOMAIN b = 1..n /\ DOMAIN ab = 1..m + n
      /\ \A i \in 1..m : ab[i] = a[i]
      /\ \A i \in 1..n : ab[m + i] = b[i]
  BY TextFacts
<1>v. /\ \A i \in 1..m : Values(ab, i) = Values(a, i)
      /\ \A i \in 1..n : \A w : w = m + i => Values(ab, w) = Values(b, i)
  BY ValuesTwo
<1> HIDE DEF m, n, ab
<1>w. /\ \A i \in 1..m : Longest(ab, i) = Longest(a, i)
      /\ \A i \in 1..n : \A w : w = m + i => Longest(ab, w) = Longest(b, i)
  BY <1>v DEF Longest
<1>1. /\ f[0] = 0
      /\ \A i \in 1..m :
           /\ f[i - 1] \in 0..m /\ f[i] \in 0..m
           /\ i <= f[i - 1] \/ Values(a, i) = {} => f[i] = f[i - 1]
           /\ ~(i <= f[i - 1]) /\ Values(a, i) # {} => f[i] = i + Len(Longest(a, i)) - 1
  <2> HIDE DEF f
  <2> QED BY UntilAre DEF m, f
<1>2. /\ g[0] = 0
      /\ \A i \in 1..n :
           /\ g[i - 1] \in 0..n /\ g[i] \in 0..n
           /\ i <= g[i - 1] \/ Values(b, i) = {} => g[i] = g[i - 1]
           /\ ~(i <= g[i - 1]) /\ Values(b, i) # {} => g[i] = i + Len(Longest(b, i)) - 1
  <2> HIDE DEF g
  <2> QED BY UntilAre DEF n, g
<1>3. /\ h[0] = 0
      /\ \A i \in 1..m + n :
           /\ h[i - 1] \in 0..m + n /\ h[i] \in 0..m + n
           /\ i <= h[i - 1] \/ Values(ab, i) = {} => h[i] = h[i - 1]
           /\ ~(i <= h[i - 1]) /\ Values(ab, i) # {} => h[i] = i + Len(Longest(ab, i)) - 1
  <2> HIDE DEF h
  <2>1. ab \in Text /\ Len(ab) = m + n
    BY <1>0
  <2> QED BY <2>1, UntilAre DEF h
<1> HIDE DEF f, g, h
<1> DEFINE B == {i \in Nat : i <= m => h[i] = f[i]}
           Same(i, w) == h[w] = m + g[i] \/ (g[i] = 0 /\ h[w] \in 0..m)
           C == {i \in Nat : i <= n => Same(i, m + i)}
<1>4. \A i \in Nat : i \in B
  <2>1. 0 \in B
    BY <1>1, <1>3
  <2>2. ASSUME NEW i \in Nat, i \in B PROVE i + 1 \in B
    <3> SUFFICES ASSUME i + 1 <= m PROVE h[i + 1] = f[i + 1]
      OBVIOUS
    <3> DEFINE k == i + 1
    <3>1. k \in 1..m /\ k \in 1..m + n /\ k - 1 = i /\ i <= m
      BY <1>0
    <3>2. h[i] = f[i]
      BY <2>2, <3>1
    <3> HIDE DEF k
    <3>3. Values(ab, k) = Values(a, k) /\ Longest(ab, k) = Longest(a, k)
      BY <1>v, <1>w, <3>1
    <3>4. h[k] = f[k]
      <4>1. CASE k <= f[i] \/ Values(a, k) = {}
        <5>1. f[k] = f[i]
          BY <1>1, <3>1, <4>1
        <5>2. h[k] = h[i]
          BY <1>3, <3>1, <3>2, <3>3, <4>1
        <5> QED BY <3>2, <5>1, <5>2
      <4>2. CASE ~(k <= f[i]) /\ Values(a, k) # {}
        <5>1. f[k] = k + Len(Longest(a, k)) - 1
          BY <1>1, <3>1, <4>2
        <5>2. h[k] = k + Len(Longest(ab, k)) - 1
          BY <1>3, <3>1, <3>2, <3>3, <4>2
        <5> QED BY <3>3, <5>1, <5>2
      <4> QED BY <4>1, <4>2
    <3> QED BY <3>4 DEF k
  <2> HIDE DEF B
  <2> QED BY <2>1, <2>2, Upwards
<1>f. f[m] \in 0..m
  <2>1. CASE m = 0
    BY <1>1, <2>1
  <2>2. CASE m # 0
    <3>1. m \in 1..m
      BY <1>0, <2>2
    <3> QED BY <1>1, <3>1
  <2> QED BY <2>1, <2>2
<1>g. \A i \in 1..n : \A w : w = m + i => (Same(i - 1, w - 1) => (i <= g[i - 1] <=> w <= h[w - 1]))
  <2> SUFFICES ASSUME NEW i \in 1..n, NEW w, w = m + i, Same(i - 1, w - 1)
               PROVE  i <= g[i - 1] <=> w <= h[w - 1]
    BY Zenon
  <2>0. g[i - 1] \in 0..n /\ w \in Nat /\ w > m /\ i \in Nat
    BY <1>0, <1>2
  <2>1. CASE h[w - 1] = m + g[i - 1]
    BY <1>0, <2>0, <2>1
  <2>2. CASE g[i - 1] = 0 /\ h[w - 1] \in 0..m
    BY <1>0, <2>0, <2>2
  <2> QED BY <2>1, <2>2
<1>5. \A i \in Nat : i \in C
  <2>1. 0 \in C
    <3>1. m <= m /\ m + 0 = m
      BY <1>0
    <3>2. h[m] = f[m]
      BY <1>0, <1>4, <3>1
    <3> QED BY <1>2, <1>f, <3>1, <3>2
  <2>2. ASSUME NEW i \in Nat, i \in C PROVE i + 1 \in C
    <3> SUFFICES ASSUME i + 1 <= n PROVE Same(i + 1, m + (i + 1))
      OBVIOUS
    <3> DEFINE k == i + 1
               w == m + k
    <3>1. k \in 1..n /\ w \in 1..m + n /\ k - 1 = i /\ i <= n /\ w - 1 = m + i /\ k \in Nat
      BY <1>0
    <3>2. Same(i, w - 1)
      BY <2>2, <3>1
    <3>a. w = m + k
      OBVIOUS
    <3> HIDE DEF k, w, Same
    <3>3. Values(ab, w) = Values(b, k) /\ Longest(ab, w) = Longest(b, k)
      BY <1>v, <1>w, <3>1, <3>a
    <3>4. k <= g[i] <=> w <= h[w - 1]
      BY <1>g, <3>1, <3>2, <3>a
    <3>5. Same(k, w)
      <4>1. CASE k <= g[i] \/ Values(b, k) = {}
        <5>1. g[k] = g[i]
          BY <1>2, <3>1, <4>1
        <5>2. h[w] = h[w - 1]
          BY <1>3, <3>1, <3>3, <3>4, <4>1
        <5> QED BY <3>2, <5>1, <5>2 DEF Same
      <4>2. CASE ~(k <= g[i]) /\ Values(b, k) # {}
        <5>1. g[k] = k + Len(Longest(b, k)) - 1
          BY <1>2, <3>1, <4>2
        <5>2. h[w] = w + Len(Longest(ab, w)) - 1
          BY <1>3, <3>1, <3>3, <3>4, <4>2
        <5>3. Len(Longest(b, k)) \in Nat
          <6>1. k \in 1..Len(b)
            BY <3>1 DEF n
          <6>2. Longest(b, k) \in Secrets
            BY <4>2, <6>1, LongestIs DEF Values
          <6> QED BY <6>2, SecretIs
        <5>4. h[w] = m + g[k]
          BY <1>0, <3>1, <3>a, <3>3, <5>1, <5>2, <5>3
        <5> QED BY <5>4 DEF Same
      <4> QED BY <4>1, <4>2
    <3> QED BY <3>5 DEF k, w
  <2> HIDE DEF C
  <2> QED BY <2>1, <2>2, Upwards
<1>6. ASSUME NEW i \in 1..m PROVE p[i] = q[i]
  <2>1. i \in 1..m + n /\ i - 1 \in Nat /\ i - 1 <= m
    BY <1>0
  <2>2. h[i - 1] = f[i - 1] /\ ab[i] = a[i] /\ Values(ab, i) = Values(a, i)
    BY <1>0, <1>4, <1>v, <2>1
  <2>3. Redacted(ab, i) = Redacted(a, i)
    BY <2>2 DEF Redacted, f, h
  <2> QED BY <2>1, <2>3
<1>7. ASSUME NEW i \in 1..n PROVE p[m + i] = r[i]
  <2> DEFINE w == m + i
  <2>1. w \in 1..m + n /\ i - 1 \in Nat /\ i - 1 <= n /\ w - 1 = m + (i - 1) /\ w = m + i
    BY <1>0
  <2>2. Same(i - 1, m + (i - 1))
    BY <1>5, <2>1
  <2>3. p[w] = Redacted(ab, w)
    BY <2>1
  <2>4. ab[w] = b[i] /\ Values(ab, w) = Values(b, i)
    BY <1>0, <1>v
  <2> HIDE DEF w, Same
  <2>5. i <= g[i - 1] <=> w <= h[w - 1]
    BY <1>g, <2>1, <2>2
  <2>6. i > g[i - 1] <=> w > h[w - 1]
    <3>1. g[i - 1] \in 0..n /\ h[w - 1] \in 0..m + n /\ w \in Nat
      BY <1>2, <1>3, <2>1
    <3> QED BY <1>0, <2>5, <3>1
  <2>7. Redacted(ab, w) = Redacted(b, i)
    BY <2>4, <2>5, <2>6 DEF Redacted, g, h
  <2> QED BY <2>3, <2>7 DEF w
<1>8. Splits(Glyphs, m, n, p, q, r)
  <2>1. p \in [1..m + n -> Text] /\ q \in [1..m -> Text] /\ r \in [1..n -> Text]
    BY <1>0, RedactedIs DEF m, n
  <2> HIDE DEF p, q, r
  <2> QED BY <1>0, <1>6, <1>7, <2>1 DEF Splits, Text
<1>9. /\ Redact(a) = FlattenSeq(q) /\ Redact(b) = FlattenSeq(r)
      /\ Redact(ab) = FlattenSeq(p)
  BY <1>0 DEF Redact
<1> HIDE DEF p, q, r
<1>10. FlattenSeq(p) = FlattenSeq(q) \o FlattenSeq(r) /\ FlattenSeq(q) \in Text
  BY <1>8, PieceByPiece DEF Text
<1> QED BY <1>9, <1>10 DEF ab

-----------------------------------------------------------------------------
(* The last n characters of u begin s, which goes on. *)
Begins(u, n, s) ==
  n < Len(s) /\ \A k \in 1..n : u[Len(u) - n + k] = s[k]

(* The most is held back that can still become a value. *)
LEMMA WithheldIs ==
  ASSUME SecretsOK, NEW u \in Text, NEW h, h = Withheld(u)
  PROVE  /\ h \in 0..Len(u)
         /\ h # 0 => \E s \in Secrets : Begins(u, h, s)
         /\ \A n \in h + 1..Len(u) : \A s \in Secrets : ~Begins(u, n, s)
<1> DEFINE N == Len(u)
           Completes(n) == \E s \in Secrets :
             n < Len(s) /\ IsPrefix(SubSeq(u, N - n + 1, N), s)
           B == {n \in 0..N : n = 0 \/ Completes(n)}
<1>0. N \in Nat /\ u \in Seq(Glyphs)
  BY TextFacts DEF Text
<1>1. PICK m \in B : \A n \in B : n <= m
  <2>1. B \subseteq Nat /\ B # {} /\ \A n \in B : n <= N
    <3>1. 0 \in B
      BY <1>0
    <3> QED BY <1>0, <3>1
  <2> HIDE DEF B, N
  <2> QED BY <1>0, <2>1, GreatestNatural
<1>2. /\ m \in 0..N /\ (m = 0 \/ Completes(m))
      /\ \A k \in m + 1..N : ~Completes(k)
  <2>1. m \in 0..N /\ (m = 0 \/ Completes(m))
    <3> HIDE DEF Completes
    <3> QED OBVIOUS
  <2>2. ASSUME NEW k \in m + 1..N, Completes(k) PROVE FALSE
    <3> HIDE DEF Completes
    <3>1. k \in 0..N /\ ~(k <= m)
      BY <1>0, <2>1
    <3> QED BY <1>1, <2>2, <3>1
  <2> QED BY <2>1, <2>2
<1> DEFINE Is(n) == (n = 0 \/ Completes(n)) /\ \A k \in n + 1..N : ~Completes(k)
<1>3. h \in 0..N /\ Is(h)
  <2>1. h = CHOOSE n \in 0..N : Is(n)
    BY DEF Withheld
  <2>2. \E n \in 0..N : Is(n)
    BY <1>2
  <2> HIDE DEF Is, N
  <2> QED BY <2>1, <2>2
<1>4. ASSUME NEW n \in 0..N, NEW s \in Secrets
      PROVE  n < Len(s) /\ IsPrefix(SubSeq(u, N - n + 1, N), s) <=> Begins(u, n, s)
  <2> DEFINE t == SubSeq(u, N - n + 1, N)
  <2>1. s \in Seq(STRING) /\ Len(s) \in Nat
    BY SecretIs
  <2>2. /\ N - n + 1 \in Nat /\ 1 <= N - n + 1 /\ N - n + 1 <= N + 1 /\ N <= Len(u)
        /\ N - (N - n + 1) + 1 = n /\ \A k \in 1..n : N - n + 1 + k - 1 = N - n + k
    BY <1>0
  <2>3. /\ t \in Seq(Glyphs) /\ Len(t) = N - (N - n + 1) + 1
        /\ \A k \in 1..N - (N - n + 1) + 1 : t[k] = u[N - n + 1 + k - 1]
    <3> DEFINE j == N - n + 1
    <3>1. j \in Nat /\ 1 <= j /\ j <= N + 1 /\ N <= Len(u)
      BY <2>2
    <3> HIDE DEF j, N
    <3>2. /\ SubSeq(u, j, N) \in Seq(Glyphs) /\ Len(SubSeq(u, j, N)) = N - j + 1
          /\ \A k \in 1..N - j + 1 : SubSeq(u, j, N)[k] = u[j + k - 1]
      BY <1>0, <3>1, Stretch
    <3> QED BY <3>2 DEF j
  <2>4. Len(t) = n /\ \A k \in 1..n : t[k] = u[N - n + k]
    <3> HIDE DEF t
    <3> QED BY <2>2, <2>3
  <2> HIDE DEF t
  <2>5. IsPrefix(t, s) <=> Len(t) <= Len(s) /\ \A k \in 1..Len(t) : t[k] = s[k]
    <3>1. t \in Seq(Glyphs) /\ s \in Seq(STRING)
      BY <2>1, <2>3
    <3> HIDE DEF N, Completes, B, Is
    <3> QED BY <3>1, PrefixIs
  <2>6. n < Len(s) => n <= Len(s)
    BY <2>1
  <2>7. n < Len(s) /\ IsPrefix(t, s) <=> Begins(u, n, s)
    BY <2>4, <2>5, <2>6 DEF Begins
  <2> QED BY <2>7 DEF t
<1>5. \A n \in h + 1..N : n \in 0..N
  BY <1>0, <1>3
<1>6. h # 0 => \E s \in Secrets : Begins(u, h, s)
  BY <1>3, <1>4
<1>7. \A n \in h + 1..N : \A s \in Secrets : ~Begins(u, n, s)
  BY <1>3, <1>4, <1>5
<1> QED BY <1>3, <1>6, <1>7

(* Every line of u up to c that a known name is in has ended. *)
LinesEnded(u, c) == \A j \in 1..c : u[j] = Known => \E n \in j..c : u[n] = "\n"

(* What is scrubbed ends at a blank, behind the lines of known names. *)
LEMMA ReadyIs ==
  ASSUME NEW v \in Text, NEW c, c = Ready(v)
  PROVE  c \in 0..Len(v) /\ (c # 0 => v[c] \in Blank) /\ LinesEnded(v, c)
<1> DEFINE sensitive == \E j \in DOMAIN v :
                          v[j] = Known /\ \A k \in j..Len(v) : v[k] # "\n"
           ends == {k \in DOMAIN v : IF sensitive THEN v[k] = "\n" ELSE v[k] \in Blank}
           B == ends \cup {0}
<1>0. Len(v) \in Nat /\ DOMAIN v = 1..Len(v)
  BY TextFacts
<1>1. \A k \in ends : k \in 1..Len(v) /\ v[k] \in Blank
  BY <1>0 DEF Blank
<1>s. ASSUME sensitive, NEW k \in ends PROVE v[k] = "\n"
  BY <1>s
<1>n. ASSUME ~sensitive
      PROVE  /\ \A k \in 1..Len(v) : v[k] = "\n" => k \in ends
             /\ \A j \in 1..Len(v) : v[j] = Known => \E k \in j..Len(v) : v[k] = "\n"
  BY <1>0, <1>n DEF Blank
<1> HIDE DEF ends, sensitive
<1>2. PICK m \in B : \A k \in B : k <= m
  <2>1. B \subseteq Nat /\ B # {} /\ \A k \in B : k <= Len(v)
    BY <1>0, <1>1
  <2> HIDE DEF B
  <2> QED BY <1>0, <2>1, GreatestNatural
<1>3. \A k \in ends : k <= m
  BY <1>2
<1>4. c \in B /\ \A k \in ends : k <= c
  <2>1. c = CHOOSE n \in ends \cup {0} : \A k \in ends : k <= n
    BY DEF Ready, ends, sensitive
  <2> QED BY <1>2, <1>3, <2>1
<1>5. c \in 0..Len(v) /\ (c # 0 => v[c] \in Blank)
  BY <1>0, <1>1, <1>4
<1>6. ASSUME NEW j \in 1..c, v[j] = Known PROVE \E n \in j..c : v[n] = "\n"
  <2>1. CASE sensitive
    <3>1. c \in ends /\ c \in j..c
      BY <1>4, <1>5
    <3> QED BY <1>s, <2>1, <3>1
  <2>2. CASE ~sensitive
    <3>1. j \in 1..Len(v)
      BY <1>0, <1>5
    <3>2. PICK k \in j..Len(v) : v[k] = "\n"
      BY <1>n, <1>6, <2>2, <3>1
    <3>3. k \in 1..Len(v)
      BY <1>0, <3>1
    <3>4. k <= c
      BY <1>4, <1>n, <2>2, <3>2, <3>3
    <3>5. k \in j..c
      BY <1>5, <3>1, <3>4
    <3> QED BY <3>2, <3>5
  <2> QED BY <2>1, <2>2
<1> QED BY <1>5, <1>6 DEF LinesEnded

(* No value goes on there. *)
LEMMA NoneAcross ==
  ASSUME NEW u \in Text, StandByTheirNames(u), NEW c \in 0..Len(u),
         c # 0 => u[c] \in Blank, LinesEnded(u, c)
  PROVE  NotAcross(u, c)
<1>0. Len(u) \in Nat /\ DOMAIN u = 1..Len(u)
  BY TextFacts
<1> SUFFICES ASSUME NEW j \in 1..c, NEW i \in c + 1..Len(u), ValueReaches(u, j, i)
             PROVE  FALSE
  BY DEF NotAcross
<1>k. PICK k \in j..i - 1 :
        /\ u[j] \in Names /\ \A h \in j + 1..k : u[h] = " "
        /\ \A h \in k + 1..i : u[h] \notin Blank
  BY DEF ValueReaches, OnItsLine
<1>1. c # 0 /\ c \in Nat /\ c < i /\ u[c] \in Blank
  BY <1>0
<1>2. c <= k
  <2>1. ~(c \in k + 1..i)
    BY <1>k, <1>1
  <2> QED BY <1>0, <1>1, <2>1
<1>3. j < c
  <2>1. j # c
    BY <1>k, <1>1 DEF Names, Known, Blank
  <2> QED BY <1>1, <2>1
<1>4. \A h \in j + 1..c : h \in j + 1..k
  BY <1>1, <1>2
<1>5. u[j] = Known
  <2>1. j \in DOMAIN u /\ c \in DOMAIN u
    BY <1>0, <1>1
  <2>2. \A h \in j + 1..c : u[h] \in Blank
    BY <1>k, <1>4 DEF Blank
  <2> QED BY <1>k, <1>3, <2>1, <2>2 DEF StandByTheirNames
<1>6. PICK n \in j..c : u[n] = "\n"
  BY <1>5 DEF LinesEnded
<1>7. n # j
  BY <1>5, <1>6 DEF Known
<1>8. n \in j + 1..c
  BY <1>1, <1>3, <1>7
<1> QED BY <1>k, <1>4, <1>6, <1>8

(* The seams on both sides of a character. *)
LEMMA SeamsAround ==
  ASSUME NEW v, NEW c \in Nat, NEW i \in 1..c, NEW start, NEW to,
         start = Max({k \in Seams(v, c) : k < i}), to = Min({k \in Seams(v, c) : k >= i})
  PROVE  /\ start \in 0..i - 1 /\ to \in i..c
         /\ start # 0 => v[start] = "\n"
<1> DEFINE L == {k \in Seams(v, c) : k < i}
           R == {k \in Seams(v, c) : k >= i}
<1>0. /\ Seams(v, c) \subseteq 0..c /\ 0 \in Seams(v, c) /\ c \in Seams(v, c)
      /\ \A k \in Seams(v, c) : k = 0 \/ k = c \/ v[k] = "\n"
  BY DEF Seams
<1>1. L \subseteq Nat /\ L # {} /\ \A k \in L : k <= c
  <2>1. 0 \in L
    BY <1>0
  <2> QED BY <1>0, <2>1
<1>2. R \subseteq Nat /\ R # {}
  <2>1. c \in R
    BY <1>0
  <2> QED BY <1>0, <2>1
<1>l. \A k \in L : k \in 0..i - 1 /\ (k # 0 => v[k] = "\n")
  BY <1>0
<1>r. \A k \in R : k \in i..c
  BY <1>0
<1>f. start = Max(L) /\ to = Min(R)
  OBVIOUS
<1> HIDE DEF L, R
<1>3. start \in L
  <2>1. \E x \in L : \A y \in L : y <= x
    BY <1>1, GreatestNatural
  <2>2. \E x \in L : \A y \in L : x >= y
    BY <1>1, <2>1
  <2> QED BY <1>f, <2>2 DEF Max
<1>4. to \in R
  <2>1. \E x \in R : \A y \in R : x <= y
    BY <1>2, LeastNatural
  <2> QED BY <1>f, <2>1 DEF Min
<1> QED BY <1>3, <1>4, <1>l, <1>r

(* Scrubbed in parts a text is one, *)
LEMMA PartsAre ==
  ASSUME NEW v \in Text, NEW c \in 0..Len(v) PROVE ScrubParts(v, c) \in Text
<1>0. Len(v) \in Nat /\ c \in Nat /\ c <= Len(v) /\ v \in Seq(Glyphs)
  BY TextFacts DEF Text
<1> DEFINE p == [i \in 1..c |-> ScrubbedPart(v, c, i)]
<1>1. ASSUME NEW i \in 1..c PROVE ScrubbedPart(v, c, i) \in Text
  <2> DEFINE start == Max({k \in Seams(v, c) : k < i})
             to == Min({k \in Seams(v, c) : k >= i})
             part == SubSeq(v, start + 1, to)
  <2>1. start \in 0..i - 1 /\ to \in i..c
    BY <1>0, SeamsAround
  <2>2. ScrubbedPart(v, c, i) = Scrubbed(part, i - start)
    BY DEF ScrubbedPart
  <2> HIDE DEF start, to
  <2>3. start + 1 \in Nat /\ to \in Nat /\ 1 <= start + 1 /\ start + 1 <= to + 1 /\ to <= Len(v)
    BY <1>0, <2>1
  <2>4. part \in Seq(Glyphs) /\ Len(part) = to - (start + 1) + 1
    <3> DEFINE b == start + 1
    <3> HIDE DEF b
    <3>1. b \in Nat /\ to \in Nat /\ 1 <= b /\ b <= to + 1 /\ to <= Len(v)
      BY <2>3 DEF b
    <3>2. SubSeq(v, b, to) \in Seq(Glyphs) /\ Len(SubSeq(v, b, to)) = to - b + 1
      BY <1>0, <3>1, Stretch
    <3> QED BY <3>2 DEF b
  <2> HIDE DEF part
  <2>5. part \in Text /\ i - start \in 1..Len(part)
    BY <1>0, <2>1, <2>4 DEF Text
  <2> QED BY <2>2, <2>5, ScrubbedIs
<1>2. ScrubParts(v, c) = FlattenSeq(p) /\ p \in [1..c -> Text]
  BY <1>1 DEF ScrubParts
<1> HIDE DEF p
<1> QED BY <1>0, <1>2, OnePiece DEF Text

(* and if the values stand by their names the same as scrubbed whole. *)
LEMMA PartsAreWhole ==
  ASSUME NEW v \in Text, NEW c \in 0..Len(v), NEW u \in Text, Len(u) = c,
         \A i \in 1..c : u[i] = v[i], StandByTheirNames(u)
  PROVE  ScrubParts(v, c) = ScrubSecrets(u)
<1>0. Len(v) \in Nat /\ c \in Nat /\ c <= Len(v) /\ v \in Seq(Glyphs) /\ DOMAIN u = 1..c
  BY TextFacts DEF Text
<1>1. ASSUME NEW i \in 1..c PROVE ScrubbedPart(v, c, i) = Scrubbed(u, i)
  <2> DEFINE start == Max({k \in Seams(v, c) : k < i})
             to == Min({k \in Seams(v, c) : k >= i})
             part == SubSeq(v, start + 1, to)
             n == i - start
  <2>1. start \in 0..i - 1 /\ to \in i..c /\ (start # 0 => v[start] = "\n")
    BY <1>0, SeamsAround
  <2>2. ScrubbedPart(v, c, i) = Scrubbed(part, n)
    BY DEF ScrubbedPart
  <2> HIDE DEF start, to
  <2>3. start + 1 \in Nat /\ to \in Nat /\ 1 <= start + 1 /\ start + 1 <= to + 1 /\ to <= Len(v)
    BY <1>0, <2>1
  <2>4. /\ part \in Seq(Glyphs) /\ Len(part) = to - (start + 1) + 1
        /\ \A k \in 1..to - (start + 1) + 1 : part[k] = v[start + 1 + k - 1]
    <3> DEFINE b == start + 1
    <3> HIDE DEF b
    <3>1. b \in Nat /\ to \in Nat /\ 1 <= b /\ b <= to + 1 /\ to <= Len(v)
      BY <2>3 DEF b
    <3>2. /\ SubSeq(v, b, to) \in Seq(Glyphs) /\ Len(SubSeq(v, b, to)) = to - b + 1
          /\ \A k \in 1..to - b + 1 : SubSeq(v, b, to)[k] = v[b + k - 1]
      BY <1>0, <3>1, Stretch
    <3> QED BY <3>2 DEF b
  <2> HIDE DEF part
  <2>5. ASSUME NEW k \in 1..to - start PROVE part[k] = u[start + k]
    <3>1. k \in 1..to - (start + 1) + 1 /\ start + 1 + k - 1 = start + k /\ start + k \in 1..c
      BY <1>0, <2>1
    <3>2. part[k] = v[start + 1 + k - 1]
      BY <2>4, <3>1
    <3>3. u[start + k] = v[start + k]
      BY <3>1
    <3> QED BY <3>1, <3>2, <3>3
  <2>6. IsPart(u, start, to, part)
    BY <1>0, <2>1, <2>4, <2>5 DEF IsPart, Text
  <2>7. start # 0 => u[start] = "\n"
    BY <1>0, <2>1
  <2>8. NotAcross(u, start)
    <3> SUFFICES ASSUME NEW j \in 1..start, NEW h \in start + 1..Len(u), ValueReaches(u, j, h)
                 PROVE  FALSE
      BY DEF NotAcross
    <3>k. PICK k \in j..h - 1 :
            /\ u[j] \in Names /\ \A g \in j + 1..k : u[g] = " "
            /\ \A g \in k + 1..h : u[g] \notin Blank
      BY DEF ValueReaches, OnItsLine
    <3>1. start # 0 /\ start \in Nat /\ u[start] = "\n"
      BY <2>1, <2>7
    <3>2. j # start
      BY <3>k, <3>1 DEF Names, Known
    <3>3. start \in j + 1..k \/ start \in k + 1..h
      BY <1>0, <3>1, <3>2
    <3> QED BY <3>k, <3>1, <3>3 DEF Blank
  <2>9. n \in 1..to - start /\ i = start + n
    BY <1>0, <2>1
  <2> HIDE DEF n
  <2>10. start # 0 => u[start] \in Blank
    BY <2>7 DEF Blank
  <2>11. Scrubbed(part, n) = Scrubbed(u, i)
    BY <2>6, <2>8, <2>9, <2>10, ScrubbedInPart
  <2> QED BY <2>2, <2>11
<1>2. [i \in 1..c |-> ScrubbedPart(v, c, i)] = [i \in DOMAIN u |-> Scrubbed(u, i)]
  BY <1>0, <1>1
<1> QED BY <1>2 DEF ScrubParts, ScrubSecrets

-----------------------------------------------------------------------------
(* No value stands, or begins to, across the place p of u. *)
Clean(u, p) ==
  \A s \in Secrets : \A i \in 1..p :
    ~(/\ i + Len(s) - 1 > p
      /\ \A k \in 1..Len(s) : i + k - 1 <= Len(u) => u[i + k - 1] = s[k])

(* What comes later does not change that, *)
LEMMA CleanLonger ==
  ASSUME SecretsOK, NEW u \in Text, NEW x \in Text, NEW p \in 0..Len(u), Clean(u, p)
  PROVE  Clean(u \o x, p)
<1> DEFINE ux == u \o x
           T == Len(u)
<1>0. /\ T \in Nat /\ Len(ux) \in Nat /\ T <= Len(ux)
      /\ \A i \in 1..T : ux[i] = u[i]
  <2>1. /\ ux \in Text /\ T \in Nat /\ Len(x) \in Nat /\ Len(ux) = T + Len(x)
        /\ \A i \in 1..T : ux[i] = u[i]
    BY TextFacts
  <2> HIDE DEF ux, T
  <2> QED BY <2>1
<1> SUFFICES ASSUME NEW s \in Secrets, NEW i \in 1..p, i + Len(s) - 1 > p,
                    \A k \in 1..Len(s) : i + k - 1 <= Len(ux) => ux[i + k - 1] = s[k]
             PROVE  FALSE
  BY DEF Clean
<1> HIDE DEF ux, T
<1>1. ASSUME NEW k \in 1..Len(s), i + k - 1 <= T PROVE u[i + k - 1] = s[k]
  <2>1. i + k - 1 \in 1..T /\ i + k - 1 <= Len(ux)
    BY <1>0, <1>1
  <2>2. ux[i + k - 1] = s[k]
    BY <2>1
  <2> QED BY <1>0, <2>1, <2>2
<1> QED BY <1>1 DEF Clean, T

(* and what is cut there can be redacted in two parts. *)
LEMMA CleanCut ==
  ASSUME SecretsOK, NEW a \in Text, NEW b \in Text, NEW c \in Text, Clean((a \o b) \o c, Len(a))
  PROVE  Uncut(a, b)
<1> DEFINE ab == a \o b
           u == ab \o c
           m == Len(a)
<1>0. /\ m \in Nat /\ Len(ab) \in Nat /\ Len(u) \in Nat /\ Len(ab) <= Len(u)
      /\ \A i \in 1..Len(ab) : u[i] = ab[i]
  <2>1. ab \in Text
    BY TextFacts
  <2> HIDE DEF ab
  <2>2. /\ m \in Nat /\ Len(ab) \in Nat /\ Len(c) \in Nat /\ Len(u) = Len(ab) + Len(c)
        /\ \A i \in 1..Len(ab) : u[i] = ab[i]
    BY <2>1, TextFacts
  <2> HIDE DEF u, m
  <2> QED BY <2>2
<1>1. Clean(u, m)
  OBVIOUS
<1> SUFFICES ASSUME NEW s \in Secrets, NEW i \in 1..m, Stands(s, ab, i),
                    ~(i + Len(s) - 1 <= m)
             PROVE  FALSE
  BY DEF Uncut
<1> HIDE DEF ab, u, m
<1>2. Len(s) \in Nat
  BY SecretIs
<1>3. ASSUME NEW k \in 1..Len(s) PROVE u[i + k - 1] = s[k]
  <2>1. i + k - 1 \in 1..Len(ab)
    BY <1>0, <1>2 DEF Stands
  <2>2. ab[i + k - 1] = s[k]
    BY DEF Stands
  <2> QED BY <1>0, <2>1, <2>2
<1>4. i + Len(s) - 1 > m
  BY <1>0, <1>2
<1> QED BY <1>1, <1>3, <1>4 DEF Clean

(* Behind a place that is clean, what is held back of the rest leaves       *)
(* another.                                                                 *)
LEMMA CleanFurther ==
  ASSUME SecretsOK, SecretsApart, NEW a \in Text, NEW b \in Text, Clean(a \o b, Len(a)),
         NEW free, free = Len(b) - Withheld(b)
  PROVE  Clean(a \o b, Len(a) + free)
<1> DEFINE p == Len(a)
           h == Withheld(b)
           n == Len(b)
           u == a \o b
           c == p + free
<1>0. /\ p \in Nat /\ n \in Nat /\ Len(u) = p + n
      /\ \A i \in 1..n : u[p + i] = b[i]
  BY TextFacts
<1>1. /\ h \in 0..n
      /\ h # 0 => \E s \in Secrets : Begins(b, h, s)
      /\ \A k \in h + 1..n : \A s \in Secrets : ~Begins(b, k, s)
  <2> HIDE DEF h
  <2> QED BY WithheldIs DEF h
<1>2. Clean(u, p)
  OBVIOUS
<1>c. free = n - h /\ c = p + free
  OBVIOUS
<1> HIDE DEF p, h, n, u, c
<1>d. c \in Nat /\ free \in Nat /\ p <= c /\ c + h = p + n
  BY <1>0, <1>1, <1>c
<1> SUFFICES ASSUME NEW s \in Secrets, NEW i \in 1..c, i + Len(s) - 1 > c,
                    \A k \in 1..Len(s) : i + k - 1 <= Len(u) => u[i + k - 1] = s[k]
             PROVE  FALSE
  BY DEF Clean, p, u, c
<1> DEFINE l == Len(s)
<1>q. s \in Seq(STRING) /\ l \in Nat \ {0}
  BY SecretIs
<1>s. l \in Nat \ {0} /\ l = Len(s) /\ i \in 1..c /\ i + l - 1 > c
  BY <1>q
<1> HIDE DEF l
<1>3. CASE i <= p
  <2>1. i \in 1..p /\ i + l - 1 > p
    BY <1>0, <1>3, <1>d, <1>s
  <2> QED BY <1>2, <1>s, <2>1 DEF Clean
<1>4. CASE i > p /\ i + l - 1 > p + n
  <2> DEFINE r == p + n - i + 1
  <2>1. r \in h + 1..n /\ r < l /\ n - r = i - p - 1
    <3>1. /\ p \in Nat /\ n \in Nat /\ h \in 0..n /\ c \in Nat /\ c + h = p + n
          /\ l \in Nat /\ i \in 1..c /\ i > p /\ i + l - 1 > p + n
      BY <1>0, <1>1, <1>4, <1>d, <1>s
    <3> QED BY ONLY <3>1
  <2>2. ASSUME NEW k \in 1..r PROVE b[n - r + k] = s[k]
    <3>1. k \in 1..l /\ i + k - 1 <= Len(u) /\ n - r + k \in 1..n
          /\ p + (n - r + k) = i + k - 1
      BY <1>0, <1>4, <1>s, <2>1
    <3>2. u[i + k - 1] = s[k]
      BY <1>s, <3>1
    <3>3. u[p + (n - r + k)] = b[n - r + k]
      BY <1>0, <3>1
    <3> QED BY <3>1, <3>2, <3>3
  <2> HIDE DEF r
  <2>3. Begins(b, r, s)
    BY <1>s, <2>1, <2>2 DEF Begins, n
  <2> QED BY <1>1, <2>1, <2>3
<1>5. CASE i > p /\ ~(i + l - 1 > p + n)
  <2> DEFINE e == i + l - 1 - c
  <2>1. e \in 1..h /\ e \in 1..l - 1 /\ h # 0
    BY <1>0, <1>1, <1>5, <1>d, <1>s
  <2>2. PICK t \in Secrets : Begins(b, h, t)
    BY <1>1, <2>1
  <2>t. t \in Seq(STRING) /\ Len(t) \in Nat \ {0} /\ h < Len(t)
    BY <2>2, SecretIs DEF Begins
  <2>3. ASSUME NEW k \in 1..e PROVE s[l - e + k] = t[k]
    <3>0. /\ i \in Nat /\ l \in Nat /\ e \in Nat /\ k \in Nat /\ h \in Nat /\ n \in Nat
          /\ 1 <= k /\ k <= e /\ e <= h /\ h <= n /\ e <= l - 1
      BY <1>0, <1>1, <1>d, <1>s, <2>1
    <3>a. i + l - 1 <= p + n /\ i + l - 1 - c = e /\ c + h = p + n
      <4>1. /\ p \in Nat /\ c \in Nat /\ c + h = p + n /\ ~(i + l - 1 > p + n)
            /\ e = i + l - 1 - c /\ i \in Nat /\ l \in Nat /\ n \in Nat /\ h \in Nat
        BY <1>0, <1>5, <1>d, <1>s, <3>0
      <4> HIDE DEF e
      <4> QED BY ONLY <4>1
    <3>1. /\ l - e + k \in 1..l /\ k \in 1..h /\ n - h + k \in 1..n
      BY <3>0
    <3>b. /\ i + (l - e + k) - 1 <= Len(u)
          /\ p + (n - h + k) = i + (l - e + k) - 1
      <4>1. /\ i \in Nat /\ l \in Nat /\ e \in Nat /\ k \in Nat /\ h \in Nat /\ n \in Nat
            /\ p \in Nat /\ c \in Nat /\ k <= e /\ e <= h /\ h <= n /\ e <= l - 1
            /\ i + l - 1 <= p + n /\ i + l - 1 - c = e /\ c + h = p + n /\ Len(u) = p + n
        BY <1>0, <1>d, <3>0, <3>a
      <4> HIDE DEF e, u
      <4> QED BY ONLY <4>1
    <3>2. u[i + (l - e + k) - 1] = s[l - e + k]
      BY <1>s, <3>1, <3>b
    <3>3. b[n - h + k] = t[k]
      BY <2>2, <3>1 DEF Begins, n
    <3>4. u[p + (n - h + k)] = b[n - h + k]
      BY <1>0, <3>1
    <3> QED BY <3>b, <3>2, <3>3, <3>4
  <2> DEFINE j == l - e + 1
             z == SubSeq(s, j, l)
  <2>4. /\ z \in Seq(STRING) /\ Len(z) = e
        /\ \A k \in 1..e : z[k] = s[l - e + k]
    <3>1. /\ j \in Nat /\ 1 <= j /\ j <= l + 1 /\ l - j + 1 = e
          /\ \A k \in 1..e : j + k - 1 = l - e + k
      <4>1. e \in 1..l - 1 /\ l \in Nat
        BY <1>s, <2>1
      <4> HIDE DEF e
      <4> QED BY <4>1
    <3>2. /\ z \in Seq(STRING) /\ Len(z) = l - j + 1
          /\ \A k \in 1..l - j + 1 : z[k] = s[j + k - 1]
      <4> HIDE DEF j, e
      <4> QED BY <1>q, <1>s, <3>1, Stretch
    <3> HIDE DEF z, j, e
    <3> QED BY <3>1, <3>2
  <2>5. IsPrefix(z, t)
    <3>1. z \in Seq(STRING) /\ t \in Seq(STRING)
      BY <2>4, <2>t
    <3>2. Len(z) <= Len(t) /\ \A k \in 1..Len(z) : z[k] = t[k]
      <4> HIDE DEF z
      <4>1. e <= Len(t)
        BY <1>1, <2>1, <2>t
      <4> HIDE DEF e
      <4> QED BY <2>3, <2>4, <4>1
    <3> HIDE DEF z
    <3> QED BY <3>1, <3>2, PrefixIs
  <2> HIDE DEF e
  <2> QED BY <1>s, <2>1, <2>2, <2>5 DEF SecretsApart
<1> QED BY <1>0, <1>3, <1>4, <1>5

-----------------------------------------------------------------------------
(* Concatenation of three texts, and with none. *)
LEMMA TextJoined ==
  ASSUME NEW a \in Text, NEW b \in Text, NEW c \in Text
  PROVE  /\ (a \o b) \o c = a \o (b \o c)
         /\ a \o <<>> = a /\ <<>> \o a = a /\ <<>> \in Text
<1>1. a \in Seq(Glyphs) /\ b \in Seq(Glyphs) /\ c \in Seq(Glyphs)
  BY DEF Text
<1>2. <<>> \in Seq(Glyphs)
  OBVIOUS
<1> QED BY <1>1, <1>2, JoinedTwice DEF Text

(* Which of three texts are joined first makes no difference. *)
LEMMA TextGrouped ==
  ASSUME NEW a \in Text, NEW b \in Text, NEW c \in Text
  PROVE  (a \o b) \o c = a \o (b \o c)
BY TextJoined, SMTT(20)

(* Both parts of a text stand as it does. *)
LEMMA BothStand ==
  ASSUME NEW a \in Text, NEW b \in Text, StandByTheirNames(a \o b)
  PROVE  StandByTheirNames(a) /\ StandByTheirNames(b)
<1> DEFINE u == a \o b
           m == Len(a)
           q == Len(u)
<1>1. /\ u \in Text /\ m \in Nat /\ Len(b) \in Nat /\ q = m + Len(b)
      /\ \A i \in 1..m : u[i] = a[i]
      /\ \A i \in 1..Len(b) : u[m + i] = b[i]
  BY TextFacts
<1>2. StandByTheirNames(u) /\ m = Len(a) /\ q = Len(u)
  OBVIOUS
<1> HIDE DEF u, m, q
<1>3. IsPart(u, 0, m, a)
  BY <1>1, <1>2 DEF IsPart
<1>4. IsPart(u, m, q, b)
  BY <1>1, <1>2 DEF IsPart
<1> QED BY <1>2, <1>3, <1>4, PartStands

(* A text that ends with a blank, behind the lines of its known names. *)
Closed(Q) == /\ Q \in Text /\ LinesEnded(Q, Len(Q))
             /\ Q # <<>> => Q[Len(Q)] \in Blank

(* What comes behind it is scrubbed by itself. *)
LEMMA ScrubOn ==
  ASSUME NEW Q, Closed(Q), NEW c \in Text, StandByTheirNames(Q \o c)
  PROVE  ScrubSecrets(Q \o c) = ScrubSecrets(Q) \o ScrubSecrets(c)
<1> DEFINE u == Q \o c
           m == Len(Q)
<1>1. Q \in Text /\ LinesEnded(Q, m) /\ (Q # <<>> => Q[m] \in Blank)
  BY DEF Closed
<1>2. /\ u \in Text /\ m \in Nat /\ Len(c) \in Nat /\ Len(u) = m + Len(c)
      /\ \A i \in 1..m : u[i] = Q[i]
  BY <1>1, TextFacts
<1>3. m # 0 => Q # <<>>
  OBVIOUS
<1>4. StandByTheirNames(u) /\ m \in 0..Len(u)
  BY <1>2
<1>u. u = Q \o c /\ m = Len(Q)
  OBVIOUS
<1> HIDE DEF u, m
<1>5. m # 0 => u[m] \in Blank
  BY <1>1, <1>2, <1>3
<1>6. LinesEnded(u, m)
  <2> SUFFICES ASSUME NEW j \in 1..m, u[j] = Known PROVE \E n \in j..m : u[n] = "\n"
    BY DEF LinesEnded
  <2>1. Q[j] = Known
    BY <1>2
  <2>2. PICK n \in j..m : Q[n] = "\n"
    BY <1>1, <2>1 DEF LinesEnded
  <2>3. n \in 1..m
    BY <1>2
  <2> QED BY <1>2, <2>2, <2>3
<1>7. NotAcross(u, m)
  BY <1>2, <1>4, <1>5, <1>6, NoneAcross
<1> QED BY <1>1, <1>4, <1>7, <1>u, ScrubTwo

(* It stays one when more lines are closed. *)
LEMMA ClosedOn ==
  ASSUME NEW Q, Closed(Q), NEW c, Closed(c) PROVE Closed(Q \o c)
<1> DEFINE u == Q \o c
           m == Len(Q)
           n == Len(c)
<1>1. Q \in Text /\ LinesEnded(Q, m) /\ (Q # <<>> => Q[m] \in Blank)
  BY DEF Closed
<1>c. c \in Text /\ LinesEnded(c, n) /\ (c # <<>> => c[n] \in Blank)
  BY DEF Closed
<1>2. /\ u \in Text /\ m \in Nat /\ n \in Nat /\ Len(u) = m + n
      /\ \A i \in 1..m : u[i] = Q[i]
      /\ \A i \in 1..n : u[m + i] = c[i]
  BY <1>1, <1>c, TextFacts
<1>3. (m # 0 => Q # <<>>) /\ (n # 0 => c # <<>>) /\ (u # <<>> => Len(u) # 0)
  <2>1. u # <<>> => Len(u) # 0
    BY <1>2 DEF Text
  <2> QED BY <2>1
<1> HIDE DEF u, m, n
<1>4. ASSUME u # <<>> PROVE u[Len(u)] \in Blank
  <2>1. CASE n = 0
    <3>1. m # 0 /\ Len(u) = m /\ m \in 1..m
      BY <1>2, <1>3, <1>4, <2>1
    <3> QED BY <1>1, <1>2, <1>3, <3>1
  <2>2. CASE n # 0
    <3>1. n \in 1..n /\ Len(u) = m + n
      BY <1>2, <2>2
    <3>2. u[m + n] = c[n]
      BY <1>2, <3>1
    <3> QED BY <1>c, <1>3, <2>2, <3>1, <3>2
  <2> QED BY <2>1, <2>2
<1>5. ASSUME NEW j \in 1..Len(u), u[j] = Known PROVE \E k \in j..Len(u) : u[k] = "\n"
  <2>1. CASE j <= m
    <3>1. j \in 1..m
      BY <1>2, <2>1
    <3>2. Q[j] = Known
      BY <1>2, <1>5, <3>1
    <3>3. PICK k \in j..m : Q[k] = "\n"
      BY <1>1, <3>1, <3>2 DEF LinesEnded
    <3>4. k \in 1..m /\ k \in j..Len(u)
      BY <1>2, <3>1
    <3> QED BY <1>2, <3>3, <3>4
  <2>2. CASE j > m
    <3> DEFINE i == j - m
    <3>1. i \in 1..n /\ m + i = j
      BY <1>2, <2>2
    <3> HIDE DEF i
    <3>2. c[i] = Known
      <4>1. u[m + i] = c[i]
        BY <1>2, <3>1
      <4> QED BY <1>5, <3>1, <4>1
    <3>3. PICK k \in i..n : c[k] = "\n"
      BY <1>c, <3>1, <3>2 DEF LinesEnded
    <3>4. k \in 1..n /\ m + k \in j..Len(u)
      BY <1>2, <3>1
    <3>5. u[m + k] = c[k]
      BY <1>2, <3>4
    <3> QED BY <3>3, <3>4, <3>5
  <2> QED BY <1>2, <2>1, <2>2
<1> QED BY <1>2, <1>4, <1>5 DEF Closed, LinesEnded, u

(* What is scrubbed of a redacted text at a time ends at a blank. *)
Redacting(R, red, out) ==
  /\ red.configured \in Text /\ red.shape \in Text /\ out \in Text
  /\ \E P, Q \in Text :
       /\ R = P \o red.configured /\ Clean(R, Len(P))
       /\ Redact(P) = Q \o red.shape
       /\ Closed(Q)
       /\ StandByTheirNames(Redact(P)) => out = ScrubSecrets(Q)

(* The redactor goes on where it was. *)
LEMMA RedactingGoesOn ==
  ASSUME SecretsOK, SecretsApart, NEW R, NEW red, NEW out, Redacting(R, red, out),
         NEW x \in Text, NEW w, w = RedactorWrite(red, x)
  PROVE  w.shown \in Text /\ Redacting(R \o x, w.redactor, out \o w.shown)
<1> DEFINE held == red.configured
           unsure == red.shape
           all == held \o x
           free == Len(all) - Withheld(all)
           a == SubSeq(all, 1, free)
           b == SubSeq(all, free + 1, Len(all))
           shape == unsure \o Redact(a)
           cut == Ready(shape)
           c == SubSeq(shape, 1, cut)
           d == SubSeq(shape, cut + 1, Len(shape))
<1>1. /\ w.shown = ScrubParts(shape, cut)
      /\ w.redactor.configured = b /\ w.redactor.shape = d
  BY DEF RedactorWrite
<1>2. PICK P, Q \in Text :
        /\ R = P \o held /\ Clean(R, Len(P))
        /\ Redact(P) = Q \o unsure
        /\ Closed(Q)
        /\ StandByTheirNames(Redact(P)) => out = ScrubSecrets(Q)
  BY DEF Redacting
<1>3. held \in Text /\ unsure \in Text /\ out \in Text
  BY DEF Redacting
<1> HIDE DEF held, unsure
<1>4. all \in Text /\ Len(all) \in Nat
  <2>1. all \in Text
    BY <1>3, TextFacts
  <2> HIDE DEF all
  <2> QED BY <2>1, TextFacts
<1>5. R \o x = P \o all
  <2> HIDE DEF free, a, b, shape, cut, c, d
  <2>0. P \in Text /\ held \in Text /\ x \in Text
    BY <1>3
  <2>1. (P \o held) \o x = P \o (held \o x)
    BY <2>0, TextGrouped
  <2>2. R \o x = P \o (held \o x)
    BY <1>2, <2>1
  <2> QED BY <2>2
<1>6. Clean(P \o all, Len(P))
  <2>1. R \in Text /\ Len(P) \in 0..Len(R)
    <3>1. /\ R \in Text /\ Len(P) \in Nat /\ Len(held) \in Nat
          /\ Len(R) = Len(P) + Len(held)
      BY <1>2, <1>3, TextFacts
    <3> QED BY <3>1
  <2>2. Clean(R \o x, Len(P))
    BY <1>2, <2>1, CleanLonger
  <2> QED BY <1>5, <2>2
<1> HIDE DEF all
<1>7. /\ free \in 0..Len(all)
      /\ Clean(P \o all, Len(P) + free)
  <2>1. Withheld(all) \in 0..Len(all)
    BY <1>4, WithheldIs
  <2>2. free \in 0..Len(all)
    BY <1>4, <2>1
  <2> QED BY <1>2, <1>4, <1>6, <2>2, CleanFurther
<1> HIDE DEF free
<1>a. a = SubSeq(all, 1, free) /\ b = SubSeq(all, free + 1, Len(all))
  OBVIOUS
<1> HIDE DEF a, b
<1>8. a \in Text /\ b \in Text /\ a \o b = all /\ Len(a) = free
  <2>1. CutAt(all, free, a, b)
    BY <1>4, <1>7, <1>a DEF CutAt
  <2> QED BY <2>1, CutTwo
<1>9. /\ P \o a \in Text /\ (P \o a) \o b = R \o x
      /\ Len(P \o a) = Len(P) + free
  <2>1. (P \o a) \o b = P \o (a \o b)
    <3>1. P \in Text /\ a \in Text /\ b \in Text
      BY <1>8
    <3> QED BY ONLY <3>1, TextGrouped
  <2>2. (P \o a) \o b = P \o all
    BY <1>8, <2>1
  <2> QED BY <1>2, <1>5, <1>8, <2>2, TextFacts
<1>10. Uncut(P, a)
  <2>1. Clean((P \o a) \o b, Len(P))
    BY <1>5, <1>6, <1>9
  <2> QED BY <1>2, <1>8, <2>1, CleanCut
<1>11. Redact(P \o a) = Redact(P) \o Redact(a) /\ Redact(a) \in Text
  <2>1. Redact(P \o a) = Redact(P) \o Redact(a)
    BY <1>2, <1>8, <1>10, RedactTwo
  <2>2. <<>> \in Text
    BY Letters DEF Glyphs
  <2>3. Uncut(a, <<>>)
    <3> SUFFICES ASSUME NEW s \in Secrets, NEW i \in 1..Len(a), Stands(s, a \o <<>>, i)
                 PROVE  i + Len(s) - 1 <= Len(a)
      BY DEF Uncut
    <3>1. a \o <<>> = a
      BY <1>8 DEF Text
    <3> QED BY <3>1 DEF Stands
  <2>4. Redact(a) \in Text
    BY <1>8, <2>2, <2>3, RedactTwo
  <2> QED BY <2>1, <2>4
<1>12. shape \in Text
  BY <1>3, <1>11, TextFacts
<1>13. Redact(P \o a) = Q \o shape
  <2>2. (Q \o unsure) \o Redact(a) = Q \o shape
    <3> DEFINE z == Redact(a)
    <3>1. Q \in Text /\ unsure \in Text /\ z \in Text
      BY <1>3, <1>11
    <3> HIDE DEF z
    <3>2. (Q \o unsure) \o z = Q \o (unsure \o z)
      BY ONLY <3>1, TextGrouped
    <3> QED BY <3>2 DEF z
  <2> QED BY <1>2, <1>11, <2>2
<1> HIDE DEF shape
<1>14. cut \in 0..Len(shape) /\ (cut # 0 => shape[cut] \in Blank) /\ LinesEnded(shape, cut)
  <2> HIDE DEF cut
  <2> QED BY <1>12, ReadyIs DEF cut
<1> HIDE DEF cut
<1>c. c = SubSeq(shape, 1, cut) /\ d = SubSeq(shape, cut + 1, Len(shape))
  OBVIOUS
<1> HIDE DEF c, d
<1>15. /\ c \in Text /\ d \in Text /\ c \o d = shape /\ Len(c) = cut
       /\ \A i \in 1..cut : c[i] = shape[i]
  <2>1. CutAt(shape, cut, c, d)
    BY <1>12, <1>14, <1>c DEF CutAt
  <2> QED BY <2>1, CutTwo
<1>16. Redact(P \o a) = (Q \o c) \o d
  <2>1. (Q \o c) \o d = Q \o (c \o d)
    <3>1. Q \in Text /\ c \in Text /\ d \in Text
      BY <1>15
    <3> QED BY ONLY <3>1, TextGrouped
  <2> QED BY <1>13, <1>15, <2>1
<1>e. Closed(c)
  <2>1. ASSUME c # <<>> PROVE c[Len(c)] \in Blank
    <3>1. cut # 0
      BY <1>15, <2>1 DEF Text
    <3>2. cut \in 1..cut
      BY <1>14, <3>1
    <3> QED BY <1>14, <1>15, <3>1, <3>2
  <2>2. LinesEnded(c, cut)
    <3> SUFFICES ASSUME NEW j \in 1..cut, c[j] = Known PROVE \E n \in j..cut : c[n] = "\n"
      BY DEF LinesEnded
    <3>1. shape[j] = Known
      BY <1>15
    <3>2. PICK n \in j..cut : shape[n] = "\n"
      BY <1>14, <3>1 DEF LinesEnded
    <3>3. n \in 1..cut
      BY <1>14
    <3> QED BY <1>15, <3>2, <3>3
  <2> QED BY <1>15, <2>1, <2>2 DEF Closed
<1>17. Closed(Q \o c) /\ Q \o c \in Text
  BY <1>2, <1>e, ClosedOn DEF Closed
<1>p. ScrubParts(shape, cut) \in Text /\ out \o w.shown \in Text /\ w.shown \in Text
  <2> DEFINE z == ScrubParts(shape, cut)
  <2>1. z \in Text
    BY <1>12, <1>14, PartsAre
  <2>2. w.shown = z
    BY <1>1
  <2> HIDE DEF z
  <2>3. out \o z \in Text
    BY <1>3, <2>1, TextFacts
  <2> QED BY <2>1, <2>2, <2>3 DEF z
<1>18. ASSUME StandByTheirNames(Redact(P \o a))
       PROVE  out \o w.shown = ScrubSecrets(Q \o c)
  <2>1. StandByTheirNames(Redact(P))
    <3> DEFINE z == Redact(a)
               y == Redact(P)
    <3>1. y \in Text
      <4>1. Q \o unsure \in Text
        BY <1>2, <1>3, TextFacts
      <4> QED BY <1>2, <4>1
    <3>2. z \in Text /\ StandByTheirNames(y \o z)
      BY <1>11, <1>18
    <3> HIDE DEF y, z
    <3>3. StandByTheirNames(y)
      BY <3>1, <3>2, BothStand
    <3> QED BY <3>3 DEF y
  <2>2. StandByTheirNames(Q \o c)
    <3> DEFINE y == Q \o c
    <3>1. y \in Text /\ d \in Text /\ StandByTheirNames(y \o d)
      BY <1>15, <1>16, <1>17, <1>18
    <3> HIDE DEF y
    <3>2. StandByTheirNames(y)
      BY <3>1, BothStand
    <3> QED BY <3>2 DEF y
  <2>3. StandByTheirNames(c)
    BY <1>2, <1>15, <2>2, BothStand
  <2>4. ScrubParts(shape, cut) = ScrubSecrets(c)
    BY <1>12, <1>14, <1>15, <2>3, PartsAreWhole
  <2>5. ScrubSecrets(Q \o c) = ScrubSecrets(Q) \o ScrubSecrets(c)
    BY <1>2, <1>15, <2>2, ScrubOn
  <2> QED BY <1>1, <1>2, <2>1, <2>4, <2>5
<1>19. Clean(R \o x, Len(P \o a))
  BY <1>5, <1>7, <1>9
<1>20. Redacting(R \o x, w.redactor, out \o w.shown)
  <2>1. R \o x = (P \o a) \o w.redactor.configured
    BY <1>1, <1>9
  <2>2. Redact(P \o a) = (Q \o c) \o w.redactor.shape
    BY <1>1, <1>16
  <2>4. w.redactor.configured \in Text /\ w.redactor.shape \in Text
    BY <1>1, <1>8, <1>15
  <2> QED BY <1>9, <1>17, <1>18, <1>19, <1>p, <2>1, <2>2, <2>4 DEF Redacting
<1> QED BY <1>p, <1>20

(* What it still holds back at the end completes the text. *)
LEMMA RedactingEnds ==
  ASSUME SecretsOK, NEW R, NEW red, NEW out, Redacting(R, red, out)
  PROVE  /\ out \in Text /\ RedactorFlush(red) \in Text
         /\ StandByTheirNames(Redact(R)) =>
              ScrubSecrets(Redact(R)) = out \o RedactorFlush(red)
<1> DEFINE c == red.configured
           unsure == red.shape
<1>1. PICK P, Q \in Text :
        /\ R = P \o c /\ Clean(R, Len(P))
        /\ Redact(P) = Q \o unsure
        /\ Closed(Q)
        /\ StandByTheirNames(Redact(P)) => out = ScrubSecrets(Q)
  BY DEF Redacting
<1>2. c \in Text /\ unsure \in Text /\ out \in Text
  BY DEF Redacting
<1> HIDE DEF c, unsure
<1> DEFINE rest == unsure \o Redact(c)
<1>e. <<>> \in Text /\ \A u \in Text : u \o <<>> = u
  BY <1>1, TextJoined
<1>3. Uncut(P, c)
  <2>1. R \in Text
    BY <1>1, <1>2, TextFacts
  <2>2. Clean((P \o c) \o <<>>, Len(P))
    BY <1>1, <1>e, <2>1
  <2> QED BY <1>1, <1>2, <1>e, <2>2, CleanCut
<1>4. Redact(R) = Redact(P) \o Redact(c)
  BY <1>1, <1>2, <1>3, RedactTwo
<1>5. Redact(c) \in Text
  <2>1. Uncut(c, <<>>)
    BY <1>2, <1>e DEF Uncut, Stands
  <2> QED BY <1>2, <1>e, <2>1, RedactTwo
<1>6. rest \in Text /\ Redact(R) = Q \o rest
  <2>2. (Q \o unsure) \o Redact(c) = Q \o rest
    <3> DEFINE z == Redact(c)
    <3>1. Q \in Text /\ unsure \in Text /\ z \in Text
      BY <1>1, <1>2, <1>5
    <3> HIDE DEF z
    <3>2. (Q \o unsure) \o z = Q \o (unsure \o z)
      BY ONLY <3>1, TextGrouped
    <3> QED BY <3>2 DEF z
  <2> QED BY <1>1, <1>2, <1>4, <1>5, <2>2, TextFacts
<1>r. RedactorFlush(red) = ScrubSecrets(rest)
  BY DEF RedactorFlush, c, unsure
<1> HIDE DEF rest
<1>7. ASSUME StandByTheirNames(Redact(R))
      PROVE  ScrubSecrets(Redact(R)) = out \o ScrubSecrets(rest)
  <2>1. StandByTheirNames(Redact(P))
    <3> DEFINE z == Redact(c)
               y == Redact(P)
    <3>1. y \in Text
      <4>1. Q \o unsure \in Text
        BY <1>1, <1>2, TextFacts
      <4> QED BY <1>1, <4>1
    <3>2. z \in Text /\ StandByTheirNames(y \o z)
      BY <1>4, <1>5, <1>7
    <3> HIDE DEF y, z
    <3>3. StandByTheirNames(y)
      BY <3>1, <3>2, BothStand
    <3> QED BY <3>3 DEF y
  <2>2. ScrubSecrets(Q \o rest) = ScrubSecrets(Q) \o ScrubSecrets(rest)
    BY <1>1, <1>6, <1>7, ScrubOn
  <2> QED BY <1>1, <1>6, <2>1, <2>2
<1>8. ScrubSecrets(rest) \in Text
  BY <1>6, ScrubIs
<1> QED BY <1>2, <1>7, <1>8, <1>r

-----------------------------------------------------------------------------
(* The incomplete end of a text. *)
LEMMA PartialIs ==
  ASSUME NEW u \in Text, NEW t, t = PartialRune(u)
  PROVE  /\ t \in Text /\ Len(t) \in 0..Len(u)
         /\ t = <<>> \/ (t = <<"c3">> /\ u # <<>> /\ u[Len(u)] = "c3")
         /\ t = <<>> => u = <<>> \/ u[Len(u)] # "c3"
<1>1. "c3" \in Glyphs /\ Len(u) \in Nat /\ (u # <<>> => Len(u) # 0)
  <2>1. "c3" \in Glyphs
    BY DEF Glyphs
  <2>2. Len(u) \in Nat
    BY TextFacts
  <2>3. u # <<>> => Len(u) # 0
    BY DEF Text
  <2> QED BY <2>1, <2>2, <2>3
<1>2. <<"c3">> \in Text /\ <<>> \in Text /\ Len(<<"c3">>) = 1
  BY <1>1, Letters
<1>3. Last(u) = u[Len(u)]
  BY DEF Last
<1>4. CASE u # <<>> /\ u[Len(u)] = "c3"
  <2>1. t = <<"c3">>
    BY <1>3, <1>4 DEF PartialRune
  <2> QED BY <1>1, <1>2, <1>4, <2>1
<1>5. CASE ~(u # <<>> /\ u[Len(u)] = "c3")
  <2>1. t = <<>>
    BY <1>3, <1>5 DEF PartialRune
  <2>2. Len(t) = 0
    BY <2>1
  <2> QED BY <1>1, <1>2, <1>5, <2>1, <2>2
<1> QED BY <1>4, <1>5

(* What is done with the incomplete end of a when b comes: cut is decoded   *)
(* behind d, and the rest is the incomplete end of both.                    *)
Pieced(a, b, d, tail, bytes, rest, cut) ==
  /\ a \in Text /\ b \in Text /\ d \in Text
  /\ tail = PartialRune(a) /\ a = d \o tail
  /\ bytes = tail \o b /\ rest = PartialRune(bytes)
  /\ cut = SubSeq(bytes, 1, Len(bytes) - Len(rest))

(* Then the incomplete end of both is what is left. *)
LEMMA PartialTwo ==
  ASSUME NEW a, NEW b, NEW d, NEW tail, NEW bytes, NEW rest, NEW cut,
         Pieced(a, b, d, tail, bytes, rest, cut)
  PROVE  /\ cut \in Text /\ a \o b \in Text /\ rest \in Text
         /\ rest = PartialRune(a \o b) /\ a \o b = (d \o cut) \o rest
         /\ d # <<>> /\ cut # <<>> => ~(d[Len(d)] = "c3" /\ cut[1] = "a9")
<1>1. /\ a \in Text /\ b \in Text /\ d \in Text
      /\ tail = PartialRune(a) /\ a = d \o tail
      /\ bytes = tail \o b /\ rest = PartialRune(bytes)
      /\ cut = SubSeq(bytes, 1, Len(bytes) - Len(rest))
  BY DEF Pieced
<1>2. /\ tail \in Text
      /\ tail = <<>> \/ (tail = <<"c3">> /\ a # <<>> /\ a[Len(a)] = "c3")
      /\ tail = <<>> => a = <<>> \/ a[Len(a)] # "c3"
  BY <1>1, PartialIs
<1>3. bytes \in Text /\ Len(bytes) \in Nat
  BY <1>1, <1>2, TextFacts
<1>4. /\ rest \in Text /\ Len(rest) \in 0..Len(bytes)
      /\ rest = <<>> \/ (rest = <<"c3">> /\ bytes # <<>> /\ bytes[Len(bytes)] = "c3")
      /\ rest = <<>> => bytes = <<>> \/ bytes[Len(bytes)] # "c3"
  BY <1>1, <1>3, PartialIs
<1>5. cut \in Text /\ bytes = cut \o rest /\ Len(cut) = Len(bytes) - Len(rest)
      /\ \A i \in 1..Len(cut) : cut[i] = bytes[i]
  <2> DEFINE m == Len(bytes) - Len(rest)
             end == SubSeq(bytes, m + 1, Len(bytes))
  <2>1. m \in 0..Len(bytes) /\ m = Len(bytes) - Len(rest)
    BY <1>3, <1>4
  <2>2. CutAt(bytes, m, cut, end)
    BY <1>1, <1>3, <2>1 DEF CutAt
  <2> HIDE DEF m, end
  <2>3. /\ cut \in Text /\ Len(cut) = m /\ end \in Text /\ cut \o end = bytes
        /\ \A i \in 1..m : cut[i] = bytes[i]
        /\ Len(end) = Len(bytes) - m /\ \A i \in 1..Len(bytes) - m : end[i] = bytes[m + i]
    BY <2>2, CutTwo
  <2>4. end = rest
    <3>1. CASE rest = <<>>
      <4>1. Len(rest) = 0
        BY <3>1
      <4>2. Len(end) = 0
        BY <1>3, <2>1, <2>3, <4>1
      <4> QED BY <2>3, <3>1, <4>2 DEF Text
    <3>2. CASE rest = <<"c3">> /\ bytes # <<>> /\ bytes[Len(bytes)] = "c3"
      <4>1. Len(rest) = 1 /\ rest[1] = "c3" /\ rest \in Seq(Glyphs) /\ end \in Seq(Glyphs)
        BY <1>4, <2>3, <3>2 DEF Text
      <4>2. Len(end) = 1 /\ m + 1 = Len(bytes)
        BY <1>3, <2>1, <2>3, <4>1
      <4>3. 1 \in 1..Len(bytes) - m
        BY <1>3, <2>3, <4>2
      <4>4. end[1] = bytes[m + 1]
        BY <2>3, <4>3, Zenon
      <4>5. \A i \in 1..Len(end) : i = 1
        BY <4>2
      <4>6. \A i \in 1..Len(end) : end[i] = rest[i]
        BY <3>2, <4>1, <4>2, <4>4, <4>5
      <4> QED BY <4>1, <4>2, <4>6, SameSequence
    <3> QED BY <1>4, <3>1, <3>2
  <2> QED BY <2>1, <2>3, <2>4
<1>6. a \o b \in Text /\ a \o b = d \o bytes /\ a \o b = (d \o cut) \o rest
  <2>1. a \o b = d \o bytes
    <3>1. (d \o tail) \o b = d \o (tail \o b)
      <4>1. d \in Text /\ tail \in Text /\ b \in Text
        BY <1>1, <1>2
      <4> QED BY <4>1, TextJoined
    <3> QED BY <1>1, <3>1
  <2>2. (d \o cut) \o rest = d \o (cut \o rest)
    <3>1. d \in Text /\ cut \in Text /\ rest \in Text
      BY <1>1, <1>4, <1>5
    <3> QED BY <3>1, TextJoined
  <2>3. a \o b \in Text
    <3>1. a \in Text /\ b \in Text
      BY <1>1
    <3> QED BY <3>1, TextFacts
  <2> QED BY <1>5, <2>1, <2>2, <2>3
<1>7. rest = PartialRune(a \o b)
  <2>1. CASE bytes = <<>>
    <3>1. a \o b = d /\ rest = <<>>
      BY <1>1, <1>4, <1>6, <2>1, TextJoined
    <3>2. Len(bytes) = 0 /\ Len(bytes) = Len(tail) + Len(b) /\ Len(tail) \in Nat /\ Len(b) \in Nat
      <4>1. /\ Len(tail \o b) = Len(tail) + Len(b) /\ Len(tail) \in Nat /\ Len(b) \in Nat
        <5>1. tail \in Text /\ b \in Text
          BY <1>1, <1>2
        <5> QED BY <5>1, TextFacts
      <4> QED BY <1>1, <2>1, <4>1
    <3>3. tail = <<>>
      <4>1. Len(tail) = 0
        BY <3>2
      <4>2. tail \in Seq(Glyphs)
        BY <1>2 DEF Text
      <4> QED BY <4>1, <4>2
    <3>4. a = d
      BY <1>1, <3>3, TextJoined
    <3> QED BY <1>1, <3>1, <3>3, <3>4
  <2>2. CASE bytes # <<>>
    <3>1. /\ Len(d \o bytes) = Len(d) + Len(bytes) /\ Len(bytes) \in Nat /\ Len(d) \in Nat
          /\ \A i \in 1..Len(bytes) : (d \o bytes)[Len(d) + i] = bytes[i]
      <4>1. d \in Text /\ bytes \in Text
        BY <1>1, <1>3
      <4> QED BY ONLY <4>1, TextFacts
    <3>2. Len(bytes) # 0
      BY <1>3, <2>2 DEF Text
    <3>3. Len(bytes) \in 1..Len(bytes) /\ Len(d \o bytes) # 0
      BY <3>1, <3>2
    <3>4. (d \o bytes)[Len(d \o bytes)] = bytes[Len(bytes)] /\ d \o bytes # <<>>
      <4>1. (d \o bytes)[Len(d) + Len(bytes)] = bytes[Len(bytes)]
        BY <3>1, <3>3
      <4>2. d \o bytes # <<>>
        BY <3>3
      <4> QED BY <3>1, <4>1, <4>2
    <3>5. PartialRune(d \o bytes) = PartialRune(bytes)
      BY <2>2, <3>4 DEF PartialRune, Last
    <3> QED BY <1>1, <1>6, <3>5
  <2> QED BY <2>1, <2>2
<1>8. ASSUME d # <<>>, cut # <<>>, d[Len(d)] = "c3", cut[1] = "a9" PROVE FALSE
  <2>1. CASE tail = <<>>
    <3>1. a = d
      BY <1>1, <2>1, TextJoined
    <3> QED BY <1>2, <1>8, <2>1, <3>1
  <2>2. CASE tail = <<"c3">>
    <3>1. Len(cut) \in Nat /\ Len(cut) # 0
      BY <1>5, <1>8 DEF Text
    <3>2. cut[1] = bytes[1]
      <4>1. 1 \in 1..Len(cut)
        BY <3>1
      <4> QED BY <1>5, <4>1, Zenon
    <3>3. Len(tail) = 1 /\ tail[1] = "c3"
      BY <2>2
    <3>4. (tail \o b)[1] = tail[1]
      <4>1. \A i \in 1..Len(tail) : (tail \o b)[i] = tail[i]
        BY <1>1, <1>2, TextFacts
      <4>2. 1 \in 1..Len(tail)
        BY <3>3
      <4> QED BY <4>1, <4>2, Zenon
    <3> QED BY <1>1, <1>8, <3>2, <3>3, <3>4
  <2> QED BY <1>2, <2>1, <2>2
<1> QED BY <1>4, <1>5, <1>6, <1>7, <1>8

(* The bytes t have left the control state ansi and an incomplete end, and  *)
(* have been decoded to R.                                                  *)
Decoding(t, ansi, tail, R) ==
  /\ t \in Text /\ ansi \in ANSI
  /\ \E C, D \in Text :
       /\ StripStreamControls("none", t).state = ansi /\ StripStreamControls("none", t).clean = C
       /\ tail = PartialRune(C) /\ C = D \o tail /\ R = Decode(D)

(* Of the bytes b that come next, cut is decoded. *)
Decodes(ansi, tail, b, stripped, bytes, rest, cut) ==
  /\ b \in Text
  /\ stripped = StripStreamControls(ansi, b)
  /\ bytes = tail \o stripped.clean /\ rest = PartialRune(bytes)
  /\ cut = SubSeq(bytes, 1, Len(bytes) - Len(rest))

(* Decoding goes on where it was. *)
LEMMA DecodingGoesOn ==
  ASSUME NEW t, NEW ansi, NEW tail, NEW R, Decoding(t, ansi, tail, R), NEW b, NEW stripped,
         NEW bytes, NEW rest, NEW cut, Decodes(ansi, tail, b, stripped, bytes, rest, cut)
  PROVE  /\ Decode(cut) \in Text /\ R \in Text
         /\ Decoding(t \o b, stripped.state, rest, R \o Decode(cut))
<1>1. PICK C, D \in Text :
        /\ StripStreamControls("none", t).state = ansi /\ StripStreamControls("none", t).clean = C
        /\ tail = PartialRune(C) /\ C = D \o tail /\ R = Decode(D)
  BY DEF Decoding
<1>2. t \in Text /\ ansi \in ANSI /\ "none" \in ANSI /\ b \in Text
  BY DEF Decoding, ANSI, Decodes
<1> DEFINE one == StripStreamControls("none", t)
           more == stripped.clean
<1>3. one.state = ansi /\ one.clean = C
  BY <1>1
<1> HIDE DEF one
<1>5. more \in Text /\ stripped.state \in ANSI
  <2> DEFINE nothing == StripStreamControls(stripped.state, <<>>)
             whole == StripStreamControls(ansi, b \o <<>>)
  <2>1. <<>> \in Text
    BY <1>2, TextJoined
  <2>2. Stripped(ansi, b, <<>>, stripped, nothing, whole, more, nothing.clean)
    BY <1>2, <2>1 DEF Stripped, Decodes
  <2> HIDE DEF nothing, whole, more
  <2> QED BY <2>2, StripTwo
<1>4. /\ StripStreamControls("none", t \o b).state = stripped.state
      /\ StripStreamControls("none", t \o b).clean = C \o more
  <2> DEFINE whole == StripStreamControls("none", t \o b)
  <2>1. Stripped("none", t, b, one, stripped, whole, C, more)
    BY <1>2, <1>3 DEF one, Stripped, Decodes
  <2> HIDE DEF whole, more
  <2>2. whole.state = stripped.state /\ whole.clean = C \o more
    BY <2>1, StripTwo
  <2> QED BY <1>3, <2>2 DEF whole
<1> HIDE DEF more
<1>6. Pieced(C, more, D, tail, bytes, rest, cut)
  BY <1>1, <1>5 DEF Pieced, more, Decodes
<1>7. /\ cut \in Text /\ C \o more \in Text /\ rest \in Text
      /\ rest = PartialRune(C \o more) /\ C \o more = (D \o cut) \o rest
      /\ D # <<>> /\ cut # <<>> => ~(D[Len(D)] = "c3" /\ cut[1] = "a9")
  BY <1>6, PartialTwo
<1>8. Decode(D) \in Text /\ Decode(D \o cut) = Decode(D) \o Decode(cut) /\ D \o cut \in Text
  BY <1>1, <1>7, DecodeTwo, TextFacts
<1>9. Decode(cut) \in Text
  <2>1. <<>> \in Text
    BY <1>2, TextJoined
  <2> QED BY <1>7, <2>1, DecodeTwo
<1>10. t \o b \in Text
  BY <1>2, TextFacts
<1>11. Decoding(t \o b, stripped.state, rest, R \o Decode(cut))
  <2>1. /\ StripStreamControls("none", t \o b).state = stripped.state
        /\ StripStreamControls("none", t \o b).clean = C \o more
    BY <1>4 DEF more
  <2>2. R \o Decode(cut) = Decode(D \o cut)
    BY <1>1, <1>8
  <2> QED BY <1>5, <1>7, <1>8, <1>10, <2>1, <2>2 DEF Decoding
<1> QED BY <1>1, <1>8, <1>9, <1>11

-----------------------------------------------------------------------------
(* Only the empty text is itself twice. *)
LEMMA TwiceNothing == ASSUME NEW u \in Text, u = u \o u PROVE u = <<>>
<1>1. Len(u) \in Nat /\ Len(u) = Len(u) + Len(u)
  BY TextFacts
<1>2. Len(u) = 0
  BY <1>1
<1> QED BY <1>2 DEF Text

(* Of no text, nothing is left by any of the filters. *)
LEMMA NothingFiltered ==
  ASSUME SecretsOK
  PROVE  /\ Safe(<<>>) = <<>> /\ ScrubSecrets(<<>>) = <<>> /\ Redact(<<>>) = <<>>
         /\ Decode(<<>>) = <<>> /\ <<>> \in Text
         /\ StripStreamControls("none", <<>>).state = "none"
         /\ StripStreamControls("none", <<>>).clean = <<>>
<1>0. <<>> \in Text /\ <<>> \o <<>> = <<>> /\ "none" \in ANSI
  <2>1. " " \in Glyphs
    BY DEF Glyphs
  <2>2. <<>> \in Text
    BY <2>1, Letters
  <2> QED BY <2>2, TextJoined DEF ANSI
<1> DEFINE e == <<>>
<1>a. e \in Text /\ e \o e = e
  BY <1>0
<1>1. Safe(e) = e
  <2> DEFINE z == Safe(e)
  <2> HIDE DEF e
  <2>1. z \in Text /\ z = z \o z
    BY <1>a, SafeTwo
  <2> HIDE DEF z
  <2>2. z = <<>>
    BY <2>1, TwiceNothing
  <2> QED BY <2>2 DEF z, e
<1>2. ScrubSecrets(e) = e
  <2> DEFINE z == ScrubSecrets(e)
  <2>b. ~(e # <<>>) /\ Len(e) = 0 /\ DOMAIN e = 1..0
    OBVIOUS
  <2> HIDE DEF e
  <2>c. StandByTheirNames(e \o e) /\ NotAcross(e \o e, Len(e))
    BY <1>a, <2>b DEF StandByTheirNames, NotAcross
  <2>d. ScrubSecrets(e \o e) = ScrubSecrets(e) \o ScrubSecrets(e)
    BY <1>a, <2>b, <2>c, ScrubTwo
  <2>1. z \in Text /\ z = z \o z
    BY <1>a, <2>d, ScrubIs
  <2> HIDE DEF z
  <2>2. z = <<>>
    BY <2>1, TwiceNothing
  <2> QED BY <2>2 DEF z, e
<1>3. Decode(e) = e
  <2> DEFINE z == Decode(e)
  <2>b. ~(e # <<>>)
    OBVIOUS
  <2> HIDE DEF e
  <2>1. z \in Text /\ z = z \o z
    BY <1>a, <2>b, DecodeTwo
  <2> HIDE DEF z
  <2>2. z = <<>>
    BY <2>1, TwiceNothing
  <2> QED BY <2>2 DEF z, e
<1>4. Redact(e) = e
  <2> DEFINE z == Redact(e)
  <2>b. Uncut(e, e)
    <3>1. Len(e) = 0
      OBVIOUS
    <3> HIDE DEF e
    <3> QED BY <3>1 DEF Uncut
  <2> HIDE DEF e
  <2>1. z \in Text /\ z = z \o z
    BY <1>a, <2>b, RedactTwo
  <2> HIDE DEF z
  <2>2. z = <<>>
    BY <2>1, TwiceNothing
  <2> QED BY <2>2 DEF z, e
<1>5. StripStreamControls("none", e).state = "none" /\ StripStreamControls("none", e).clean = e
  <2> DEFINE f == ANSIStates("none", e)
             one == StripStreamControls("none", e)
             z == one.clean
  <2>1. f[0] = "none"
    <3> HIDE DEF f, e
    <3> QED BY <1>0, <1>a, StatesAre DEF f
  <2>2. one.state = "none"
    BY <2>1 DEF StripStreamControls
  <2>3. Stripped("none", e, e, one, one, one, z, z)
    <3> HIDE DEF e
    <3>1. one = StripStreamControls("none", e) /\ one = StripStreamControls("none", e \o e)
      BY <1>a
    <3> HIDE DEF one
    <3> QED BY <1>0, <1>a, <2>2, <3>1 DEF Stripped
  <2> HIDE DEF z, e, f, one
  <2>4. z \in Text /\ one.clean = z \o z
    BY <2>3, StripTwo
  <2>5. z = <<>>
    BY <2>4, TwiceNothing DEF z
  <2> QED BY <2>2, <2>5 DEF z, one, e
<1> QED BY <1>0, <1>1, <1>2, <1>3, <1>4, <1>5

(* A text before anything of it is said. *)
LEMMA NothingSaid ==
  ASSUME SecretsOK
  PROVE  /\ Decoding(<<>>, "none", <<>>, <<>>)
         /\ Redacting(<<>>, FreshRedactor, <<>>)
         /\ Safe(<<>>) = <<>>
<1> USE NothingFiltered
<1>j. <<>> \o <<>> = <<>>
  BY TextJoined
<1>1. PartialRune(<<>>) = <<>>
  BY DEF PartialRune
<1>2. Decoding(<<>>, "none", <<>>, <<>>)
  BY <1>1, <1>j DEF Decoding, ANSI
<1>3. Redacting(<<>>, FreshRedactor, <<>>)
  <2>1. Clean(<<>>, Len(<<>>))
    <3>1. Len(<<>>) = 0
      OBVIOUS
    <3> QED BY <3>1 DEF Clean
  <2>2. FreshRedactor.configured = <<>> /\ FreshRedactor.shape = <<>>
    BY DEF FreshRedactor
  <2>3. Closed(<<>>)
    BY DEF Closed, LinesEnded
  <2> QED BY <1>j, <2>1, <2>2, <2>3 DEF Redacting
<1> QED BY <1>2, <1>3

(* How a text reads that has come whole. *)
LEMMA InOnePieceIs ==
  ASSUME NEW t, NEW ansi, NEW tail, NEW R, Decoding(t, ansi, tail, R)
  PROVE  Received(t) = Redact(R) /\ InOnePiece(t) = Safe(ScrubSecrets(Redact(R)))
<1>1. PICK C, D \in Text :
        /\ StripStreamControls("none", t).state = ansi /\ StripStreamControls("none", t).clean = C
        /\ tail = PartialRune(C) /\ C = D \o tail /\ R = Decode(D)
  BY DEF Decoding
<1> DEFINE m == Len(C) - Len(tail)
           e == SubSeq(C, 1, m)
           rest == SubSeq(C, m + 1, Len(C))
<1>2. tail \in Text
  BY <1>1, PartialIs
<1>3. /\ Len(C) = Len(D) + Len(tail) /\ Len(D) \in Nat /\ Len(tail) \in Nat
      /\ \A i \in 1..Len(D) : (D \o tail)[i] = D[i]
  <2>1. /\ Len(D \o tail) = Len(D) + Len(tail) /\ Len(D) \in Nat /\ Len(tail) \in Nat
        /\ \A i \in 1..Len(D) : (D \o tail)[i] = D[i]
    BY <1>2, TextFacts
  <2> QED BY <1>1, <2>1
<1>4. m = Len(D) /\ m \in 0..Len(C)
  BY <1>3
<1>5. e = D
  <2>1. CutAt(C, m, e, rest)
    <3> HIDE DEF m
    <3> QED BY <1>4 DEF CutAt
  <2> HIDE DEF e, rest, m
  <2>2. e \in Text /\ Len(e) = m /\ \A i \in 1..m : e[i] = C[i]
    BY <2>1, CutTwo
  <2>3. \A i \in 1..Len(D) : e[i] = D[i]
    BY <1>1, <1>3, <1>4, <2>2
  <2>4. e \in Seq(Glyphs) /\ D \in Seq(Glyphs) /\ Len(e) = Len(D)
    BY <1>4, <2>2 DEF Text
  <2> QED BY <2>3, <2>4, SameSequence
<1>6. Received(t) = Redact(Decode(e)) /\ InOnePiece(t) = Safe(ScrubSecrets(Received(t)))
  BY <1>1 DEF InOnePiece, Received
<1> QED BY <1>1, <1>5, <1>6

(* Every filter makes a text of a text. *)
LEMMA FilterIs ==
  ASSUME SecretsOK, NEW u \in Text
  PROVE  Safe(u) \in Text /\ Decode(u) \in Text /\ Redact(u) \in Text
<1>0. <<>> \in Text /\ u \o <<>> = u
  BY TextJoined
<1>1. Uncut(u, <<>>)
  BY <1>0 DEF Uncut, Stands
<1> DEFINE e == <<>>
<1>2. e \in Text /\ ~(e # <<>>)
  BY <1>0
<1>3. Uncut(u, e)
  BY <1>1
<1> HIDE DEF e
<1> QED BY <1>2, <1>3, SafeTwo, DecodeTwo, RedactTwo

(* What is stripped of a text is one, *)
LEMMA StripIs ==
  ASSUME NEW s \in ANSI, NEW u \in Text, NEW one, one = StripStreamControls(s, u)
  PROVE  one.state \in ANSI /\ one.clean \in Text
<1> DEFINE two == StripStreamControls(one.state, <<>>)
           whole == StripStreamControls(s, u \o <<>>)
           c == one.clean
           d == two.clean
<1>1. <<>> \in Text
  BY TextJoined
<1>2. Stripped(s, u, <<>>, one, two, whole, c, d)
  BY <1>1 DEF Stripped
<1> HIDE DEF two, whole, c, d
<1>3. one.state \in ANSI /\ c \in Text
  BY <1>2, StripTwo
<1> QED BY <1>3 DEF c

(* and what is cut of one. *)
LEMMA CutIs ==
  ASSUME NEW u \in Text, NEW m \in 0..Len(u)
  PROVE  SubSeq(u, 1, m) \in Text /\ SubSeq(u, m + 1, Len(u)) \in Text
<1> DEFINE a == SubSeq(u, 1, m)
           b == SubSeq(u, m + 1, Len(u))
<1>1. CutAt(u, m, a, b)
  BY DEF CutAt
<1> HIDE DEF a, b
<1>2. a \in Text /\ b \in Text
  BY <1>1, CutTwo
<1> QED BY <1>2 DEF a, b

(* A redactor holds texts, *)
RedactorTyped(red) == red.configured \in Text /\ red.shape \in Text

(* before and after every piece, and what it shows is one. *)
LEMMA RedactorIs ==
  ASSUME SecretsOK, NEW red, RedactorTyped(red), NEW x \in Text, NEW w, w = RedactorWrite(red, x)
  PROVE  w.shown \in Text /\ RedactorTyped(w.redactor) /\ RedactorFlush(red) \in Text
<1> DEFINE held == red.configured
           unsure == red.shape
           all == held \o x
           free == Len(all) - Withheld(all)
           a == SubSeq(all, 1, free)
           b == SubSeq(all, free + 1, Len(all))
           shape == unsure \o Redact(a)
           cut == Ready(shape)
           d == SubSeq(shape, cut + 1, Len(shape))
<1>1. /\ w.shown = ScrubParts(shape, cut)
      /\ w.redactor.configured = b /\ w.redactor.shape = d
      /\ RedactorFlush(red) = ScrubSecrets(unsure \o Redact(held))
  BY DEF RedactorWrite, RedactorFlush
<1>2. held \in Text /\ unsure \in Text
  BY DEF RedactorTyped
<1> HIDE DEF held, unsure
<1>3. all \in Text /\ Len(all) \in Nat
  <2>1. all \in Text
    BY <1>2, TextFacts
  <2> HIDE DEF all
  <2> QED BY <2>1, TextFacts
<1> HIDE DEF all
<1>4. free \in 0..Len(all)
  <2>1. Withheld(all) \in 0..Len(all)
    BY <1>3, WithheldIs
  <2> QED BY <1>3, <2>1
<1> HIDE DEF free
<1>5. a \in Text /\ b \in Text
  BY <1>3, <1>4, CutIs
<1> HIDE DEF a, b
<1>6. shape \in Text
  <2> DEFINE z == Redact(a)
  <2>1. z \in Text
    BY <1>5, FilterIs
  <2> HIDE DEF z
  <2>2. unsure \o z \in Text
    BY <1>2, <2>1, TextFacts
  <2> QED BY <2>2 DEF z
<1> HIDE DEF shape
<1>7. cut \in 0..Len(shape)
  <2> HIDE DEF cut
  <2> QED BY <1>6, ReadyIs DEF cut
<1> HIDE DEF cut
<1>8. d \in Text
  BY <1>6, <1>7, CutIs
<1> HIDE DEF d
<1>9. unsure \o Redact(held) \in Text
  <2> DEFINE z == Redact(held)
  <2>1. z \in Text
    BY <1>2, FilterIs
  <2> HIDE DEF z
  <2>2. unsure \o z \in Text
    BY <1>2, <2>1, TextFacts
  <2> QED BY <2>2 DEF z
<1>10. w.shown \in Text
  BY <1>1, <1>6, <1>7, PartsAre
<1>11. RedactorFlush(red) \in Text
  BY <1>1, <1>9, ScrubIs
<1> QED BY <1>1, <1>5, <1>8, <1>10, <1>11 DEF RedactorTyped

-----------------------------------------------------------------------------
(* What has been said of the turn, and shown of it. *)
Streaming ==
  \E R, out : /\ Decoding(said, streamANSI, streamTail, R)
              /\ Redacting(R, redactor, out)
              /\ streamText = Safe(out)

Beginning == phase \in {"end", "stop", "join", "ended"} /\ then = "begin"

TextTyped ==
  /\ said \in Text /\ streamText \in Text /\ streamTail \in Text
  /\ streamANSI \in ANSI /\ RedactorTyped(redactor)

TurnTyped ==
  /\ session \in Sessions /\ turn \in 0..Len(session.texts) /\ then \in {"idle", "begin"}
  /\ phase = "begin" \/ Beginning => turn # Len(session.texts)
  /\ phase = "turn" => turn # 0
  /\ TextTyped

ReadAsWhole(shown, t) == StandByTheirNames(Received(t)) => shown = InOnePiece(t)

ReadsWhole ==
  /\ phase = "turn" => Streaming
  /\ phase # "turn" /\ turn > 0 /\ Visible => ReadAsWhole(streamText, said)

StreamInv == TurnTyped /\ (SecretsApart => ReadsWhole)

(* The texts of a session are texts. *)
LEMMA TextsAre ==
  ASSUME SessionsOK, NEW s \in Sessions
  PROVE  /\ Len(s.texts) \in Nat
         /\ \A i \in 1..Len(s.texts) : s.texts[i] \in Seq(STRING) /\ s.texts[i] \in Text
<1>1. s.texts \in Seq(Seq(STRING))
  BY SessionFields
<1>2. ASSUME NEW u \in Seq(STRING) PROVE u \in Text
  <2>1. u \in [1..Len(u) -> STRING] /\ Len(u) \in Nat
    OBVIOUS
  <2>2. \A i \in 1..Len(u) : u[i] \in Glyphs
    BY <2>1 DEF Glyphs
  <2>3. u \in [1..Len(u) -> Glyphs]
    BY <2>1, <2>2
  <2> QED BY <2>1, <2>3 DEF Text
<1> DEFINE V == Seq(STRING)
<1>3. Len(s.texts) \in Nat /\ \A i \in 1..Len(s.texts) : s.texts[i] \in V
  BY <1>1
<1> QED BY <1>2, <1>3

(* A piece of what is said is shown as far as it can be. *)
LEMMA DeltaStreams ==
  ASSUME SecretsOK, SessionsOK, StreamInv, Delta
  PROVE  /\ SecretsApart => Streaming'
         /\ TextTyped'
         /\ \E shown \in Text : /\ streamText' = streamText \o shown
                               /\ streamPending' = streamPending \o shown
<1>1. /\ phase = "turn" /\ turn \in 1..Len(session.texts) /\ session \in Sessions
  BY DEF Delta, StreamInv, TurnTyped
<1>t. /\ said \in Text /\ streamText \in Text /\ streamTail \in Text
      /\ streamANSI \in ANSI /\ RedactorTyped(redactor)
  BY DEF StreamInv, TurnTyped, TextTyped
<1> DEFINE all == session.texts[turn]
<1>3. all \in Text
  BY <1>1, TextsAre
<1>4. PICK n \in Len(said) + 1..Len(all) :
        LET piece == SubSeq(all, Len(said) + 1, n)
            safe == SafeStreamText(piece)
        IN  /\ said' = said \o piece
            /\ streamTail' = safe.tail /\ streamANSI' = safe.ansi
            /\ redactor' = safe.redactor
            /\ streamText' = streamText \o safe.text
            /\ streamPending' = streamPending \o safe.text
  BY DEF Delta
<1> HIDE DEF all
<1> DEFINE piece == SubSeq(all, Len(said) + 1, n)
           stripped == StripStreamControls(streamANSI, piece)
           bytes == streamTail \o stripped.clean
           rest == PartialRune(bytes)
           cut == SubSeq(bytes, 1, Len(bytes) - Len(rest))
           x == Decode(cut)
           w == RedactorWrite(redactor, x)
<1>5. /\ said' = said \o piece /\ streamTail' = rest /\ streamANSI' = stripped.state
      /\ redactor' = w.redactor /\ streamText' = streamText \o Safe(w.shown)
      /\ streamPending' = streamPending \o Safe(w.shown)
  BY <1>4 DEF SafeStreamText
<1>6. piece \in Text
  <2>2. Len(said) \in Nat /\ Len(all) \in Nat
    BY <1>t, <1>3, TextFacts
  <2>3. Len(said) + 1 \in Nat /\ 1 <= Len(said) + 1 /\ n \in Nat
        /\ Len(said) + 1 <= n + 1 /\ n <= Len(all)
    BY <2>2
  <2> DEFINE k == Len(said) + 1
  <2>4. k \in Nat /\ 1 <= k /\ n \in Nat /\ k <= n + 1 /\ n <= Len(all)
    BY <2>3
  <2> HIDE DEF k
  <2>5. SubSeq(all, k, n) \in Seq(Glyphs)
    <3>1. all \in Seq(Glyphs)
      BY <1>3 DEF Text
    <3> QED BY <2>4, <3>1, Stretch
  <2> QED BY <2>5 DEF k, Text
<1> HIDE DEF piece
<1>7. stripped.state \in ANSI /\ stripped.clean \in Text
  BY <1>t, <1>6, StripIs
<1>8. Decodes(streamANSI, streamTail, piece, stripped, bytes, rest, cut)
  BY <1>6 DEF Decodes
<1>9. bytes \in Text
  <2> DEFINE clean == stripped.clean
  <2>1. clean \in Text
    BY <1>7
  <2> HIDE DEF clean, stripped
  <2> QED BY <1>t, <2>1, TextFacts DEF clean
<1> HIDE DEF stripped, bytes
<1>10. rest \in Text /\ Len(rest) \in 0..Len(bytes)
  BY <1>9, PartialIs
<1> HIDE DEF rest
<1>11. cut \in Text
  <2>1. Len(bytes) \in Nat
    BY <1>9, TextFacts
  <2> DEFINE m == Len(bytes) - Len(rest)
  <2>2. m \in 0..Len(bytes)
    BY <1>10, <2>1
  <2> HIDE DEF m
  <2> QED BY <1>9, <2>2, CutIs DEF m
<1> HIDE DEF cut
<1>12. x \in Text
  BY <1>11, FilterIs
<1> HIDE DEF x
<1> DEFINE shown == w.shown
<1>13. shown \in Text /\ RedactorTyped(w.redactor)
  BY <1>t, <1>12, RedactorIs
<1>14. w = RedactorWrite(redactor, x) /\ x = Decode(cut)
  BY DEF x
<1> HIDE DEF w
<1>15. SecretsApart => Streaming'
  <2> SUFFICES ASSUME SecretsApart PROVE Streaming'
    OBVIOUS
  <2>1. PICK R, out : /\ Decoding(said, streamANSI, streamTail, R)
                      /\ Redacting(R, redactor, out)
                      /\ streamText = Safe(out)
    BY <1>1 DEF StreamInv, ReadsWhole, Streaming
  <2>2. Decoding(said \o piece, stripped.state, rest, R \o x)
    BY <1>8, <1>14, <2>1, DecodingGoesOn
  <2>3. Redacting(R \o x, w.redactor, out \o w.shown)
    BY <1>12, <1>14, <2>1, RedactingGoesOn
  <2>4. out \in Text
    BY <2>1, RedactingEnds
  <2>5. out \o w.shown = out \o shown
    OBVIOUS
  <2>6. Safe(w.shown) = Safe(shown)
    OBVIOUS
  <2> HIDE DEF shown
  <2>7. Safe(out \o shown) = Safe(out) \o Safe(shown)
    BY <1>13, <2>4, SafeTwo
  <2>8. streamText' = Safe(out \o shown)
    BY <1>5, <2>1, <2>6, <2>7
  <2>9. Decoding(said', streamANSI', streamTail', R \o x)
    BY <1>5, <2>2
  <2>10. Redacting(R \o x, redactor', out \o shown)
    BY <1>5, <2>3, <2>5
  <2> QED BY <2>8, <2>9, <2>10 DEF Streaming
<1>16. Safe(w.shown) \in Text
  BY <1>13, FilterIs
<1> DEFINE more == Safe(w.shown)
<1>17. /\ more \in Text /\ said' = said \o piece /\ streamText' = streamText \o more
       /\ streamPending' = streamPending \o more
  BY <1>5, <1>16
<1> HIDE DEF more, shown
<1>18. said \o piece \in Text /\ streamText \o more \in Text
  BY <1>t, <1>6, <1>17, TextFacts
<1>19. TextTyped'
  <2>1. said' \in Text /\ streamText' \in Text
    BY <1>17, <1>18
  <2> QED BY <1>5, <1>7, <1>10, <1>13, <2>1 DEF TextTyped
<1> QED BY <1>15, <1>17, <1>19

(* At its end a turn reads as if it had come in one piece. *)
LEMMA TurnEndsWhole ==
  ASSUME SecretsOK, StreamInv, TurnEnd
  PROVE  /\ SecretsApart => ReadAsWhole(streamText', said)
         /\ TextTyped'
         /\ \E shown \in Text : /\ streamText' = streamText \o shown
                               /\ streamPending' = streamPending \o shown
<1> DEFINE rest == RedactorFlush(redactor)
<1>1. /\ phase = "turn" /\ said' = said /\ streamTail' = <<>> /\ streamANSI' = "none"
      /\ redactor' = FreshRedactor
      /\ streamText' = streamText \o Safe(rest) /\ streamPending' = streamPending \o Safe(rest)
  BY DEF TurnEnd
<1>2. said \in Text /\ streamText \in Text /\ RedactorTyped(redactor)
  BY DEF StreamInv, TurnTyped, TextTyped
<1>3. rest \in Text
  <2>1. <<>> \in Text
    BY NothingFiltered
  <2> HIDE DEF rest
  <2> QED BY <1>2, <2>1, RedactorIs DEF rest
<1>4. SecretsApart => ReadAsWhole(streamText', said)
  <2> SUFFICES ASSUME SecretsApart, StandByTheirNames(Received(said)) PROVE streamText' = InOnePiece(said)
    BY DEF ReadAsWhole
  <2>1. PICK R, out : /\ Decoding(said, streamANSI, streamTail, R)
                      /\ Redacting(R, redactor, out)
                      /\ streamText = Safe(out)
    BY <1>1 DEF StreamInv, ReadsWhole, Streaming
  <2>4. Received(said) = Redact(R) /\ InOnePiece(said) = Safe(ScrubSecrets(Redact(R)))
    BY <2>1, InOnePieceIs
  <2>2. out \in Text /\ ScrubSecrets(Redact(R)) = out \o rest
    BY <2>1, <2>4, RedactingEnds
  <2> HIDE DEF rest
  <2>3. Safe(out \o rest) = Safe(out) \o Safe(rest)
    BY <1>3, <2>2, SafeTwo
  <2> QED BY <1>1, <2>1, <2>2, <2>3, <2>4
<1> DEFINE more == Safe(rest)
<1>5. more \in Text
  <2> HIDE DEF rest
  <2> QED BY <1>3, FilterIs
<1>6. streamText' = streamText \o more /\ streamPending' = streamPending \o more
  BY <1>1
<1> HIDE DEF more
<1>7. streamText \o more \in Text
  BY <1>2, <1>5, TextFacts
<1>8. TextTyped'
  <2>1. streamText' \in Text
    BY <1>6, <1>7
  <2>2. <<>> \in Text /\ "none" \in ANSI /\ RedactorTyped(FreshRedactor)
    BY NothingFiltered DEF ANSI, RedactorTyped, FreshRedactor
  <2> QED BY <1>1, <1>2, <2>1, <2>2 DEF TextTyped
<1> QED BY <1>4, <1>5, <1>6, <1>8

-----------------------------------------------------------------------------
(* What a turn begins with. *)
LEMMA FreshTyped ==
  ASSUME SecretsOK PROVE <<>> \in Text /\ "none" \in ANSI /\ RedactorTyped(FreshRedactor)
BY NothingFiltered DEF ANSI, RedactorTyped, FreshRedactor

(* Nothing has been said at first. *)
LEMMA InitStream == ASSUME SecretsOK, SessionsOK, TerminalInit PROVE StreamInv
<1>1. session \in Sessions /\ turn = 0 /\ phase = "idle" /\ then = "idle"
  BY DEF TerminalInit
<1>2. Len(session.texts) \in Nat
  BY <1>1, TextsAre
<1>3. TextTyped
  <2>1. /\ said = <<>> /\ streamText = <<>> /\ streamTail = <<>> /\ streamANSI = "none"
        /\ redactor = FreshRedactor
    BY DEF TerminalInit
  <2> QED BY <2>1, FreshTyped DEF TextTyped
<1> QED BY <1>1, <1>2, <1>3 DEF StreamInv, TurnTyped, ReadsWhole, Beginning

(* A step that leaves the text alone, and begins or ends no turn. *)
LEMMA StreamKept ==
  ASSUME StreamInv, UNCHANGED <<session, turn, text>>, phase' = "turn" <=> phase = "turn",
         phase' = "begin" \/ Beginning' => phase = "begin" \/ Beginning,
         then' \in {"idle", "begin"}
  PROVE  StreamInv'
<1>1. Streaming <=> Streaming'
  BY DEF Streaming, text
<1>2. ReadAsWhole(streamText, said) <=> ReadAsWhole(streamText', said')
  BY DEF text
<1>3. Visible <=> Visible'
  BY DEF Visible
<1>4. TextTyped'
  BY DEF StreamInv, TurnTyped, TextTyped, text
<1> QED BY <1>1, <1>2, <1>3, <1>4 DEF StreamInv, TurnTyped, ReadsWhole

(* A turn is streamed from its beginning to its end. *)
LEMMA TurnsKeepStream ==
  ASSUME SecretsOK, SessionsOK, StreamInv, Turns PROVE StreamInv'
<1>t. then \in {"idle", "begin"} /\ Len(session.texts) \in Nat
  BY TextsAre DEF StreamInv, TurnTyped
<1>x. UNCHANGED text => TextTyped'
  BY DEF StreamInv, TurnTyped, TextTyped, text
<1>1. CASE QuietTurn
  <2>1. /\ phase = "idle" /\ phase' = "idle" /\ ~Visible /\ turn' = turn + 1
        /\ turn < Len(session.texts) /\ UNCHANGED <<session, text, then>>
    BY <1>1 DEF QuietTurn
  <2>2. ~Visible'
    BY <2>1 DEF Visible
  <2>3. turn' \in 0..Len(session.texts)
    BY <1>t, <2>1 DEF StreamInv, TurnTyped
  <2> QED BY <1>x, <2>1, <2>2, <2>3 DEF StreamInv, TurnTyped, ReadsWhole, Beginning
<1>2. CASE TurnStart
  <2>1. /\ phase = "idle" /\ phase' = "end" /\ then' = "begin"
        /\ turn < Len(session.texts) /\ UNCHANGED <<session, turn, text>>
    BY <1>2 DEF TurnStart
  <2>2. turn # Len(session.texts)
    BY <1>t, <2>1 DEF StreamInv, TurnTyped
  <2>3. ReadAsWhole(streamText, said) <=> ReadAsWhole(streamText', said')
    BY <2>1 DEF text
  <2> QED BY <1>x, <2>1, <2>2, <2>3 DEF StreamInv, TurnTyped, ReadsWhole, Visible
<1>3. CASE TakeStop
  <2>1. /\ phase = "end" /\ phase' \in {"ended", "stop"} /\ UNCHANGED <<session, turn, text, then>>
    BY <1>3 DEF TakeStop
  <2> QED BY <1>t, <2>1, StreamKept DEF Beginning
<1>4. CASE CloseStop
  <2>1. /\ phase = "stop" /\ phase' = "join" /\ UNCHANGED <<session, turn, text, then>>
    BY <1>4 DEF CloseStop
  <2> QED BY <1>t, <2>1, StreamKept DEF Beginning
<1>5. CASE JoinAnimation
  <2>1. /\ phase = "join" /\ phase' = "ended" /\ UNCHANGED <<session, turn, text, then>>
    BY <1>5 DEF JoinAnimation, threads
  <2> QED BY <1>t, <2>1, StreamKept DEF Beginning
<1>6. CASE EndLine
  <2>1. /\ phase = "ended" /\ phase' = then /\ UNCHANGED <<session, turn, text, then>>
    BY <1>6 DEF EndLine, threads
  <2> QED BY <1>t, <2>1, StreamKept DEF Beginning
<1>7. CASE BeginTurn
  <2>1. /\ phase = "begin" /\ phase' = "turn" /\ turn' = turn + 1 /\ UNCHANGED <<session, then>>
        /\ said' = <<>> /\ streamText' = <<>> /\ streamTail' = <<>> /\ streamANSI' = "none"
        /\ redactor' = FreshRedactor
    BY <1>7 DEF BeginTurn
  <2>2. turn' \in 0..Len(session.texts) /\ turn' # 0
    BY <1>t, <2>1 DEF StreamInv, TurnTyped
  <2>3. Streaming'
    <3>1. /\ Decoding(said', streamANSI', streamTail', <<>>)
          /\ Redacting(<<>>, redactor', <<>>)
          /\ streamText' = Safe(<<>>)
      BY <2>1, NothingSaid
    <3> QED BY <3>1 DEF Streaming
  <2>4. TextTyped'
    BY <2>1, FreshTyped DEF TextTyped
  <2> QED BY <1>t, <2>1, <2>2, <2>3, <2>4 DEF StreamInv, TurnTyped, ReadsWhole, Beginning
<1>8. CASE Delta
  <2>1. /\ phase = "turn" /\ phase' = "turn" /\ UNCHANGED <<session, turn, then>>
    BY <1>8 DEF Delta, threads
  <2>2. TextTyped' /\ (SecretsApart => Streaming')
    BY <1>8, DeltaStreams
  <2> QED BY <1>t, <2>1, <2>2 DEF StreamInv, TurnTyped, ReadsWhole, Beginning
<1>9. CASE TurnEnd
  <2>1. /\ phase = "turn" /\ phase' = "end" /\ then' = "idle" /\ UNCHANGED <<session, turn, said>>
    BY <1>9 DEF TurnEnd
  <2>2. TextTyped' /\ (SecretsApart => ReadAsWhole(streamText', said))
    BY <1>9, TurnEndsWhole
  <2>3. ReadAsWhole(streamText', said') <=> ReadAsWhole(streamText', said)
    BY <2>1
  <2> QED BY <1>t, <2>1, <2>2, <2>3 DEF StreamInv, TurnTyped, ReadsWhole, Beginning
<1> QED BY <1>1, <1>2, <1>3, <1>4, <1>5, <1>6, <1>7, <1>8, <1>9 DEF Turns, EndStream

(* Neither an animation nor a prompt nor the operator changes the text. *)
LEMMA NextStream ==
  ASSUME SecretsOK, SessionsOK, StreamInv, [TerminalNext]_terminalVars
  PROVE  StreamInv'
<1>t. then \in {"idle", "begin"}
  BY DEF StreamInv, TurnTyped
<1>k. ASSUME UNCHANGED <<session, turn, text, then>>,
             phase' = phase \/ (phase \notin {"turn", "begin"} /\ phase' \in {"idle"} \cup AtPrompt)
      PROVE  StreamInv'
  BY <1>t, <1>k, StreamKept DEF Beginning, AtPrompt
<1>1. CASE Turns
  BY <1>1, TurnsKeepStream
<1>2. CASE Prompts
  <2> USE DEF threads, AtPrompt
  <2>1. CASE Pose
    BY <1>k, <2>1 DEF Pose
  <2>2. CASE Asks
    BY <1>k, <2>2 DEF Asks, AskSilenced, AskCatchesUp, AskDiscards, AskPrompts
  <2>3. CASE Reads
    <3>1. \E answer, error : Hears(answer, error)
      BY <2>3 DEF Reads, ReadLine, ReadEnd, ReadTooLong, ReadBreaks
    <3> QED BY <1>k, <3>1 DEF Hears
  <2>4. CASE NoAnswer
    BY <1>k, <2>4 DEF NoAnswer, Weighed
  <2>5. CASE Conclude
    BY <1>k, <2>5 DEF Conclude, Weighed
  <2>6. CASE AskAgain
    BY <1>k, <2>6 DEF AskAgain, Weighed
  <2> QED BY <1>2, <2>1, <2>2, <2>3, <2>4, <2>5, <2>6 DEF Prompts
<1>3. CASE \E g \in Generations(session) : Animation(g)
  BY <1>k, <1>3 DEF Animation, Stopped, Tick
<1>4. CASE Type
  BY <1>k, <1>4 DEF Type, threads
<1>5. CASE Rest
  BY <1>k, <1>5 DEF Rest, terminalVars, threads
<1>6. CASE UNCHANGED terminalVars
  BY <1>k, <1>6 DEF terminalVars, threads
<1> QED BY <1>1, <1>2, <1>3, <1>4, <1>5, <1>6 DEF TerminalNext

-----------------------------------------------------------------------------
(* What of a turn stands on the line and what is pending are its text, from *)
(* when it is named on; before that all of it is pending.                   *)
OnTheLine(on, pending, named, t) ==
  /\ on \in Text /\ pending \in Text /\ t \in Text
  /\ named => on \o pending = <<Name>> \o t /\ t # <<>>
  /\ ~named => pending = t

Without(u, x) == \A i \in 1..Len(u) : u[i] # x

(* Once the turn is over its text stands above, at the beginning. *)
StandsAbove ==
  /\ streamed => streamText # <<>> /\ \E rest \in Text : above = (<<Name>> \o streamText) \o rest
  /\ ~streamed => streamText = <<>> /\ Without(above, Name)

Ending == phase \in {"end", "stop", "join", "ended"} /\ then = "idle"

ScreenInv ==
  /\ above \in Text /\ streamText \in Text
  /\ streaming => /\ above = <<>> /\ OnTheLine(line, streamPending, streamed, streamText)
                  /\ phase = "turn" \/ Ending
  /\ ~streaming => StandsAbove /\ line \in {<<>>, <<Prompt>>}
  /\ phase = "read" => line = <<Prompt>>
  /\ phase \in AtPrompt /\ Kind = "clarify" => ~Without(above, Question)

(* The terms on the screen that are not of the text. *)
LEMMA Stamps ==
  /\ <<Name>> \in Text /\ <<Thinking>> \in Text /\ <<Prompt>> \in Text /\ <<>> \in Text
  /\ <<"heading">> \in Text /\ <<Question>> \in Text /\ <<"invalid">> \in Text
  /\ <<"heading", Question>> \in Text
<1>1. /\ Name \in Glyphs /\ Thinking \in Glyphs /\ Prompt \in Glyphs /\ "heading" \in Glyphs
      /\ Question \in Glyphs /\ "invalid" \in Glyphs
  BY DEF Glyphs
<1>2. <<"heading", Question>> \in Seq(Glyphs)
  BY <1>1
<1> QED BY <1>1, <1>2, Letters DEF Text

(* A sequence that is appended adds what it has, and no more. *)
LEMMA WithoutTwo ==
  ASSUME NEW a \in Text, NEW b \in Text, NEW x
  PROVE  Without(a \o b, x) <=> Without(a, x) /\ Without(b, x)
<1> DEFINE m == Len(a)
           n == Len(b)
           c == a \o b
<1>1. /\ m \in Nat /\ n \in Nat /\ Len(c) = m + n
      /\ \A i \in 1..m : c[i] = a[i]
      /\ \A i \in 1..n : c[m + i] = b[i]
  BY TextFacts
<1> HIDE DEF m, n, c
<1>2. ASSUME NEW i \in 1..m + n PROVE i \in 1..m \/ \E k \in 1..n : i = m + k
  <2>1. CASE i <= m
    BY <1>1, <2>1
  <2>2. CASE ~(i <= m)
    <3>1. i - m \in 1..n /\ i = m + (i - m)
      BY <1>1, <2>2
    <3> QED BY <3>1
  <2> QED BY <2>1, <2>2
<1>3. \A i \in 1..m : i \in 1..m + n
  BY <1>1
<1>4. \A i \in 1..n : m + i \in 1..m + n
  BY <1>1
<1>5. (\A i \in 1..m + n : c[i] # x) <=> (\A i \in 1..m : a[i] # x) /\ (\A i \in 1..n : b[i] # x)
  BY <1>1, <1>2, <1>3, <1>4
<1> QED BY <1>1, <1>5 DEF Without, m, n, c

(* What a flush makes of the line. *)
LEMMA FlushIs ==
  ASSUME NEW on, NEW named, named <=> streamed \/ streamPending # <<>>,
         OnTheLine(on, streamPending, streamed, streamText)
  PROVE  OnTheLine(Flushed(streamPending, on), <<>>, named, streamText)
<1>1. /\ on \in Text /\ streamPending \in Text /\ streamText \in Text
      /\ streamed => on \o streamPending = <<Name>> \o streamText /\ streamText # <<>>
      /\ ~streamed => streamPending = streamText
  BY DEF OnTheLine
<1>2. /\ <<>> \in Text /\ on \o <<>> = on
      /\ <<Name>> \o streamText \in Text /\ (<<Name>> \o streamText) \o <<>> = <<Name>> \o streamText
  <2> DEFINE w == <<Name>> \o streamText
  <2>1. w \in Text
    BY <1>1, Stamps, TextFacts
  <2> HIDE DEF w
  <2>2. w \in Text /\ w \o <<>> = w
    BY <2>1, TextJoined
  <2> QED BY <1>1, <2>2, TextJoined DEF w
<1>3. CASE streamPending = <<>>
  <2>1. Flushed(streamPending, on) = on
    BY <1>3 DEF Flushed
  <2> QED BY <1>1, <1>2, <1>3, <2>1 DEF OnTheLine
<1>4. CASE streamPending # <<>> /\ ~streamed
  <2>1. Flushed(streamPending, on) = <<Name>> \o streamPending
    BY <1>4 DEF Flushed
  <2>2. Flushed(streamPending, on) = <<Name>> \o streamText /\ streamText # <<>>
    BY <1>1, <1>4, <2>1
  <2> QED BY <1>1, <1>2, <1>4, <2>2 DEF OnTheLine
<1>5. CASE streamPending # <<>> /\ streamed
  <2>1. Flushed(streamPending, on) = on \o streamPending
    BY <1>5 DEF Flushed
  <2>2. Flushed(streamPending, on) = <<Name>> \o streamText /\ streamText # <<>>
    BY <1>1, <1>5, <2>1
  <2> QED BY <1>1, <1>2, <1>5, <2>2 DEF OnTheLine
<1> QED BY <1>3, <1>4, <1>5

(* What more is said is pending. *)
LEMMA MoreIsPending ==
  ASSUME NEW on, NEW pending, NEW named, NEW t, OnTheLine(on, pending, named, t),
         NEW more \in Text, NEW p, p = pending \o more, NEW u, u = t \o more
  PROVE  OnTheLine(on, p, named, u)
<1>1. /\ on \in Text /\ pending \in Text /\ t \in Text
      /\ named => on \o pending = <<Name>> \o t /\ t # <<>>
      /\ ~named => pending = t
  BY DEF OnTheLine
<1>2. p \in Text /\ u \in Text
  <2>1. pending \o more \in Text /\ t \o more \in Text
    BY <1>1, TextFacts
  <2> QED BY <2>1
<1>3. ASSUME named PROVE on \o p = <<Name>> \o u
  <2>1. (on \o pending) \o more = on \o (pending \o more)
    <3>1. on \in Text /\ pending \in Text /\ more \in Text
      BY <1>1
    <3> QED BY ONLY <3>1, TextJoined
  <2>2. (<<Name>> \o t) \o more = <<Name>> \o (t \o more)
    <3>1. <<Name>> \in Text /\ t \in Text /\ more \in Text
      BY <1>1, Stamps
    <3> QED BY ONLY <3>1, TextJoined
  <2>3. on \o pending = <<Name>> \o t
    BY <1>1, <1>3
  <2> QED BY <2>1, <2>2, <2>3
<1>4. ASSUME t # <<>> PROVE u # <<>>
  <2>1. Len(t) \in Nat /\ Len(more) \in Nat /\ Len(t \o more) = Len(t) + Len(more)
    BY <1>1, TextFacts
  <2>2. Len(t) # 0
    BY <1>1, <1>4 DEF Text
  <2>3. Len(t \o more) # 0
    BY <2>1, <2>2
  <2>4. Len(u) # 0
    BY <2>3
  <2> QED BY <2>4
<1> QED BY <1>1, <1>2, <1>3, <1>4 DEF OnTheLine

(* What is written under a text leaves it where it is. *)
LEMMA WrittenBelow ==
  ASSUME StandsAbove, above \in Text, streamText \in Text, NEW x \in Text, Without(x, Name),
         above' = above \o x, streamed' = streamed, streamText' = streamText
  PROVE  /\ StandsAbove' /\ above' \in Text
         /\ ~Without(above, Question) \/ ~Without(x, Question) => ~Without(above', Question)
<1>1. above \o x \in Text
  BY TextFacts
<1>2. \A c : Without(above \o x, c) <=> Without(above, c) /\ Without(x, c)
  BY WithoutTwo
<1>3. ASSUME streamed PROVE \E rest \in Text : above' = (<<Name>> \o streamText) \o rest
  <2>1. PICK rest \in Text : above = (<<Name>> \o streamText) \o rest
    BY <1>3 DEF StandsAbove
  <2> DEFINE w == <<Name>> \o streamText
  <2>2. w \in Text /\ above = w \o rest
    BY <2>1, Stamps, TextFacts
  <2> HIDE DEF w
  <2>3. (w \o rest) \o x = w \o (rest \o x) /\ rest \o x \in Text
    <3>1. w \in Text /\ rest \in Text /\ x \in Text
      BY <2>2
    <3>2. (w \o rest) \o x = w \o (rest \o x)
      BY ONLY <3>1, TextJoined
    <3>3. rest \o x \in Text
      BY ONLY <3>1, TextFacts
    <3> QED BY <3>2, <3>3
  <2>4. above' = w \o (rest \o x)
    BY <2>2, <2>3
  <2> QED BY <2>3, <2>4 DEF w
<1> QED BY <1>1, <1>2, <1>3 DEF StandsAbove

-----------------------------------------------------------------------------
(* The screen is empty at first. *)
LEMMA InitScreen == ASSUME TerminalInit PROVE ScreenInv
<1>1. /\ above = <<>> /\ line = <<>> /\ streamText = <<>> /\ streaming = FALSE /\ streamed = FALSE
      /\ phase = "idle"
  BY DEF TerminalInit
<1>2. Without(above, Name)
  <2>1. Len(above) = 0
    BY <1>1
  <2> QED BY <2>1 DEF Without
<1> QED BY <1>1, <1>2, Stamps DEF ScreenInv, StandsAbove, AtPrompt

(* A step that leaves the screen and the text alone. *)
LEMMA ScreenKept ==
  ASSUME ScreenInv, UNCHANGED <<session, asks, streamText, flags, screen>>,
         streaming => phase' = "turn" \/ Ending',
         phase' = "read" => phase = "read", phase' \in AtPrompt => phase \in AtPrompt
  PROVE  ScreenInv'
<1> USE DEF flags, screen
<1>1. StandsAbove <=> StandsAbove'
  BY DEF StandsAbove
<1>2. OnTheLine(line, streamPending, streamed, streamText)
        <=> OnTheLine(line', streamPending', streamed', streamText')
  BY DEF OnTheLine
<1>3. Kind' = Kind
  BY DEF Kind
<1>4. Without(above, Question) <=> Without(above', Question)
  BY DEF Without
<1> QED BY <1>1, <1>2, <1>3, <1>4 DEF ScreenInv

(* The end of a turn puts the line with its text above. *)
LEMMA EndLineKeepsScreen ==
  ASSUME StreamInv, ScreenInv, EndLine PROVE ScreenInv'
<1>1. /\ phase = "ended" /\ phase' = then /\ then \in {"idle", "begin"}
      /\ UNCHANGED <<session, text, asks>>
  BY DEF EndLine, StreamInv, TurnTyped, asking
<1>2. phase' \notin AtPrompt
  BY <1>1 DEF AtPrompt
<1>3. CASE ~streaming
  BY <1>1, <1>2, <1>3, ScreenKept DEF EndLine, text, AtPrompt
<1>4. CASE streaming
  <2> DEFINE named == (streamed \/ streamPending # <<>>)
             shown == Flushed(streamPending, line)
  <2>1. /\ streaming' = FALSE /\ streamed' = named /\ line' = <<>>
        /\ above' = IF streamed' THEN above \o shown ELSE above
        /\ streamText' = streamText
    BY <1>1, <1>4 DEF EndLine, text
  <2>2. above = <<>> /\ OnTheLine(line, streamPending, streamed, streamText)
    BY <1>4 DEF ScreenInv
  <2>3. OnTheLine(shown, <<>>, named, streamText)
    BY <2>2, FlushIs
  <2>a. streamed' <=> named
    BY <2>1
  <2> HIDE DEF named, shown
  <2>4. /\ shown \in Text /\ streamText \in Text
        /\ named => shown \o <<>> = <<Name>> \o streamText /\ streamText # <<>>
        /\ ~named => <<>> = streamText
    BY <2>3 DEF OnTheLine
  <2>5. <<>> \o shown = shown /\ shown \o <<>> = shown /\ <<>> \in Text
    BY <2>4, TextJoined
  <2>6. ASSUME named PROVE StandsAbove' /\ above' \in Text
    <3>1. above' = shown
      BY <2>1, <2>2, <2>a, <2>5, <2>6
    <3> DEFINE w == <<Name>> \o streamText
    <3>2. w \in Text /\ shown = w
      BY <2>4, <2>5, <2>6
    <3>3. w \o <<>> = w
      <4> HIDE DEF w
      <4> QED BY <3>2, TextJoined
    <3>4. above' = w \o <<>> /\ above' \in Text
      BY <2>4, <3>1, <3>2, <3>3
    <3>5. above' = (<<Name>> \o streamText') \o <<>>
      BY <2>1, <3>4
    <3> QED BY <2>1, <2>4, <2>5, <2>6, <2>a, <3>4, <3>5 DEF StandsAbove
  <2>7. ASSUME ~named PROVE StandsAbove' /\ above' \in Text
    <3>1. above' = <<>> /\ streamText' = <<>>
      BY <2>1, <2>2, <2>4, <2>a, <2>7
    <3>2. Without(above', Name)
      <4>1. Len(above') = 0
        BY <3>1
      <4> QED BY <4>1 DEF Without
    <3> QED BY <2>5, <2>7, <2>a, <3>1, <3>2 DEF StandsAbove
  <2>8. StandsAbove' /\ above' \in Text
    BY <2>6, <2>7
  <2> QED BY <1>1, <1>2, <2>1, <2>4, <2>8 DEF ScreenInv, AtPrompt
<1> QED BY <1>3, <1>4

(* A turn writes on the line alone. *)
LEMMA TurnsKeepScreen ==
  ASSUME SecretsOK, SessionsOK, StreamInv, ScreenInv, Turns PROVE ScreenInv'
<1> USE DEF AtPrompt
<1>a. /\ streaming => above = <<>> /\ OnTheLine(line, streamPending, streamed, streamText)
      /\ streaming => phase = "turn" \/ Ending
  BY DEF ScreenInv
<1>1. CASE QuietTurn
  BY <1>1, ScreenKept, <1>a DEF QuietTurn, text, Ending, asking
<1>2. CASE TurnStart
  BY <1>2, ScreenKept, <1>a DEF TurnStart, text, Ending, asking
<1>3. CASE TakeStop
  BY <1>3, ScreenKept, <1>a DEF TakeStop, text, Ending, asking
<1>4. CASE CloseStop
  BY <1>4, ScreenKept, <1>a DEF CloseStop, text, Ending, asking
<1>5. CASE JoinAnimation
  BY <1>5, ScreenKept, <1>a DEF JoinAnimation, text, Ending, asking, threads
<1>6. CASE EndLine
  BY <1>6, EndLineKeepsScreen
<1>7. CASE BeginTurn
  <2>1. /\ phase' = "turn" /\ streaming' = TRUE /\ streamed' = FALSE
        /\ streamText' = <<>> /\ streamPending' = <<>> /\ line' = <<Thinking>> /\ above' = <<>>
    BY <1>7 DEF BeginTurn, WriteThinking
  <2>2. OnTheLine(line', streamPending', streamed', streamText')
    BY <2>1, Stamps DEF OnTheLine
  <2> QED BY <2>1, <2>2, Stamps DEF ScreenInv
<1>8. CASE Delta
  <2>1. /\ phase = "turn" /\ phase' = "turn" /\ streaming
        /\ UNCHANGED <<session, asks, streaming, streamed, above, line>>
    BY <1>8 DEF Delta, screen, asking
  <2>2. PICK more \in Text : streamText' = streamText \o more /\ streamPending' = streamPending \o more
    BY <1>8, DeltaStreams
  <2>3. OnTheLine(line, streamPending', streamed, streamText')
    BY <1>a, <2>1, <2>2, MoreIsPending
  <2>4. OnTheLine(line', streamPending', streamed', streamText') /\ streamText' \in Text
    BY <2>1, <2>3 DEF OnTheLine
  <2> QED BY <1>a, <2>1, <2>4, Stamps DEF ScreenInv
<1>9. CASE TurnEnd
  <2>1. /\ phase = "turn" /\ phase' = "end" /\ then' = "idle" /\ streaming
        /\ UNCHANGED <<session, asks, streaming, streamed, above, line>>
    BY <1>9 DEF TurnEnd, screen, asking
  <2>2. PICK more \in Text : streamText' = streamText \o more /\ streamPending' = streamPending \o more
    BY <1>9, TurnEndsWhole
  <2>3. OnTheLine(line, streamPending', streamed, streamText')
    BY <1>a, <2>1, <2>2, MoreIsPending
  <2>4. OnTheLine(line', streamPending', streamed', streamText') /\ streamText' \in Text
    BY <2>1, <2>3 DEF OnTheLine
  <2> QED BY <1>a, <2>1, <2>4, Stamps DEF ScreenInv, Ending
<1> QED BY <1>1, <1>2, <1>3, <1>4, <1>5, <1>6, <1>7, <1>8, <1>9 DEF Turns, EndStream

(* The animation rewrites its own frame, and what is pending is written     *)
(* behind what stands there.                                                *)
LEMMA AnimationKeepsScreen ==
  ASSUME ScreenInv, NEW g, Animation(g) PROVE ScreenInv'
<1>0. /\ UNCHANGED <<session, phase, then, streamText, asks>>
  BY DEF Animation, Stopped, Tick, text, asking
<1>1. CASE UNCHANGED <<flags, screen>>
  BY <1>0, <1>1, ScreenKept DEF Ending, ScreenInv
<1>2. CASE Tick(g) /\ streaming
  <2>a. above = <<>> /\ OnTheLine(line, streamPending, streamed, streamText)
        /\ (phase = "turn" \/ Ending)
    BY <1>2 DEF ScreenInv
  <2>1. PICK spin, flush \in BOOLEAN :
          LET spun == IF spin /\ ~streamed THEN <<Thinking>> ELSE line
          IN  IF flush
                THEN /\ line' = Flushed(streamPending, spun)
                     /\ streamed' = (streamed \/ streamPending # <<>>)
                     /\ streamPending' = <<>>
                ELSE line' = spun /\ UNCHANGED <<streamed, streamPending>>
    BY <1>2 DEF Tick
  <2>2. UNCHANGED <<streaming, above>>
    BY <1>2 DEF Tick
  <2> DEFINE spun == IF spin /\ ~streamed THEN <<Thinking>> ELSE line
  <2>3. OnTheLine(spun, streamPending, streamed, streamText)
    <3>1. CASE streamed
      <4>1. spun = line
        BY <3>1
      <4> QED BY <2>a, <4>1
    <3>2. CASE ~streamed
      <4>1. spun \in Text
        BY <2>a, Stamps DEF OnTheLine
      <4> HIDE DEF spun
      <4> QED BY <2>a, <3>2, <4>1 DEF OnTheLine
    <3> QED BY <3>1, <3>2
  <2>4. CASE flush
    <3>1. /\ line' = Flushed(streamPending, spun)
          /\ streamed' = (streamed \/ streamPending # <<>>)
          /\ streamPending' = <<>>
      BY <2>1, <2>4
    <3> HIDE DEF spun
    <3> DEFINE named == streamed'
    <3>2. named <=> streamed \/ streamPending # <<>>
      BY <3>1
    <3> HIDE DEF named
    <3>3. OnTheLine(Flushed(streamPending, spun), <<>>, named, streamText)
      BY <2>3, <3>2, FlushIs
    <3>4. OnTheLine(line', streamPending', streamed', streamText')
      BY <1>0, <3>1, <3>3 DEF named
    <3> QED BY <1>0, <1>2, <2>a, <2>2, <3>4 DEF ScreenInv, Ending, AtPrompt
  <2>5. CASE ~flush
    <3>1. line' = spun /\ UNCHANGED <<streamed, streamPending>>
      BY <2>1, <2>5
    <3> HIDE DEF spun
    <3>2. OnTheLine(line', streamPending', streamed', streamText')
      BY <1>0, <2>3, <3>1
    <3> QED BY <1>0, <1>2, <2>a, <2>2, <3>2 DEF ScreenInv, Ending, AtPrompt
  <2> QED BY <2>4, <2>5
<1> QED BY <1>1, <1>2 DEF Animation, Stopped, Tick

-----------------------------------------------------------------------------
(* What leads to a prompt names nobody, and Clarify's question is in it     *)
(* unless it is in the turn.                                                *)
LEMMA LeadIs ==
  ASSUME NEW kind, NEW x, x = Lead(kind)
  PROVE  /\ x \in Text /\ Without(x, Name)
         /\ kind = "clarify" => ~Without(x, Question) \/ (streamed /\ Contains(streamText, Question))
<1>1. x \in {<<"heading">>, <<"heading", Question>>, <<Question>>, <<>>}
  BY DEF Lead
<1>2. Name # "heading" /\ Name # Question
  BY DEF Name, Question
<1>3. CASE x = <<"heading">>
  <2>1. Len(x) = 1 /\ x[1] = "heading"
    BY <1>3
  <2>2. Without(x, Name)
    <3>1. \A i \in 1..1 : i = 1
      OBVIOUS
    <3> QED BY <1>2, <2>1, <3>1 DEF Without
  <2>3. <<"heading">> # <<"heading", Question>> /\ <<"heading">> # <<Question>>
        /\ <<"heading">> # <<>>
    BY DEF Question
  <2>4. kind = "clarify" => streamed /\ Contains(streamText, Question)
    BY <1>3, <2>3 DEF Lead
  <2> QED BY <1>3, <2>2, <2>4, Stamps
<1>4. CASE x = <<"heading", Question>>
  <2>1. Len(x) = 2 /\ x[1] = "heading" /\ x[2] = Question
    BY <1>4
  <2>2. Without(x, Name)
    <3>1. \A i \in 1..2 : i = 1 \/ i = 2
      OBVIOUS
    <3> QED BY <1>2, <2>1, <3>1 DEF Without
  <2>3. ~Without(x, Question)
    <3>1. 2 \in 1..2
      OBVIOUS
    <3> QED BY <2>1, <3>1 DEF Without
  <2> QED BY <1>4, <2>2, <2>3, Stamps
<1>5. CASE x = <<Question>>
  <2>1. Len(x) = 1 /\ x[1] = Question
    BY <1>5
  <2>2. Without(x, Name)
    <3>1. \A i \in 1..1 : i = 1
      OBVIOUS
    <3> QED BY <1>2, <2>1, <3>1 DEF Without
  <2>3. ~Without(x, Question)
    <3>1. 1 \in 1..1
      OBVIOUS
    <3> QED BY <2>1, <3>1 DEF Without
  <2> QED BY <1>5, <2>2, <2>3, Stamps
<1>6. CASE x = <<>>
  <2>1. Len(x) = 0
    BY <1>6
  <2>2. Without(x, Name)
    BY <2>1 DEF Without
  <2>3. <<>> # <<"heading", Question>> /\ <<>> # <<Question>> /\ <<>> # <<"heading">>
    OBVIOUS
  <2>4. kind = "clarify" => streamed /\ Contains(streamText, Question)
    BY <1>6, <2>3 DEF Lead
  <2> QED BY <1>6, <2>2, <2>4, Stamps
<1> QED BY <1>1, <1>3, <1>4, <1>5, <1>6

(* What is in the turn stands above. *)
LEMMA TurnStands ==
  ASSUME StandsAbove, streamed, streamText \in Text, NEW x, Contains(streamText, x)
  PROVE  ~Without(above, x)
<1>1. PICK rest \in Text : above = (<<Name>> \o streamText) \o rest
  BY DEF StandsAbove
<1>2. <<Name>> \o streamText \in Text
  BY Stamps, TextFacts
<1>3. ~Without(streamText, x)
  BY DEF Contains, Without
<1>4. ~Without(<<Name>> \o streamText, x)
  BY <1>3, Stamps, WithoutTwo
<1> DEFINE w == <<Name>> \o streamText
<1>5. w \in Text /\ above = w \o rest /\ ~Without(w, x)
  BY <1>1, <1>2, <1>4
<1> HIDE DEF w
<1> QED BY <1>5, WithoutTwo

(* A step that writes x under the turn. *)
LEMMA BelowKeepsScreen ==
  ASSUME ScreenInv, ~streaming, NEW x \in Text, Without(x, Name), above' = above \o x,
         UNCHANGED <<session, streamText, streaming, streamed>>,
         line' \in {<<>>, <<Prompt>>}, phase' = "read" => line' = <<Prompt>>,
         phase' \in AtPrompt /\ Kind' = "clarify" =>
           \/ phase \in AtPrompt /\ asks' = asks
           \/ ~Without(x, Question)
           \/ streamed /\ Contains(streamText, Question)
  PROVE  ScreenInv'
<1>1. StandsAbove /\ above \in Text /\ streamText \in Text
  BY DEF ScreenInv
<1>2. /\ StandsAbove' /\ above' \in Text
      /\ ~Without(above, Question) \/ ~Without(x, Question) => ~Without(above', Question)
  BY <1>1, WrittenBelow
<1>3. ASSUME phase' \in AtPrompt, Kind' = "clarify" PROVE ~Without(above', Question)
  <2>1. CASE phase \in AtPrompt /\ asks' = asks
    <3>1. Kind = "clarify"
      BY <1>3, <2>1 DEF Kind
    <3> QED BY <1>2, <2>1, <3>1 DEF ScreenInv
  <2>2. CASE ~Without(x, Question)
    BY <1>2, <2>2
  <2>3. CASE streamed /\ Contains(streamText, Question)
    BY <1>1, <1>2, <2>3, TurnStands
  <2> QED BY <1>3, <2>1, <2>2, <2>3
<1> QED BY <1>1, <1>2, <1>3 DEF ScreenInv

(* Nothing streams while the run asks. *)
LEMMA AsksInSilence ==
  ASSUME ScreenInv, phase \in {"idle"} \cup AtPrompt PROVE ~streaming
BY DEF ScreenInv, AtPrompt, Ending

(* A prompt and its answer come under the turn. *)
LEMMA PromptsKeepScreen ==
  ASSUME ScreenInv, Prompts PROVE ScreenInv'
<1> USE DEF threads
<1>0. /\ above \in Text /\ streamText \in Text /\ <<>> \in Text
      /\ ~streaming => line \in {<<>>, <<Prompt>>}
  BY Stamps DEF ScreenInv
<1>1. CASE Pose
  <2>1. /\ phase = "idle" /\ UNCHANGED <<session, streamText, streaming, streamed, line>>
        /\ asks' = asks + 1
        /\ \/ phase' = "ask" /\ above' = above \o Lead(session.questions[asks'])
           \/ phase' = "idle" /\ UNCHANGED above
    BY <1>1 DEF Pose, text, flags
  <2>2. ~streaming
    BY <2>1, AsksInSilence
  <2>3. CASE phase' = "idle" /\ UNCHANGED above
    <3>1. StandsAbove'
      BY <2>1, <2>2, <2>3 DEF ScreenInv, StandsAbove, Without
    <3> QED BY <1>0, <2>1, <2>2, <2>3, <3>1 DEF ScreenInv, AtPrompt
  <2>4. CASE phase' = "ask" /\ above' = above \o Lead(session.questions[asks'])
    <3> DEFINE kind == session.questions[asks']
               x == Lead(kind)
    <3>1. Kind' = kind
      BY <2>1 DEF Kind
    <3> HIDE DEF kind
    <3>2. /\ x \in Text /\ Without(x, Name)
          /\ kind = "clarify" => ~Without(x, Question) \/ (streamed /\ Contains(streamText, Question))
      BY LeadIs
    <3>3. above' = above \o x
      BY <2>4 DEF kind
    <3> HIDE DEF x
    <3> QED BY <1>0, <2>1, <2>2, <2>4, <3>1, <3>2, <3>3, BelowKeepsScreen
  <2> QED BY <2>1, <2>3, <2>4
<1>2. CASE AskSilenced \/ AskCatchesUp \/ AskDiscards
  <2>1. /\ phase = "ask" /\ phase' \in {"ask", "weigh", "prompt"}
        /\ UNCHANGED <<session, asks, streamText, flags, screen, then>>
    BY <1>2 DEF AskSilenced, AskCatchesUp, AskDiscards, text, asking
  <2>2. ~streaming
    BY <2>1, AsksInSilence DEF AtPrompt
  <2> QED BY <2>1, <2>2, ScreenKept DEF AtPrompt
<1>3. CASE AskPrompts
  <2>1. /\ phase = "prompt" /\ phase' = "read" /\ line' = <<Prompt>>
        /\ UNCHANGED <<session, asks, streamText, streaming, streamed, above>>
    BY <1>3 DEF AskPrompts, text, flags, asking
  <2>2. ~streaming
    BY <2>1, AsksInSilence DEF AtPrompt
  <2>3. StandsAbove'
    BY <2>1, <2>2 DEF ScreenInv, StandsAbove, Without
  <2>4. Kind' = Kind /\ (Without(above, Question) <=> Without(above', Question))
    BY <2>1 DEF Kind, Without
  <2> QED BY <1>0, <2>1, <2>2, <2>3, <2>4 DEF ScreenInv, AtPrompt
<1>4. CASE Reads
  <2>1. \E answer, error : Hears(answer, error)
    BY <1>4 DEF Reads, ReadLine, ReadEnd, ReadTooLong, ReadBreaks
  <2>2. /\ phase = "read" /\ phase' = "weigh" /\ above' = above \o line /\ line' = <<>>
        /\ UNCHANGED <<session, asks, streamText, streaming, streamed>>
    BY <2>1 DEF Hears, text, flags
  <2>3. ~streaming
    BY <2>2, AsksInSilence DEF AtPrompt
  <2>4. line = <<Prompt>>
    BY <2>2 DEF ScreenInv
  <2>5. line \in Text /\ Without(line, Name)
    <3>1. Len(line) = 1 /\ line[1] = Prompt /\ \A i \in 1..1 : i = 1
      BY <2>4
    <3>2. Prompt # Name
      BY DEF Prompt, Name
    <3> QED BY <2>4, <3>1, <3>2, Stamps DEF Without
  <2> DEFINE x == line
  <2>6. x \in Text /\ Without(x, Name) /\ above' = above \o x
    BY <2>2, <2>5
  <2> HIDE DEF x
  <2> QED BY <1>0, <2>2, <2>3, <2>6, BelowKeepsScreen DEF AtPrompt
<1>5. CASE NoAnswer \/ Conclude
  <2>1. /\ phase = "weigh" /\ phase' = "idle" /\ UNCHANGED <<session, asks, streamText, flags, screen>>
    BY <1>5 DEF NoAnswer, Conclude, Weighed, text, screen
  <2>2. ~streaming
    BY <2>1, AsksInSilence DEF AtPrompt
  <2> QED BY <2>1, <2>2, ScreenKept DEF AtPrompt
<1>6. CASE AskAgain
  <2> DEFINE x == <<"invalid">>
  <2>1. /\ phase = "weigh" /\ phase' = "ask" /\ above' = Append(above, "invalid")
        /\ UNCHANGED <<session, asks, streamText, streaming, streamed, line>>
    BY <1>6 DEF AskAgain, Weighed, text, flags
  <2>2. ~streaming
    BY <2>1, AsksInSilence DEF AtPrompt
  <2>3. x \in Text /\ Without(x, Name)
    <3>1. Len(x) = 1 /\ x[1] = "invalid" /\ \A i \in 1..1 : i = 1
      OBVIOUS
    <3>2. "invalid" # Name
      BY DEF Name
    <3> QED BY <3>1, <3>2, Stamps DEF Without
  <2>4. above' = above \o x
    <3>1. above \in Seq(Glyphs) /\ "invalid" \in Glyphs
      BY <1>0 DEF Text, Glyphs
    <3>2. \A S : \A s \in Seq(S), e \in S : Append(s, e) = s \o <<e>>
      OBVIOUS
    <3>3. Append(above, "invalid") = above \o <<"invalid">>
      BY <3>1, <3>2
    <3> QED BY <2>1, <3>3
  <2> HIDE DEF x
  <2> QED BY <1>0, <2>1, <2>2, <2>3, <2>4, BelowKeepsScreen DEF AtPrompt
<1> QED BY <1>1, <1>2, <1>3, <1>4, <1>5, <1>6 DEF Prompts, Asks

(* So does every step. *)
LEMMA NextScreen ==
  ASSUME SecretsOK, SessionsOK, StreamInv, ScreenInv, [TerminalNext]_terminalVars
  PROVE  ScreenInv'
<1> USE DEF threads, text, asking, screen, flags
<1>k. ASSUME UNCHANGED <<session, asks, streamText, flags, screen, phase, then>> PROVE ScreenInv'
  BY <1>k, ScreenKept DEF ScreenInv, Ending
<1>1. CASE Turns
  BY <1>1, TurnsKeepScreen
<1>2. CASE Prompts
  BY <1>2, PromptsKeepScreen
<1>3. CASE \E g \in Generations(session) : Animation(g)
  BY <1>3, AnimationKeepsScreen
<1>4. CASE Type
  BY <1>k, <1>4 DEF Type
<1>5. CASE Rest
  BY <1>k, <1>5 DEF Rest, terminalVars
<1>6. CASE UNCHANGED terminalVars
  BY <1>k, <1>6 DEF terminalVars
<1> QED BY <1>1, <1>2, <1>3, <1>4, <1>5, <1>6 DEF TerminalNext

-----------------------------------------------------------------------------
(* An animation that runs is that of the turn, or of one being stopped. *)
ThreadInv ==
  /\ animators \in [Generations(session) -> {"unborn", "running", "gone"}]
  /\ streamStop # Nobody => phase = "turn" \/ (phase = "end" /\ then = "idle")
  /\ \A g \in Generations(session) : animators[g] = "running" =>
       g = streamStop \/ (phase \in {"stop", "join"} /\ g = stopping)

(* None is born at first. *)
LEMMA InitThreads == ASSUME TerminalInit PROVE ThreadInv
BY DEF TerminalInit, ThreadInv

(* A step that leaves the animations alone. *)
LEMMA ThreadsKept ==
  ASSUME ThreadInv, UNCHANGED <<session, streamStop, stopping, animators>>,
         streamStop # Nobody => phase' = "turn" \/ (phase' = "end" /\ then' = "idle"),
         phase \in {"stop", "join"} => phase' \in {"stop", "join"}
  PROVE  ThreadInv'
BY DEF ThreadInv, Generations

(* A turn waits for its animation before it is over. *)
LEMMA TurnsKeepThreads ==
  ASSUME SessionsOK, StreamInv, ThreadInv, Turns PROVE ThreadInv'
<1> USE DEF threads
<1>a. streamStop # Nobody => phase = "turn" \/ (phase = "end" /\ then = "idle")
  BY DEF ThreadInv
<1>b. ASSUME NEW g \in Generations(session) PROVE g # Nobody
  <2>1. session.texts \in Seq(Seq(STRING))
    BY SessionFields DEF StreamInv, TurnTyped
  <2>2. Len(session.texts) \in Nat
    BY <2>1
  <2>3. g \in 1..Len(session.texts)
    BY DEF Generations
  <2> QED BY <2>2, <2>3 DEF Nobody
<1>1. CASE QuietTurn
  BY <1>1, <1>a, ThreadsKept DEF QuietTurn
<1>2. CASE TurnStart
  BY <1>2, <1>a, ThreadsKept DEF TurnStart
<1>3. CASE TakeStop
  <2>1. /\ phase = "end" /\ stopping' = streamStop /\ streamStop' = Nobody
        /\ phase' = IF streamStop = Nobody THEN "ended" ELSE "stop"
        /\ UNCHANGED <<session, animators>>
    BY <1>3 DEF TakeStop
  <2>2. \A g \in Generations(session) : animators[g] = "running" => g = streamStop
    BY <2>1 DEF ThreadInv
  <2> QED BY <1>b, <2>1, <2>2 DEF ThreadInv, Generations
<1>4. CASE CloseStop
  BY <1>4, <1>a, ThreadsKept DEF CloseStop
<1>5. CASE JoinAnimation
  <2>1. /\ phase = "join" /\ phase' = "ended" /\ animators[stopping] = "gone"
        /\ UNCHANGED <<session, animators, streamStop, stopping>>
    BY <1>5 DEF JoinAnimation
  <2>2. ASSUME NEW g \in Generations(session), animators[g] = "running" PROVE FALSE
    <3>1. g = streamStop \/ g = stopping
      BY <2>2 DEF ThreadInv
    <3>2. streamStop = Nobody
      BY <1>a, <2>1
    <3>3. g = stopping
      BY <1>b, <3>1, <3>2
    <3> QED BY <2>1, <2>2, <3>3
  <2> QED BY <1>a, <2>1, <2>2 DEF ThreadInv, Generations
<1>6. CASE EndLine
  <2>1. /\ phase = "ended" /\ phase' = then /\ UNCHANGED <<session, streamStop, stopping, animators>>
    BY <1>6 DEF EndLine
  <2> QED BY <1>a, <2>1, ThreadsKept
<1>7. CASE BeginTurn
  <2>1. /\ phase = "begin" /\ phase' = "turn" /\ turn' = turn + 1 /\ streamStop' = turn'
        /\ animators' = [animators EXCEPT ![turn'] = "running"] /\ UNCHANGED <<session, stopping>>
    BY <1>7 DEF BeginTurn
  <2>2. \A g \in Generations(session) : animators[g] # "running"
    <3>1. streamStop = Nobody
      BY <1>a, <2>1
    <3> QED BY <1>b, <2>1, <3>1 DEF ThreadInv
  <2>3. animators' \in [Generations(session) -> {"unborn", "running", "gone"}]
    BY <2>1 DEF ThreadInv
  <2>4. \A g \in Generations(session) : animators'[g] = "running" => g = turn'
    BY <2>1, <2>2 DEF ThreadInv
  <2> QED BY <2>1, <2>3, <2>4 DEF ThreadInv, Generations
<1>8. CASE Delta
  BY <1>8, <1>a, ThreadsKept DEF Delta
<1>9. CASE TurnEnd
  BY <1>9, <1>a, ThreadsKept DEF TurnEnd
<1> QED BY <1>1, <1>2, <1>3, <1>4, <1>5, <1>6, <1>7, <1>8, <1>9 DEF Turns, EndStream

(* An animation only ends by itself. *)
LEMMA NextThreads ==
  ASSUME SessionsOK, StreamInv, ThreadInv, [TerminalNext]_terminalVars PROVE ThreadInv'
<1> USE DEF threads
<1>a. streamStop # Nobody => phase = "turn" \/ (phase = "end" /\ then = "idle")
  BY DEF ThreadInv
<1>k. ASSUME UNCHANGED <<session, threads>>,
             phase' = phase \/ phase \notin {"turn", "end", "stop", "join"}
      PROVE  ThreadInv'
  BY <1>a, <1>k, ThreadsKept
<1>1. CASE Turns
  BY <1>1, TurnsKeepThreads
<1>2. CASE Prompts
  <2>1. CASE Pose
    BY <1>k, <2>1 DEF Pose
  <2>2. CASE Asks
    BY <1>k, <2>2 DEF Asks, AskSilenced, AskCatchesUp, AskDiscards, AskPrompts
  <2>3. CASE Reads
    <3>1. \E answer, error : Hears(answer, error)
      BY <2>3 DEF Reads, ReadLine, ReadEnd, ReadTooLong, ReadBreaks
    <3> QED BY <1>k, <3>1 DEF Hears
  <2>4. CASE NoAnswer \/ Conclude \/ AskAgain
    BY <1>k, <2>4 DEF NoAnswer, Conclude, AskAgain, Weighed
  <2> QED BY <1>2, <2>1, <2>2, <2>3, <2>4 DEF Prompts
<1>3. CASE \E g \in Generations(session) : Animation(g)
  <2>1. PICK g \in Generations(session) : Animation(g)
    BY <1>3
  <2>2. /\ animators' = animators \/ animators' = [animators EXCEPT ![g] = "gone"]
        /\ UNCHANGED <<session, phase, then, streamStop, stopping>>
    BY <2>1 DEF Animation, Stopped, Tick
  <2>3. \A h \in Generations(session) : animators'[h] = "running" => animators[h] = "running"
    BY <2>2 DEF ThreadInv
  <2>4. animators' \in [Generations(session) -> {"unborn", "running", "gone"}]
    BY <2>2 DEF ThreadInv
  <2> QED BY <2>2, <2>3, <2>4 DEF ThreadInv, Generations
<1>4. CASE Type
  BY <1>k, <1>4 DEF Type
<1>5. CASE Rest
  BY <1>k, <1>5 DEF Rest, terminalVars
<1>6. CASE UNCHANGED terminalVars
  BY <1>k, <1>6 DEF terminalVars
<1> QED BY <1>1, <1>2, <1>3, <1>4, <1>5, <1>6 DEF TerminalNext

(* The strengthening: the text, the screen and the animations. *)
TerminalInv == StreamInv /\ ScreenInv /\ ThreadInv

(* It holds at the beginning, and after every step. *)
LEMMA StepsTerminal ==
  /\ TerminalInit => TerminalInv
  /\ TerminalInv /\ [TerminalNext]_terminalVars => TerminalInv'
<1>1. TerminalInit => TerminalInv
  BY InitStream, InitScreen, InitThreads, SecretsAssumption, TerminalAssumption DEF TerminalInv
<1>2. TerminalInv /\ [TerminalNext]_terminalVars => TerminalInv'
  BY NextStream, NextScreen, NextThreads, SecretsAssumption, TerminalAssumption DEF TerminalInv
<1> QED BY <1>1, <1>2

(* So it holds all along. *)
LEMMA AlwaysTerminalInv == TerminalSpec => []TerminalInv
BY StepsTerminal, PTL DEF TerminalSpec

(* What the screen shows follows. *)
LEMMA ScreenShown ==
  ASSUME SecretsOK, StreamInv, ScreenInv PROVE ScreenShowsTheText
<1>1. ASSUME streaming, streamed PROVE line \o streamPending = <<Name>> \o streamText
  BY <1>1 DEF ScreenInv, OnTheLine
<1>2. ASSUME phase = "idle"
      PROVE  IF streamText = <<>> THEN ~streamed /\ Name \notin Range(above)
             ELSE IsPrefix(<<Name>> \o streamText, above)
  <2>1. StandsAbove /\ above \in Text /\ streamText \in Text
    BY <1>2, AsksInSilence DEF ScreenInv
  <2>2. CASE streamText = <<>>
    <3>1. ~streamed /\ Without(above, Name)
      BY <2>1, <2>2 DEF StandsAbove
    <3>2. DOMAIN above = 1..Len(above)
      BY <2>1, TextFacts
    <3>3. Name \notin Range(above)
      BY <3>1, <3>2 DEF Range, Without
    <3> QED BY <2>2, <3>1, <3>3
  <2>3. CASE streamText # <<>>
    <3>1. PICK rest \in Text : above = (<<Name>> \o streamText) \o rest
      BY <2>1, <2>3 DEF StandsAbove
    <3> DEFINE w == <<Name>> \o streamText
    <3>2. w \in Text /\ above = w \o rest
      BY <2>1, <3>1, Stamps, TextFacts
    <3> HIDE DEF w
    <3>3. /\ Len(w) \in Nat /\ Len(rest) \in Nat /\ Len(above) = Len(w) + Len(rest)
          /\ \A i \in 1..Len(w) : w[i] = above[i]
      BY <3>2, TextFacts
    <3>4. Len(w) <= Len(above)
      BY <3>3
    <3>5. w \in Seq(Glyphs) /\ above \in Seq(Glyphs)
      BY <2>1, <3>2 DEF Text
    <3>6. IsPrefix(w, above)
      BY <3>3, <3>4, <3>5, PrefixIs
    <3> QED BY <2>3, <3>6 DEF w
  <2> QED BY <2>2, <2>3
<1> QED BY <1>1, <1>2 DEF ScreenShowsTheText, TurnIsOver

(* Whenever the animation ticks, and whatever the secrets and the turns,    *)
(* the screen shows the text once, whole and in order.                      *)
THEOREM ShownOnce == TerminalSpec => []ScreenShowsTheText
<1>1. TerminalInv => ScreenShowsTheText
  BY ScreenShown, SecretsAssumption DEF TerminalInv
<1> QED BY <1>1, AlwaysTerminalInv, PTL

(* What is known of the stream gives both halves of it. *)
LEMMA TurnShown == TerminalInv => TurnIsShownAsSaid
<1>1. TerminalInv => TextReadsAsInOnePiece
  BY DEF TerminalInv, StreamInv, TurnTyped, ReadsWhole, ReadAsWhole, TextReadsAsInOnePiece, TurnIsOver
<1> QED BY <1>1, ScreenShown, SecretsAssumption DEF TerminalInv, TurnIsShownAsSaid

(* A turn is shown as it was said: it reads as the filters leave it whole,  *)
(* under what TextReadsAsInOnePiece says of the configured values and of    *)
(* the turn.                                                                *)
THEOREM ShownAsSaid == TerminalSpec => []TurnIsShownAsSaid
BY TurnShown, AlwaysTerminalInv, PTL

(* While it is waited for an answer, everything is on the screen. *)
LEMMA PromptIsLast == TerminalInv => PromptStandsLast
<1>1. ASSUME TerminalInv, phase = "read" PROVE PromptStandsLast
  <2>1. line = <<Prompt>> /\ above \in Text
    BY <1>1 DEF TerminalInv, ScreenInv
  <2>2. ASSUME NEW g \in Generations(session) PROVE animators[g] # "running"
    <3>1. session.texts \in Seq(Seq(STRING))
      BY <1>1, SessionFields, TerminalAssumption DEF TerminalInv, StreamInv, TurnTyped
    <3>2. Len(session.texts) \in Nat
      BY <3>1
    <3>3. g # Nobody
      BY <3>2 DEF Generations, Nobody
    <3> QED BY <1>1, <3>3 DEF TerminalInv, ThreadInv
  <2>3. Kind = "clarify" => Question \in Range(above)
    <3>1. DOMAIN above = 1..Len(above)
      BY <2>1, TextFacts
    <3>2. Kind = "clarify" => ~Without(above, Question)
      BY <1>1 DEF TerminalInv, ScreenInv, AtPrompt
    <3> QED BY <3>1, <3>2 DEF Without, Range
  <2> QED BY <2>1, <2>2, <2>3 DEF PromptStandsLast
<1> QED BY <1>1 DEF PromptStandsLast

(* The prompt stands last while it waits for an answer: nothing is left to  *)
(* write over it, and Clarify's question can be read above.                 *)
THEOREM PromptLast == TerminalSpec => []PromptStandsLast
BY PromptIsLast, AlwaysTerminalInv, PTL

-----------------------------------------------------------------------------
(***************************************************************************)
(* The fix, for every diff, every allowlist and every tree.  A path that   *)
(* matches an entry is covered by it; a diff is read line by line and      *)
(* loses nothing; hunks that fit in one place only give the one file that  *)
(* the diff can mean.                                                      *)
(***************************************************************************)

(* The first a elements of a pattern reach b of n elements. *)
ReachTo(wild, fits, n, a, b) ==
  \E cut \in [0..a -> 0..n] : Reaches(wild, fits, a, b, cut)

(* Nothing reaches nowhere. *)
LEMMA ReachNothing ==
  ASSUME NEW wild, NEW fits, NEW n \in Nat PROVE ReachTo(wild, fits, n, 0, 0)
<1> DEFINE cut == [i \in 0..0 |-> 0]
<1>1. cut \in [0..0 -> 0..n] /\ cut[0] = 0 /\ \A i \in 1..0 : FALSE
  OBVIOUS
<1> HIDE DEF cut
<1>2. Reaches(wild, fits, 0, 0, cut)
  BY <1>1 DEF Reaches
<1> QED BY <1>1, <1>2 DEF ReachTo

(* One more segment reaches on from where those before it do. *)
LEMMA ReachOn ==
  ASSUME NEW wild, NEW fits, NEW n \in Nat,
         NEW a \in Nat, NEW b \in 0..n, ReachTo(wild, fits, n, a, b),
         NEW c \in 0..n,
         IF a + 1 \in wild THEN b <= c ELSE c = b + 1 /\ <<a + 1, c>> \in fits
  PROVE  ReachTo(wild, fits, n, a + 1, c)
<1>1. PICK cut \in [0..a -> 0..n] : Reaches(wild, fits, a, b, cut)
  BY DEF ReachTo
<1>2. /\ cut[0] = 0 /\ cut[a] = b
      /\ \A i \in 1..a : IF i \in wild THEN cut[i - 1] <= cut[i]
                         ELSE cut[i] = cut[i - 1] + 1 /\ <<i, cut[i]>> \in fits
  BY <1>1 DEF Reaches
<1> DEFINE on == [i \in 0..a + 1 |-> IF i = a + 1 THEN c ELSE cut[i]]
<1>3. on \in [0..a + 1 -> 0..n]
  <2>1. \A i \in 0..a + 1 : i # a + 1 => i \in 0..a
    OBVIOUS
  <2> QED BY <2>1
<1>4. on[0] = 0 /\ on[a + 1] = c /\ \A i \in 0..a : on[i] = cut[i]
  BY <1>2
<1> HIDE DEF on
<1>5. ASSUME NEW i \in 1..a + 1
      PROVE IF i \in wild THEN on[i - 1] <= on[i]
            ELSE on[i] = on[i - 1] + 1 /\ <<i, on[i]>> \in fits
  <2>1. CASE i = a + 1
    <3>1. i - 1 = a /\ a \in 0..a
      BY <2>1
    <3>2. on[i - 1] = b /\ on[i] = c
      BY <1>2, <1>4, <2>1, <3>1
    <3> QED BY <2>1, <3>2
  <2>2. CASE i # a + 1
    <3>1. i \in 1..a /\ i \in 0..a /\ i - 1 \in 0..a
      BY <2>2
    <3>2. on[i - 1] = cut[i - 1] /\ on[i] = cut[i]
      BY <1>4, <3>1
    <3> QED BY <1>2, <3>1, <3>2
  <2> QED BY <2>1, <2>2
<1>6. Reaches(wild, fits, a + 1, c, on)
  BY <1>4, <1>5 DEF Reaches
<1> QED BY <1>3, <1>6 DEF ReachTo

(* Wildcards to the end of a pattern reach any end. *)
LEMMA ReachRest ==
  ASSUME NEW wild, NEW fits, NEW m \in Nat, NEW n \in Nat,
         NEW a \in 0..m, ReachTo(wild, fits, n, a, n), \A k \in a + 1..m : k \in wild
  PROVE  Stretches(wild, fits, m, n)
<1> DEFINE B == {k \in Nat : a + k <= m => ReachTo(wild, fits, n, a + k, n)}
<1>0. m \in Nat /\ n \in Nat /\ a \in 0..m
  OBVIOUS
<1>1. 0 \in B
  OBVIOUS
<1>2. ASSUME NEW k \in Nat, k \in B PROVE k + 1 \in B
  <2> SUFFICES ASSUME a + k + 1 <= m PROVE ReachTo(wild, fits, n, a + k + 1, n)
    OBVIOUS
  <2>1. ReachTo(wild, fits, n, a + k, n) /\ a + k \in Nat
    BY <1>0, <1>2
  <2>2. a + k + 1 \in a + 1..m
    BY <1>0
  <2>3. a + k + 1 \in wild
    BY <2>2
  <2> DEFINE e == a + k
  <2>4. e \in Nat /\ n \in 0..n /\ n <= n /\ ReachTo(wild, fits, n, e, n) /\ e + 1 \in wild
    BY <1>0, <2>1, <2>3
  <2> HIDE DEF e
  <2>5. ReachTo(wild, fits, n, e + 1, n)
    BY <2>4, ReachOn
  <2> QED BY <2>5 DEF e
<1>3. m - a \in B
  <2>1. m - a \in Nat
    BY <1>0
  <2> HIDE DEF B
  <2> QED BY <1>1, <1>2, <2>1, Upwards
<1>4. a + (m - a) = m /\ m <= m
  BY <1>0
<1>5. ReachTo(wild, fits, n, m, n)
  BY <1>3, <1>4
<1> QED BY <1>5 DEF ReachTo, Stretches

(* What is known of the loop after any number of rounds. *)
Places == [p : Nat, s : Nat, star : Nat, retry : Nat]
Retrying(wild, fits, n, spot) ==
  \E k \in 0..n : /\ spot.star \in wild /\ k + 1 <= spot.retry /\ spot.retry <= spot.s
                  /\ ReachTo(wild, fits, n, spot.star - 1, k)
MatchedSoFar(wild, fits, m, n) ==
  {spot \in Places : /\ spot.p \in 1..m + 1 /\ spot.s \in 1..n + 1
                     /\ ReachTo(wild, fits, n, spot.p - 1, spot.s - 1)
                     /\ spot.star # 0 => Retrying(wild, fits, n, spot)}

(* A round keeps it. *)
LEMMA RoundKeeps ==
  ASSUME NEW m \in Nat, NEW n \in Nat, NEW wild \in SUBSET (1..m),
         NEW fits \in SUBSET ((1..m) \X (1..n)),
         NEW spot \in MatchedSoFar(wild, fits, m, n)
  PROVE  Round(wild, fits, n, spot) \in MatchedSoFar(wild, fits, m, n)
<1> DEFINE p == spot.p
           s == spot.s
           star == spot.star
           retry == spot.retry
           next == Round(wild, fits, n, spot)
<1>1. /\ m \in Nat /\ n \in Nat /\ star \in Nat /\ retry \in Nat
      /\ p \in 1..m + 1 /\ s \in 1..n + 1
      /\ ReachTo(wild, fits, n, p - 1, s - 1)
      /\ star # 0 => Retrying(wild, fits, n, spot)
  BY DEF MatchedSoFar, Places
<1>2. CASE s > n
  <2>1. next = spot
    BY <1>1, <1>2 DEF Round
  <2> QED BY <2>1
<1>3. CASE s <= n /\ <<p, s>> \notin fits /\ p \in wild
  <2>1. next = [p |-> p + 1, s |-> s, star |-> p, retry |-> s]
    BY <1>1, <1>3 DEF Round
  <2>2. p <= m /\ p \in wild
    <3>1. p \in wild /\ wild \subseteq 1..m
      BY <1>3
    <3> HIDE DEF p
    <3> QED BY ONLY <3>1, m \in Nat
  <2> DEFINE a == p - 1
             b == s - 1
  <2>3. a \in Nat /\ b \in 0..n /\ a + 1 = p /\ b + 1 = s /\ p \in 1..m
    <3>1. m \in Nat /\ n \in Nat /\ p \in 1..m + 1 /\ s \in 1..n + 1 /\ s <= n /\ p <= m
      BY <1>1, <1>3, <2>2
    <3> HIDE DEF p, s
    <3> QED BY ONLY <3>1 DEF a, b
  <2>4. ReachTo(wild, fits, n, a, b)
    BY <1>1
  <2>5. next.p = p + 1 /\ next.s = s /\ next.star = p /\ next.retry = s
    BY <2>1
  <2>6. next \in Places
    BY <1>1, <2>1 DEF Places
  <2> HIDE DEF a, b, next
  <2>7. a + 1 \in wild
    BY <2>2, <2>3
  <2>8. ReachTo(wild, fits, n, a + 1, b)
    <3>1. a \in Nat /\ b \in 0..n /\ b <= b
      BY <2>3
    <3> QED BY <2>4, <2>7, <3>1, ReachOn
  <2>9. ReachTo(wild, fits, n, next.p - 1, next.s - 1)
    <3>1. a \in Nat /\ b \in 0..n /\ a + 1 = p /\ b + 1 = s /\ next.p = p + 1 /\ next.s = s
      BY <2>3, <2>5
    <3> HIDE DEF p, s
    <3>2. next.p - 1 = a + 1 /\ next.s - 1 = b
      BY ONLY <3>1
    <3> QED BY <2>8, <3>2
  <2>10. Retrying(wild, fits, n, next)
    <3>1. /\ a \in Nat /\ b \in 0..n /\ s \in Nat /\ p \in 1..m /\ a + 1 = p /\ b + 1 = s
          /\ next.s = s /\ next.star = p /\ next.retry = s /\ p \in wild
      BY <1>1, <2>2, <2>3, <2>5
    <3> HIDE DEF p, s
    <3>2. next.star - 1 = a /\ b + 1 <= next.retry /\ next.retry <= next.s
          /\ next.star \in 1..m /\ next.star \in wild
      BY ONLY <3>1
    <3> QED BY <2>3, <2>4, <3>2 DEF Retrying
  <2>11. next.p \in 1..m + 1 /\ next.s \in 1..n + 1
    BY <1>1, <2>2, <2>5
    <2> QED BY <2>6, <2>9, <2>10, <2>11 DEF MatchedSoFar, next
<1>4. CASE s <= n /\ <<p, s>> \in fits
  <2>1. next = [p |-> p + 1, s |-> s + 1, star |-> star, retry |-> retry]
    BY <1>1, <1>4 DEF Round
  <2>2. p <= m /\ <<p, s>> \in fits
    BY <1>4
  <2> DEFINE a == p - 1
             b == s - 1
  <2>3. a \in Nat /\ b \in 0..n /\ a + 1 = p /\ b + 1 = s /\ s \in 0..n
    <3>1. m \in Nat /\ n \in Nat /\ p \in 1..m + 1 /\ s \in 1..n + 1 /\ s <= n /\ p <= m
      BY <1>1, <1>4, <2>2
    <3> HIDE DEF p, s
    <3> QED BY ONLY <3>1 DEF a, b
  <2>4. ReachTo(wild, fits, n, a, b)
    BY <1>1
  <2>5. next.p = p + 1 /\ next.s = s + 1 /\ next.star = star /\ next.retry = retry
    BY <2>1
  <2>6. next \in Places
    BY <1>1, <2>1 DEF Places
  <2> HIDE DEF a, b, next
  <2>7. <<a + 1, s>> \in fits
    BY <2>2, <2>3
  <2>8. ReachTo(wild, fits, n, a + 1, s)
    BY <1>1, <2>3, <2>4, <2>7, ReachOn
  <2>9. ReachTo(wild, fits, n, next.p - 1, next.s - 1)
    <3>1. a \in Nat /\ a + 1 = p /\ s \in Nat /\ next.p = p + 1 /\ next.s = s + 1
      BY <1>1, <2>3, <2>5
    <3> HIDE DEF p, s
    <3>2. next.p - 1 = a + 1 /\ next.s - 1 = s
      BY ONLY <3>1
    <3> QED BY <2>8, <3>2
  <2>10. next.star # 0 => Retrying(wild, fits, n, next)
    <3> SUFFICES ASSUME star # 0 PROVE Retrying(wild, fits, n, next)
      BY <2>5
    <3>1. PICK k \in 0..n : /\ star \in 1..m /\ star \in wild
                            /\ k + 1 <= retry /\ retry <= s
                            /\ ReachTo(wild, fits, n, star - 1, k)
      BY <1>1 DEF Retrying
    <3>2. next.retry <= next.s
      BY <1>1, <2>5, <3>1
    <3> QED BY <2>5, <3>1, <3>2 DEF Retrying
  <2>11. next.p \in 1..m + 1 /\ next.s \in 1..n + 1
    <3>1. /\ m \in Nat /\ n \in Nat /\ p \in 1..m + 1 /\ s \in 1..n + 1 /\ p <= m /\ s <= n
          /\ next.p = p + 1 /\ next.s = s + 1
      BY <1>1, <1>4, <2>2, <2>5
    <3> HIDE DEF p, s
    <3> QED BY ONLY <3>1
    <2> QED BY <2>6, <2>9, <2>10, <2>11 DEF MatchedSoFar, next
<1>5. CASE s <= n /\ star > 0 /\ <<p, s>> \notin fits /\ p \notin wild
  <2>1. next = [p |-> star + 1, s |-> retry + 1, star |-> star, retry |-> retry + 1]
    BY <1>1, <1>5 DEF Round
  <2>2. PICK k \in 0..n : /\ star \in 1..m /\ star \in wild
                          /\ k + 1 <= retry /\ retry <= s
                          /\ ReachTo(wild, fits, n, star - 1, k)
    BY <1>1, <1>5 DEF Retrying
  <2> DEFINE a == star - 1
  <2>3. a \in Nat /\ a + 1 = star /\ retry \in 0..n /\ k <= retry
    <3>1. /\ m \in Nat /\ n \in Nat /\ s <= n /\ s \in Nat /\ retry \in Nat
          /\ star \in 1..m /\ k \in 0..n /\ k + 1 <= retry /\ retry <= s
      BY <1>1, <1>5, <2>2
    <3> HIDE DEF star, retry, s
    <3>2. star - 1 \in Nat /\ star - 1 + 1 = star /\ retry \in 0..n /\ k <= retry
      BY ONLY <3>1
    <3> QED BY <3>2
  <2>4. ReachTo(wild, fits, n, a, k)
    BY <2>2
  <2>5. next.p = star + 1 /\ next.s = retry + 1 /\ next.star = star /\ next.retry = retry + 1
    BY <2>1
  <2>6. next \in Places
    <3>1. star \in Nat /\ retry \in Nat
      BY <1>1
    <3> HIDE DEF star, retry, next
    <3>2. star + 1 \in Nat /\ retry + 1 \in Nat
      BY ONLY <3>1
    <3> QED BY ONLY <2>1, <3>1, <3>2 DEF Places
  <2> HIDE DEF a, next
  <2>7. a + 1 \in wild
    <3>1. a + 1 = star /\ star \in wild
      BY <2>2, <2>3
    <3> HIDE DEF star
    <3> QED BY <3>1
  <2>8. ReachTo(wild, fits, n, a + 1, retry)
    BY <1>1, <2>3, <2>4, <2>7, ReachOn
  <2>9. ReachTo(wild, fits, n, next.p - 1, next.s - 1)
    <3>1. /\ a \in Nat /\ a + 1 = star /\ retry \in Nat
          /\ next.p = star + 1 /\ next.s = retry + 1
      BY <1>1, <2>3, <2>5
    <3> HIDE DEF star, retry
    <3>2. next.p - 1 = a + 1 /\ next.s - 1 = retry
      BY ONLY <3>1
    <3> QED BY <2>8, <3>2
  <2>10. Retrying(wild, fits, n, next)
    <3>1. /\ star \in 1..m /\ star \in wild /\ k <= retry /\ retry \in Nat /\ k \in 0..n
          /\ n \in Nat /\ star - 1 = a
      BY <1>1, <2>2, <2>3 DEF a
    <3>2. k + 1 <= retry + 1 /\ retry + 1 <= retry + 1
      BY <3>1
    <3>3. next.star - 1 = a /\ k + 1 <= next.retry /\ next.retry <= next.s
          /\ next.star \in 1..m /\ next.star \in wild
      BY <2>5, <3>1, <3>2
    <3> QED BY <2>4, <3>1, <3>3 DEF Retrying
  <2>11. next.p \in 1..m + 1 /\ next.s \in 1..n + 1
    <3>1. m \in Nat /\ n \in Nat /\ star \in 1..m /\ retry \in 0..n
      BY <1>1, <2>2, <2>3
    <3>2. star + 1 \in 1..m + 1 /\ retry + 1 \in 1..n + 1
      <4> HIDE DEF star, retry
      <4> QED BY ONLY <3>1
    <3> QED BY <2>5, <3>2
    <2> QED BY <2>6, <2>9, <2>10, <2>11 DEF MatchedSoFar, next
<1>6. CASE s <= n /\ ~(star > 0) /\ <<p, s>> \notin fits /\ p \notin wild
  <2>1. next = spot
    BY <1>1, <1>6 DEF Round
  <2> QED BY <2>1
<1> QED BY <1>1, <1>2, <1>3, <1>4, <1>5, <1>6

(* Where the loop stands in the end. *)
LEMMA MatchingIs ==
  ASSUME NEW m \in Nat, NEW n \in Nat, NEW wild \in SUBSET (1..m),
         NEW fits \in SUBSET ((1..m) \X (1..n))
  PROVE  Matching(wild, fits, m, n) \in MatchedSoFar(wild, fits, m, n)
<1> DEFINE N == Rounds(m, n)
           V == MatchedSoFar(wild, fits, m, n)
           start == [p |-> 1, s |-> 1, star |-> 0, retry |-> 0]
           From(g, i) == IF i = 0 THEN start ELSE Round(wild, fits, n, g[i - 1])
           Is(g) == g = [i \in 0..N |-> From(g, i)]
<1>1. N \in Nat
  <2>1. m + 1 \in Nat /\ n + 1 \in Nat
    OBVIOUS
  <2>2. \A i, j \in Nat : i * j \in Nat
    OBVIOUS
  <2> QED BY <2>1, <2>2 DEF Rounds
<1>2. start \in V
  <2>1. start \in Places /\ start.p = 1 /\ start.s = 1 /\ start.star = 0
    BY DEF Places
  <2>2. ReachTo(wild, fits, n, start.p - 1, start.s - 1)
    BY <2>1, ReachNothing
  <2> HIDE DEF start
  <2> QED BY <2>1, <2>2 DEF MatchedSoFar
<1> HIDE DEF start, N
<1>3. \E g : Is(g) /\ \A i \in 0..N : g[i] \in V
  <2> DEFINE step == [i \in 1..N |-> [v \in V |-> Round(wild, fits, n, v)]]
  <2>1. step \in [1..N -> [V -> V]]
    BY RoundKeeps
  <2> HIDE DEF step, V
  <2>2. PICK g : Walk(g, N, V, start, step)
    BY <1>1, <1>2, <2>1, WalkExists
  <2>3. /\ g \in [0..N -> V] /\ g[0] = start
        /\ \A i \in 1..N : g[i] = step[i][g[i - 1]]
    BY <2>2 DEF Walk
  <2>4. ASSUME NEW i \in 0..N PROVE g[i] = From(g, i)
    <3>1. CASE i = 0
      BY <2>3, <3>1
    <3>2. CASE i # 0
      <4>1. i \in 1..N /\ i - 1 \in 0..N
        BY <1>1, <3>2
      <4>2. g[i - 1] \in V
        BY <2>3, <4>1
      <4>3. step[i][g[i - 1]] = Round(wild, fits, n, g[i - 1])
        BY <4>1, <4>2 DEF step
      <4> QED BY <2>3, <3>2, <4>1, <4>3
    <3> QED BY <3>1, <3>2
  <2> HIDE DEF From
  <2> QED BY <2>3, <2>4
<1> DEFINE f == CHOOSE g : Is(g)
<1>4. Is(f)
  <2> HIDE DEF Is
  <2> QED BY <1>3
<1>5. \A i \in 0..N : f[i] = From(f, i)
  <2> HIDE DEF From, f
  <2> QED BY <1>4
<1>6. Matching(wild, fits, m, n) = f[N]
  BY DEF Matching, start, N
<1> HIDE DEF f
<1> DEFINE B == {k \in Nat : k <= N => f[k] \in V}
<1>7. 0 \in B
  <2>1. 0 \in 0..N
    BY <1>1
  <2> HIDE DEF V
  <2> QED BY <1>2, <1>5, <2>1
<1>8. ASSUME NEW k \in Nat, k \in B PROVE k + 1 \in B
  <2> SUFFICES ASSUME k + 1 <= N PROVE f[k + 1] \in V
    BY DEF B
  <2>1. k + 1 \in 0..N /\ k + 1 # 0 /\ k + 1 - 1 = k /\ k <= N
    BY <1>1
  <2>2. f[k + 1] = Round(wild, fits, n, f[k])
    BY <1>5, <2>1
  <2>3. f[k] \in V
    BY <1>8, <2>1
  <2> QED BY <2>2, <2>3, RoundKeeps
<1>9. N \in B
  <2> HIDE DEF B
  <2> QED BY <1>1, <1>7, <1>8, Upwards
<1> QED BY <1>1, <1>6, <1>9

(* What the loop matches, the wildcards stretch to. *)
LEMMA MatchedIsStretched ==
  ASSUME NEW m \in Nat, NEW n \in Nat, NEW wild \in SUBSET (1..m),
         NEW fits \in SUBSET ((1..m) \X (1..n)), Matched(wild, fits, m, n)
  PROVE  Stretches(wild, fits, m, n)
<1> DEFINE end == Matching(wild, fits, m, n)
<1>2. end.s > n /\ \A k \in end.p..m : k \in wild
  BY DEF Matched
<1>3. end \in MatchedSoFar(wild, fits, m, n)
  BY MatchingIs
<1> HIDE DEF end
<1>4. /\ end.p \in 1..m + 1 /\ end.s \in 1..n + 1
      /\ ReachTo(wild, fits, n, end.p - 1, end.s - 1)
  BY <1>3 DEF MatchedSoFar
<1> DEFINE a == end.p - 1
<1>5. a \in 0..m /\ a + 1 = end.p /\ end.s - 1 = n
  BY <1>2, <1>4
<1>6. ReachTo(wild, fits, n, a, n)
  BY <1>4, <1>5
<1>7. \A k \in a + 1..m : k \in wild
  BY <1>2, <1>5
<1> HIDE DEF a
<1> QED BY <1>5, <1>6, <1>7, ReachRest

(* More that matches reaches as far. *)
LEMMA StretchesMore ==
  ASSUME NEW wild, NEW fits, NEW alike, NEW m \in Nat, NEW n \in Nat,
         fits \subseteq alike, Stretches(wild, fits, m, n)
  PROVE  Stretches(wild, alike, m, n)
<1>1. PICK cut \in [0..m -> 0..n] : Reaches(wild, fits, m, n, cut)
  BY DEF Stretches
<1>2. Reaches(wild, alike, m, n, cut)
  BY <1>1 DEF Reaches
<1> QED BY <1>1, <1>2 DEF Stretches

(* A segment that the matcher admits is spelled as an operator reads it. *)
LEMMA SegmentIsSpelled ==
  ASSUME NEW one \in Seq(STRING), NEW two \in Seq(STRING), MatchSegment(one, two)
  PROVE  Spells(one, two)
<1> DEFINE m == Len(one)
           n == Len(two)
<1>1. m \in Nat /\ n \in Nat /\ DOMAIN one = 1..m /\ DOMAIN two = 1..n
  OBVIOUS
<1>2. Stars(one) \in SUBSET (1..m) /\ Alike(one, two) \in SUBSET ((1..m) \X (1..n))
  BY <1>1 DEF Stars, Alike
<1>3. Matched(Stars(one), Alike(one, two), m, n)
  BY DEF MatchSegment
<1> HIDE DEF m, n
<1>4. Stretches(Stars(one), Alike(one, two), m, n)
  BY <1>1, <1>2, <1>3, MatchedIsStretched
<1> QED BY <1>4 DEF Spells, m, n

(* The matcher admits what an operator reads an entry to cover. *)
LEMMA MatchIsCovered ==
  ASSUME NEW pattern \in Seq(Seq(STRING)), NEW path \in Seq(Seq(STRING)),
         MatchPathSegments(pattern, path)
  PROVE  Covers(pattern, path)
<1> DEFINE m == Len(pattern)
           n == Len(path)
           wild == Globstars(pattern)
           fits == Fits(pattern, path)
<1>1. m \in Nat /\ n \in Nat /\ DOMAIN pattern = 1..m /\ DOMAIN path = 1..n
  OBVIOUS
<1>2. wild \in SUBSET (1..m) /\ fits \in SUBSET ((1..m) \X (1..n))
  BY <1>1 DEF Globstars, Fits
<1>3. Matched(wild, fits, m, n)
  BY DEF MatchPathSegments
<1>4. fits \subseteq Spelled(pattern, path)
  <2> SUFFICES ASSUME NEW c \in (DOMAIN pattern) \X (DOMAIN path),
                      MatchSegment(pattern[c[1]], path[c[2]])
               PROVE  Spells(pattern[c[1]], path[c[2]])
    BY DEF Fits, Spelled
  <2>1. c[1] \in 1..m /\ c[2] \in 1..n
    BY <1>1
  <2>2. pattern[c[1]] \in Seq(STRING) /\ path[c[2]] \in Seq(STRING)
    BY <1>1, <2>1
  <2> QED BY <2>2, SegmentIsSpelled
<1> HIDE DEF m, n, wild, fits
<1>5. Stretches(wild, fits, m, n)
  BY <1>1, <1>2, <1>3, MatchedIsStretched
<1>6. Stretches(wild, Spelled(pattern, path), m, n)
  BY <1>1, <1>4, <1>5, StretchesMore
<1> QED BY <1>6 DEF Covers, m, n, wild

-----------------------------------------------------------------------------
(* One piece is itself. *)
LEMMA OneFlattened ==
  ASSUME NEW S, NEW x \in Seq(S) PROVE FlattenSeq(<<x>>) = x
<1> DEFINE V == Seq(S)
           ss == <<x>>
<1>1. ss \in Seq(V) /\ Len(ss) = 1 /\ ss[1] = x
  <2>1. x \in V
    OBVIOUS
  <2> HIDE DEF V
  <2> QED BY <2>1
<1> HIDE DEF ss
<1>2. PICK f : Flat(S, ss, f)
  BY <1>1, FlatExists
<1>3. f[0] = <<>> /\ f[1] = f[1 - 1] \o ss[1]
  <2>1. 1 \in 1..Len(ss)
    BY <1>1
  <2>2. \A i \in 1..Len(ss) : f[i] = f[i - 1] \o ss[i]
    BY <1>2 DEF Flat
  <2>3. f[0] = <<>>
    BY <1>2 DEF Flat
  <2> QED BY <2>1, <2>2, <2>3, Zenon
<1>4. f[1] = x
  <2>1. 1 - 1 = 0
    OBVIOUS
  <2>2. f[1] = <<>> \o x
    BY <1>1, <1>3, <2>1
  <2> QED BY <2>2, JoinedTwice
<1> QED BY <1>1, <1>2, <1>4, FlatIs DEF ss

(* A piece more at the end. *)
LEMMA OneMore ==
  ASSUME NEW S, NEW n \in Nat, NEW p \in [1..n + 1 -> Seq(S)], NEW q \in [1..n -> Seq(S)],
         \A i \in 1..n : p[i] = q[i]
  PROVE  FlattenSeq(q) \in Seq(S) /\ FlattenSeq(p) = FlattenSeq(q) \o p[n + 1]
<1> DEFINE r == [i \in 1..1 |-> p[n + 1]]
<1>1. n + 1 \in 1..n + 1
  OBVIOUS
<1>2. r = <<p[n + 1]>> /\ r \in [1..1 -> Seq(S)] /\ p[n + 1] \in Seq(S)
  BY <1>1
<1>3. \A i \in 1..1 : p[n + i] = r[i]
  <2>1. \A i \in 1..1 : i = 1
    OBVIOUS
  <2> QED BY <2>1
<1> HIDE DEF r
<1>4. Splits(S, n, 1, p, q, r)
  BY <1>2, <1>3 DEF Splits
<1>5. FlattenSeq(r) = p[n + 1]
  BY <1>2, OneFlattened
<1> QED BY <1>4, <1>5, PieceByPiece

(* What a diff is made of.  The literals are strings, which no prover knows. *)
DiffLines == [mark : STRING \cup {" ", ""}, text : STRING \cup {""}]
ReadHunks == [lines : Seq(DiffLines), unended : SUBSET {"before", "after"}]
FileParts == [old : Seq(Seq(STRING)), new : Seq(Seq(STRING)), hunks : Seq(ReadHunks)]
ChangesOf(parts) == FlattenSeq([k \in DOMAIN parts |-> ChangesIn(parts[k])])

(* Domains of sequences, and one more element. *)
LEMMA Appended ==
  ASSUME NEW S, NEW s \in Seq(S), NEW x \in S
  PROVE  /\ Len(s) \in Nat /\ DOMAIN s = 1..Len(s)
         /\ Append(s, x) \in Seq(S) /\ Len(Append(s, x)) = Len(s) + 1
         /\ DOMAIN Append(s, x) = 1..Len(s) + 1
         /\ \A i \in 1..Len(s) : Append(s, x)[i] = s[i] /\ s[i] \in S
         /\ Append(s, x)[Len(s) + 1] = x /\ Append(s, x) # <<>>
OBVIOUS

(* What one line changes. *)
LEMMA ChangeIs ==
  ASSUME NEW l \in DiffLines
  PROVE  Change(l) \in Seq(DiffLines)
<1>1. <<l>> \in Seq(DiffLines) /\ <<>> \in Seq(DiffLines)
  BY Single
<1> QED BY <1>1 DEF Change

(* Which of three are joined first makes no difference. *)
LEMMA Regrouped ==
  ASSUME NEW a \in Seq(DiffLines), NEW b \in Seq(DiffLines), NEW c \in Seq(DiffLines)
  PROVE  (a \o b) \o c = a \o (b \o c)
BY JoinedTwice

(* What the lines of a hunk change: one line more, *)
LEMMA ChangesMore ==
  ASSUME NEW lines \in Seq(DiffLines), NEW l \in DiffLines
  PROVE  /\ Changes(lines) \in Seq(DiffLines)
         /\ Changes(Append(lines, l)) = Changes(lines) \o Change(l)
<1> DEFINE n == Len(lines)
           more == Append(lines, l)
           q == [k \in 1..n |-> Change(lines[k])]
           p == [k \in 1..n + 1 |-> Change(more[k])]
<1>1. /\ n \in Nat /\ DOMAIN lines = 1..n /\ DOMAIN more = 1..n + 1
      /\ \A i \in 1..n : more[i] = lines[i] /\ lines[i] \in DiffLines
      /\ more[n + 1] = l
  BY Appended
<1>2. \A i \in 1..n + 1 : more[i] \in DiffLines
  <2>1. \A i \in 1..n + 1 : i \in 1..n \/ i = n + 1
    BY <1>1
  <2> QED BY <1>1, <2>1
<1>3. Changes(lines) = FlattenSeq(q) /\ Changes(more) = FlattenSeq(p)
  BY <1>1 DEF Changes
<1>4. q \in [1..n -> Seq(DiffLines)] /\ p \in [1..n + 1 -> Seq(DiffLines)]
  BY <1>1, <1>2, ChangeIs
<1>5. \A i \in 1..n : p[i] = q[i]
  <2>1. \A i \in 1..n : i \in 1..n + 1
    BY <1>1
  <2> QED BY <1>1, <2>1
<1>6. p[n + 1] = Change(l)
  <2>1. n + 1 \in 1..n + 1
    BY <1>1
  <2> QED BY <1>1, <2>1
<1>7. n \in Nat
  BY <1>1
<1> HIDE DEF p, q, n
<1>8. FlattenSeq(q) \in Seq(DiffLines) /\ FlattenSeq(p) = FlattenSeq(q) \o p[n + 1]
  BY ONLY <1>4, <1>5, <1>7, OneMore
<1> QED BY <1>3, <1>6, <1>8

(* a hunk more. *)
LEMMA HunksMore ==
  ASSUME NEW file \in FileParts, NEW hunk \in ReadHunks
  PROVE  LET more == [file EXCEPT !.hunks = Append(@, hunk)]
         IN  /\ more \in FileParts
             /\ ChangesIn(file) \in Seq(DiffLines)
             /\ ChangesIn(more) = ChangesIn(file) \o Changes(hunk.lines)
<1> DEFINE more == [file EXCEPT !.hunks = Append(@, hunk)]
           hs == file.hunks
           n == Len(hs)
           q == [k \in 1..n |-> Changes(hs[k].lines)]
           p == [k \in 1..n + 1 |-> Changes(Append(hs, hunk)[k].lines)]
<1>1. hs \in Seq(ReadHunks) /\ hunk \in ReadHunks
  BY DEF FileParts
<1>2. /\ n \in Nat /\ DOMAIN hs = 1..n /\ DOMAIN Append(hs, hunk) = 1..n + 1
      /\ Append(hs, hunk) \in Seq(ReadHunks)
      /\ \A i \in 1..n : Append(hs, hunk)[i] = hs[i] /\ hs[i] \in ReadHunks
      /\ Append(hs, hunk)[n + 1] = hunk
  BY <1>1, Appended
<1>3. more.hunks = Append(hs, hunk) /\ more \in FileParts
  BY <1>2 DEF FileParts
<1> HIDE DEF more, hs
<1>4. \A h \in ReadHunks : Changes(h.lines) \in Seq(DiffLines)
  <2> SUFFICES ASSUME NEW h \in ReadHunks PROVE Changes(h.lines) \in Seq(DiffLines)
    OBVIOUS
  <2>1. h.lines \in Seq(DiffLines)
    BY DEF ReadHunks
  <2>2. \E l : l \in DiffLines
    <3>1. [mark |-> "", text |-> ""] \in DiffLines
      BY DEF DiffLines
    <3> QED BY <3>1
  <2> QED BY <2>1, <2>2, ChangesMore
<1>5. \A i \in 1..n + 1 : Append(hs, hunk)[i] \in ReadHunks
  <2>1. \A i \in 1..n + 1 : i \in 1..n \/ i = n + 1
    BY <1>2
  <2> QED BY <1>1, <1>2, <2>1
<1>6. ChangesIn(file) = FlattenSeq(q) /\ ChangesIn(more) = FlattenSeq(p)
  BY <1>2, <1>3 DEF ChangesIn, hs
<1>7. q \in [1..n -> Seq(DiffLines)] /\ p \in [1..n + 1 -> Seq(DiffLines)]
  BY <1>2, <1>4, <1>5
<1>8. \A i \in 1..n : p[i] = q[i]
  <2>1. \A i \in 1..n : i \in 1..n + 1
    BY <1>2
  <2> QED BY <1>2, <2>1
<1>9. p[n + 1] = Changes(hunk.lines)
  <2>1. n + 1 \in 1..n + 1
    BY <1>2
  <2> QED BY <1>2, <2>1
<1> HIDE DEF p, q, n
<1>10. FlattenSeq(q) \in Seq(DiffLines) /\ FlattenSeq(p) = FlattenSeq(q) \o Changes(hunk.lines)
  BY <1>2, <1>7, <1>8, <1>9, OneMore
<1> QED BY <1>3, <1>6, <1>10 DEF more

(* A file more changes nothing yet, *)
LEMMA FilesMore ==
  ASSUME NEW parts \in Seq(FileParts), NEW file \in FileParts, file.hunks = <<>>
  PROVE  /\ ChangesOf(parts) \in Seq(DiffLines)
         /\ ChangesOf(Append(parts, file)) = ChangesOf(parts)
<1> DEFINE n == Len(parts)
           more == Append(parts, file)
           q == [k \in 1..n |-> ChangesIn(parts[k])]
           p == [k \in 1..n + 1 |-> ChangesIn(more[k])]
<1>1. /\ n \in Nat /\ DOMAIN parts = 1..n /\ DOMAIN more = 1..n + 1
      /\ \A i \in 1..n : more[i] = parts[i] /\ parts[i] \in FileParts
      /\ more[n + 1] = file
  BY Appended
<1>2. \A i \in 1..n + 1 : more[i] \in FileParts
  <2>1. \A i \in 1..n + 1 : i \in 1..n \/ i = n + 1
    BY <1>1
  <2> QED BY <1>1, <2>1
<1>h. [lines |-> <<>>, unended |-> {}] \in ReadHunks
  BY Single DEF ReadHunks
<1>c. \A f \in FileParts : ChangesIn(f) \in Seq(DiffLines)
  BY <1>h, HunksMore
<1>3. ChangesOf(parts) = FlattenSeq(q) /\ ChangesOf(more) = FlattenSeq(p)
  BY <1>1 DEF ChangesOf
<1>4. q \in [1..n -> Seq(DiffLines)] /\ p \in [1..n + 1 -> Seq(DiffLines)]
  BY <1>1, <1>2, <1>c
<1>5. \A i \in 1..n : p[i] = q[i]
  <2>1. \A i \in 1..n : i \in 1..n + 1
    BY <1>1
  <2> QED BY <1>1, <2>1
<1>6. p[n + 1] = <<>>
  <2>1. n + 1 \in 1..n + 1
    BY <1>1
  <2>2. ChangesIn(file) = FlattenSeq(<<>>)
    BY DEF ChangesIn
  <2>3. FlattenSeq(<<>>) = <<>>
    BY DEF FlattenSeq
  <2> QED BY <1>1, <2>1, <2>2, <2>3
<1> HIDE DEF p, q, n
<1>7. FlattenSeq(q) \in Seq(DiffLines) /\ FlattenSeq(p) = FlattenSeq(q) \o <<>>
  BY <1>1, <1>4, <1>5, <1>6, OneMore
<1> QED BY <1>3, <1>7, JoinedTwice

(* a hunk more of the last file does. *)
LEMMA LastMore ==
  ASSUME NEW parts \in Seq(FileParts), parts # <<>>, NEW hunk \in ReadHunks
  PROVE  LET more == [parts EXCEPT ![Len(parts)].hunks = Append(@, hunk)]
         IN  /\ more \in Seq(FileParts) /\ more # <<>>
             /\ ChangesOf(more) = ChangesOf(parts) \o Changes(hunk.lines)
<1> DEFINE more == [parts EXCEPT ![Len(parts)].hunks = Append(@, hunk)]
           n == Len(parts) - 1
           file == parts[Len(parts)]
           filled == [file EXCEPT !.hunks = Append(@, hunk)]
<1>1. /\ n \in Nat /\ Len(parts) = n + 1 /\ DOMAIN parts = 1..n + 1
      /\ \A i \in 1..n + 1 : parts[i] \in FileParts
      /\ file = parts[n + 1] /\ file \in FileParts
  OBVIOUS
<1> HIDE DEF n
<1>2. /\ filled \in FileParts /\ ChangesIn(file) \in Seq(DiffLines)
      /\ ChangesIn(filled) = ChangesIn(file) \o Changes(hunk.lines)
  BY <1>1, HunksMore
<1>3. /\ DOMAIN more = 1..n + 1 /\ more[n + 1] = filled
      /\ \A i \in 1..n : more[i] = parts[i]
  <2>1. n + 1 \in 1..n + 1 /\ \A i \in 1..n : i # n + 1 /\ i \in 1..n + 1
    BY <1>1
  <2> QED BY <1>1, <2>1
<1> HIDE DEF filled
<1>4. more = [i \in 1..n + 1 |-> more[i]]
  BY <1>1
<1> HIDE DEF more, file
<1>5. \A i \in 1..n + 1 : more[i] \in FileParts
  <2>1. \A i \in 1..n + 1 : i \in 1..n \/ i = n + 1
    BY <1>1
  <2>2. \A i \in 1..n : i \in 1..n + 1
    BY <1>1
  <2> QED BY <1>1, <1>2, <1>3, <2>1, <2>2
<1>6. more \in Seq(FileParts) /\ more # <<>>
  <2>1. more \in [1..n + 1 -> FileParts] /\ n + 1 \in Nat
    BY <1>1, <1>4, <1>5
  <2>2. more \in Seq(FileParts)
    BY <2>1
  <2>3. more # <<>>
    <3>1. n + 1 \in DOMAIN more
      BY <1>1, <1>3
    <3>2. DOMAIN <<>> = {}
      OBVIOUS
    <3> QED BY <3>1, <3>2
  <2> QED BY <2>2, <2>3
<1> DEFINE a == [k \in 1..n + 1 |-> ChangesIn(parts[k])]
           b == [k \in 1..n + 1 |-> ChangesIn(more[k])]
           q == [k \in 1..n |-> ChangesIn(parts[k])]
<1>h. [lines |-> <<>>, unended |-> {}] \in ReadHunks
  BY Single DEF ReadHunks
<1>c. \A f \in FileParts : ChangesIn(f) \in Seq(DiffLines)
  BY <1>h, HunksMore
<1>7. /\ q \in [1..n -> Seq(DiffLines)]
      /\ a \in [1..n + 1 -> Seq(DiffLines)] /\ b \in [1..n + 1 -> Seq(DiffLines)]
  <2>2. \A i \in 1..n : i \in 1..n + 1
    BY <1>1
  <2> QED BY <1>1, <1>5, <1>c, <2>2
<1>8. /\ \A i \in 1..n : a[i] = q[i] /\ b[i] = q[i]
      /\ a[n + 1] = ChangesIn(file) /\ b[n + 1] = ChangesIn(filled)
  <2>2. n + 1 \in 1..n + 1 /\ \A i \in 1..n : i \in 1..n + 1
    BY <1>1
  <2> QED BY <1>1, <1>3, <2>2 DEF file
<1>9. ChangesOf(parts) = FlattenSeq(a) /\ ChangesOf(more) = FlattenSeq(b)
  BY <1>1, <1>3 DEF ChangesOf
<1> HIDE DEF a, b, q
<1>10. /\ FlattenSeq(q) \in Seq(DiffLines)
       /\ FlattenSeq(a) = FlattenSeq(q) \o ChangesIn(file)
       /\ FlattenSeq(b) = FlattenSeq(q) \o ChangesIn(filled)
  <2>1. n \in Nat
    BY <1>1
  <2>2. FlattenSeq(q) \in Seq(DiffLines) /\ FlattenSeq(a) = FlattenSeq(q) \o a[n + 1]
    BY <1>7, <1>8, <2>1, OneMore
  <2>3. FlattenSeq(b) = FlattenSeq(q) \o b[n + 1]
    BY <1>7, <1>8, <2>1, OneMore
  <2> QED BY <1>8, <2>2, <2>3, Zenon
<1>11. Changes(hunk.lines) \in Seq(DiffLines)
  <2>1. hunk.lines \in Seq(DiffLines)
    BY DEF ReadHunks
  <2>2. [mark |-> "", text |-> ""] \in DiffLines
    BY DEF DiffLines
  <2> QED BY <2>1, <2>2, ChangesMore
<1>12. FlattenSeq(q) \o (ChangesIn(file) \o Changes(hunk.lines))
         = (FlattenSeq(q) \o ChangesIn(file)) \o Changes(hunk.lines)
  <2>1. /\ FlattenSeq(q) \in Seq(DiffLines) /\ ChangesIn(file) \in Seq(DiffLines)
        /\ Changes(hunk.lines) \in Seq(DiffLines)
    BY <1>2, <1>10, <1>11
  <2> QED BY ONLY <2>1, Regrouped
<1> QED BY <1>2, <1>6, <1>9, <1>10, <1>12 DEF more

-----------------------------------------------------------------------------
(* How far a diff has been read: sections and hunks belong together. *)
ReadStates ==
  [files : Seq(FileParts), current : BOOLEAN, hunk : ReadHunks,
   reading : {"outer", "body", "skip"}, dropped : BOOLEAN, err : BOOLEAN]
WellRead ==
  {st \in ReadStates :
     /\ st.current \/ st.reading = "body" => st.files # <<>>
     /\ st.reading # "body" => st.hunk = NoHunk}

(* The empty hunk. *)
LEMMA EmptyHunk == NoHunk \in ReadHunks /\ Changes(NoHunk.lines) = <<>>
<1>1. <<>> \in Seq(DiffLines)
  OBVIOUS
<1>2. NoHunk \in ReadHunks /\ NoHunk.lines = <<>>
  BY <1>1 DEF NoHunk, ReadHunks
<1>3. Changes(<<>>) = FlattenSeq(<<>>)
  BY DEF Changes
<1>4. FlattenSeq(<<>>) = <<>>
  BY DEF FlattenSeq
<1> QED BY <1>2, <1>3, <1>4

(* A refusal is for good. *)
LEMMA RefusedIs ==
  ASSUME NEW st \in WellRead
  PROVE  Refused(st) \in WellRead /\ Refused(st).err /\ Refused(st).reading = st.reading
BY DEF Refused, WellRead, ReadStates

(* A hunk that ends is written to the last file. *)
LEMMA EndHunkIs ==
  ASSUME NEW st \in WellRead
  PROVE  LET e == EndHunk(st)
         IN  /\ e \in WellRead
             /\ st.reading # "body" => e = st
             /\ st.reading = "body" =>
                  \/ e.err
                  \/ /\ e.err = st.err /\ e.dropped = st.dropped
                     /\ e.reading = "outer"
                     /\ ChangesOf(e.files)
                          = ChangesOf(st.files) \o Changes(st.hunk.lines)
<1> DEFINE e == EndHunk(st)
<1>1. CASE st.reading # "body"
  BY <1>1 DEF EndHunk
<1>2. CASE st.reading = "body" /\ Before(st.hunk) = After(st.hunk)
  <2>1. e = Refused(st)
    BY <1>2 DEF EndHunk
  <2> QED BY <1>2, <2>1, RefusedIs
<1>3. CASE st.reading = "body" /\ Before(st.hunk) # After(st.hunk)
  <2> DEFINE more == [st.files EXCEPT ![Len(st.files)].hunks = Append(@, st.hunk)]
  <2>1. st.files \in Seq(FileParts) /\ st.files # <<>> /\ st.hunk \in ReadHunks
    BY <1>3 DEF WellRead, ReadStates
  <2>2. /\ more \in Seq(FileParts) /\ more # <<>>
        /\ ChangesOf(more) = ChangesOf(st.files) \o Changes(st.hunk.lines)
    BY <2>1, LastMore
  <2>3. e = [st EXCEPT !.reading = "outer", !.hunk = NoHunk, !.files = more]
    BY <1>3 DEF EndHunk, WellRead, ReadStates
  <2> HIDE DEF more, e
  <2>4. /\ e.reading = "outer" /\ e.hunk = NoHunk /\ e.files = more
        /\ e.err = st.err /\ e.dropped = st.dropped /\ e.current = st.current
        /\ e \in ReadStates
    BY <2>2, <2>3, EmptyHunk DEF WellRead, ReadStates
  <2>5. e \in WellRead
    BY <2>2, <2>4 DEF WellRead
  <2> QED BY <1>3, <2>2, <2>4, <2>5 DEF e
<1> QED BY <1>1, <1>2, <1>3

(* The lines behind line i are in a hunk until the next section starts. *)
Goes(ls, i) == i >= 1 /\ (ls[i].mark = "@" \/ InHunk(ls, i))

(* A line is in the hunk of the line before it, if it starts no section. *)
LEMMA InHunkIs ==
  ASSUME NEW ls \in Seq(DiffLines), NEW i \in 1..Len(ls)
  PROVE  InHunk(ls, i) <=> Goes(ls, i - 1) /\ ~SectionStart(ls, i)
<1>0. Len(ls) \in Nat /\ i - 1 \in Nat
  OBVIOUS
<1>1. ASSUME InHunk(ls, i) PROVE Goes(ls, i - 1) /\ ~SectionStart(ls, i)
  <2>1. PICK h \in 1..(i - 1) :
          ls[h].mark = "@" /\ \A k \in (h + 1)..i : ~SectionStart(ls, k)
    BY <1>1 DEF InHunk
  <2>2. ~SectionStart(ls, i)
    <3>1. i \in (h + 1)..i
      OBVIOUS
    <3> QED BY <2>1, <3>1
  <2>3. CASE h = i - 1
    BY <2>1, <2>2, <2>3 DEF Goes
  <2>4. CASE h # i - 1
    <3>1. h \in 1..(i - 1 - 1) /\ i - 1 >= 1
          /\ \A k \in (h + 1)..(i - 1) : k \in (h + 1)..i
      BY <2>4
    <3>2. InHunk(ls, i - 1)
      BY <2>1, <3>1 DEF InHunk
    <3> QED BY <2>2, <3>1, <3>2 DEF Goes
  <2> QED BY <2>3, <2>4
<1>2. ASSUME Goes(ls, i - 1), ~SectionStart(ls, i) PROVE InHunk(ls, i)
  <2>1. CASE ls[i - 1].mark = "@"
    <3>1. i - 1 \in 1..(i - 1) /\ \A k \in (i - 1 + 1)..i : k = i
      BY <1>2 DEF Goes
    <3>2. \A k \in (i - 1 + 1)..i : ~SectionStart(ls, k)
      BY <1>2, <3>1
    <3> QED BY <2>1, <3>1, <3>2 DEF InHunk
  <2>2. CASE InHunk(ls, i - 1)
    <3>1. PICK h \in 1..(i - 1 - 1) :
            ls[h].mark = "@" /\ \A k \in (h + 1)..(i - 1) : ~SectionStart(ls, k)
      BY <2>2 DEF InHunk
    <3>2. h \in 1..(i - 1) /\ \A k \in (h + 1)..i : k \in (h + 1)..(i - 1) \/ k = i
      OBVIOUS
    <3>3. \A k \in (h + 1)..i : ~SectionStart(ls, k)
      BY <1>2, <3>1, <3>2
    <3> QED BY <3>1, <3>2, <3>3 DEF InHunk
  <2> QED BY <1>2, <2>1, <2>2 DEF Goes
<1> QED BY <1>1, <1>2

(* The body goes on as long as no section starts. *)
LEMMA ContinuesIs ==
  ASSUME NEW ls \in Seq(DiffLines), NEW i \in 1..Len(ls), ~SectionStart(ls, i)
  PROVE  BodyContinues(ls, i)
           <=> InBody(ls[i]) \/ ls[i].mark = "\\" \/ BodyContinues(ls, i + 1)
<1>1. ASSUME NEW j \in i..Len(ls), InBody(ls[j]) \/ ls[j].mark = "\\",
             \A k \in i..j : ~SectionStart(ls, k), j # i
      PROVE  BodyContinues(ls, i + 1)
  <2>1. j \in (i + 1)..Len(ls) /\ \A k \in (i + 1)..j : k \in i..j
    BY <1>1
  <2> QED BY <1>1, <2>1 DEF BodyContinues
<1>2. ASSUME BodyContinues(ls, i + 1) PROVE BodyContinues(ls, i)
  <2>1. PICK j \in (i + 1)..Len(ls) :
          /\ InBody(ls[j]) \/ ls[j].mark = "\\"
          /\ \A k \in (i + 1)..j : ~SectionStart(ls, k)
    BY <1>2 DEF BodyContinues
  <2>2. j \in i..Len(ls) /\ \A k \in i..j : k = i \/ k \in (i + 1)..j
    OBVIOUS
  <2>3. \A k \in i..j : ~SectionStart(ls, k)
    BY <2>1, <2>2
  <2> QED BY <2>1, <2>2, <2>3 DEF BodyContinues
<1>3. ASSUME InBody(ls[i]) \/ ls[i].mark = "\\" PROVE BodyContinues(ls, i)
  <2>1. i \in i..Len(ls) /\ \A k \in i..i : k = i
    OBVIOUS
  <2> QED BY <1>3, <2>1 DEF BodyContinues
<1>4. ASSUME BodyContinues(ls, i)
      PROVE  InBody(ls[i]) \/ ls[i].mark = "\\" \/ BodyContinues(ls, i + 1)
  <2>1. PICK j \in i..Len(ls) :
          /\ InBody(ls[j]) \/ ls[j].mark = "\\"
          /\ \A k \in i..j : ~SectionStart(ls, k)
    BY <1>4 DEF BodyContinues
  <2> QED BY <1>1, <2>1
<1> QED BY <1>2, <1>3, <1>4

(* What the first i lines of a diff change. *)
ChangeAt(ls, k) == IF InHunk(ls, k) THEN Change(ls[k]) ELSE <<>>
WrittenTo(ls, i) == FlattenSeq([k \in 1..i |-> ChangeAt(ls, k)])

(* One line more. *)
LEMMA WrittenMore ==
  ASSUME NEW ls \in Seq(DiffLines), NEW i \in 1..Len(ls)
  PROVE  /\ WrittenTo(ls, i - 1) \in Seq(DiffLines)
         /\ WrittenTo(ls, i) = WrittenTo(ls, i - 1) \o ChangeAt(ls, i)
         /\ ChangeAt(ls, i) = <<>> => WrittenTo(ls, i) = WrittenTo(ls, i - 1)
<1> DEFINE n == i - 1
           q == [k \in 1..n |-> ChangeAt(ls, k)]
           p == [k \in 1..n + 1 |-> ChangeAt(ls, k)]
<1>1. n \in Nat /\ n + 1 = i /\ \A k \in 1..n + 1 : k \in 1..Len(ls)
  OBVIOUS
<1> HIDE DEF n
<1>2. \A k \in 1..n + 1 : ChangeAt(ls, k) \in Seq(DiffLines)
  <2> SUFFICES ASSUME NEW k \in 1..n + 1 PROVE ChangeAt(ls, k) \in Seq(DiffLines)
    OBVIOUS
  <2>1. ls[k] \in DiffLines
    BY <1>1
  <2>2. <<>> \in Seq(DiffLines)
    OBVIOUS
  <2> QED BY <2>1, <2>2, ChangeIs DEF ChangeAt
<1>3. \A k \in 1..n : k \in 1..n + 1
  BY <1>1
<1>4. /\ q \in [1..n -> Seq(DiffLines)] /\ p \in [1..n + 1 -> Seq(DiffLines)]
      /\ \A k \in 1..n : p[k] = q[k]
  BY <1>2, <1>3
<1>5. p[n + 1] = ChangeAt(ls, i)
  <2>1. n + 1 \in 1..n + 1
    BY <1>1
  <2> QED BY <1>1, <2>1
<1>6. WrittenTo(ls, i) = FlattenSeq(p) /\ WrittenTo(ls, i - 1) = FlattenSeq(q)
  BY <1>1 DEF WrittenTo, n
<1> HIDE DEF p, q
<1>7. FlattenSeq(q) \in Seq(DiffLines) /\ FlattenSeq(p) = FlattenSeq(q) \o p[n + 1]
  BY <1>1, <1>4, OneMore
<1>8. FlattenSeq(q) \o <<>> = FlattenSeq(q)
  BY <1>7, JoinedTwice
<1> QED BY <1>5, <1>6, <1>7, <1>8

-----------------------------------------------------------------------------
(* Nothing has been refused or dropped, and what has been read so far is    *)
(* what the lines so far change.                                            *)
Whole(st) == ~st.err /\ ~st.dropped
KeptSoFar(ls, i, st) ==
  /\ st.reading = "body" =>
       /\ Goes(ls, i)
       /\ WrittenTo(ls, i) = ChangesOf(st.files) \o Changes(st.hunk.lines)
  /\ st.reading # "body" => WrittenTo(ls, i) = ChangesOf(st.files)
  /\ st.reading = "outer" => ~Goes(ls, i) \/ ~BodyContinues(ls, i + 1)
  /\ st.reading = "skip" => ~Goes(ls, i) /\ HeaderPair(ls, i)

(* What has been read is a sequence of lines. *)
LEMMA ReadLinesOf ==
  ASSUME NEW st \in WellRead
  PROVE  ChangesOf(st.files) \in Seq(DiffLines) /\ Changes(st.hunk.lines) \in Seq(DiffLines)
<1> DEFINE file == [old |-> <<>>, new |-> <<>>, hunks |-> <<>>]
           entry == [mark |-> "", text |-> ""]
<1>1. file \in FileParts /\ file.hunks = <<>>
  <2>1. <<>> \in Seq(Seq(STRING)) /\ <<>> \in Seq(ReadHunks)
    OBVIOUS
  <2> QED BY <2>1 DEF FileParts
<1>2. entry \in DiffLines
  BY DEF DiffLines
<1>3. st.files \in Seq(FileParts) /\ st.hunk.lines \in Seq(DiffLines)
  BY DEF WellRead, ReadStates, ReadHunks
<1> HIDE DEF file, entry
<1> QED BY <1>1, <1>2, <1>3, FilesMore, ChangesMore

(* A pair of headers begins a section without hunks. *)
LEMMA HeadersBegin ==
  ASSUME NEW ls \in Seq(DiffLines), NEW i \in 1..Len(ls), HeaderPair(ls, i)
  PROVE  LET file == FileSection(ls[i], ls[i + 1])
         IN  file \in FileParts /\ file.hunks = <<>>
<1>1. ls[i].text \in DOMAIN OldNames /\ ls[i + 1].text \in DOMAIN NewNames
  BY DEF HeaderPair, IsOld, IsNew
<1>2. OldNames[ls[i].text] \in Seq(Seq(STRING)) /\ NewNames[ls[i + 1].text] \in Seq(Seq(STRING))
  BY <1>1, NamesAssumption DEF NamesOK
<1>3. <<>> \in Seq(ReadHunks)
  OBVIOUS
<1> QED BY <1>2, <1>3 DEF FileSection, FileParts

(* Between hunks, a line that is in none. *)
LEMMA OuterReads ==
  ASSUME NEW ls \in Seq(DiffLines), NEW i \in 1..Len(ls), NEW st \in WellRead,
         st.reading = "outer"
  PROVE  LET o == Outer(ls, st, i)
         IN  /\ o \in WellRead
             /\ Whole(o) => /\ Whole(st)
                            /\ WrittenTo(ls, i) = ChangesOf(st.files) /\ ~InHunk(ls, i)
                                 => KeptSoFar(ls, i, o)
<1> DEFINE o == Outer(ls, st, i)
<1>1. CASE st.err
  <2>1. o = st
    BY <1>1 DEF Outer
  <2> QED BY <1>1, <2>1 DEF Whole
<1>2. CASE ~st.err /\ HeaderPair(ls, i)
  <2> DEFINE file == FileSection(ls[i], ls[i + 1])
             more == Append(st.files, file)
  <2>1. file \in FileParts /\ file.hunks = <<>>
    BY <1>2, HeadersBegin
  <2>2. st.files \in Seq(FileParts)
    BY DEF WellRead, ReadStates
  <2>3. more \in Seq(FileParts) /\ more # <<>> /\ ChangesOf(more) = ChangesOf(st.files)
    BY <2>1, <2>2, Appended, FilesMore
  <2>4. o = [st EXCEPT !.files = more, !.current = TRUE, !.reading = "skip"]
    <3>1. st.files \in Seq(FileParts) /\ o = [st EXCEPT !.files = Append(@, file),
                                              !.current = TRUE, !.reading = "skip"]
      <4>1. ls[i].mark = "-"
        BY <1>2 DEF HeaderPair, IsOld
      <4> QED BY <1>2, <2>2, <4>1 DEF Outer
    <3> QED BY <3>1 DEF WellRead, ReadStates
  <2> HIDE DEF more, file, o
  <2>5. /\ o.files = more /\ o.reading = "skip" /\ o.hunk = st.hunk
        /\ o.err = st.err /\ o.dropped = st.dropped /\ o \in ReadStates
    BY <2>3, <2>4 DEF WellRead, ReadStates
  <2>6. o \in WellRead
    BY <2>3, <2>5 DEF WellRead
  <2>7. ls[i].mark # "@"
    BY <1>2 DEF HeaderPair, IsOld
  <2>8. ~InHunk(ls, i) => ~Goes(ls, i)
    BY <2>7 DEF Goes
  <2> QED BY <1>2, <2>3, <2>5, <2>6, <2>8 DEF Whole, KeptSoFar, o
<1>3. CASE /\ ~st.err /\ ~HeaderPair(ls, i)
           /\ IsOld(ls[i]) \/ IsNew(ls[i]) \/ ls[i].mark = "d"
  <2>1. o = [st EXCEPT !.current = FALSE]
    BY <1>3 DEF Outer, IsOld, IsNew
  <2>2. ls[i].mark # "@"
    BY <1>3 DEF IsOld, IsNew
  <2>3. ~InHunk(ls, i) => ~Goes(ls, i)
    BY <2>2 DEF Goes
  <2> HIDE DEF o
  <2>4. /\ o.files = st.files /\ o.reading = "outer" /\ o.hunk = st.hunk
        /\ o.err = st.err /\ o.dropped = st.dropped /\ o \in WellRead
    BY <2>1 DEF WellRead, ReadStates
  <2> QED BY <2>3, <2>4 DEF Whole, KeptSoFar, o
<1>4. CASE /\ ~st.err /\ ~HeaderPair(ls, i)
           /\ ~(IsOld(ls[i]) \/ IsNew(ls[i]) \/ ls[i].mark = "d")
           /\ ls[i].mark = "@"
  <2>1. o = IF ~st.current \/ Malformed(ls[i]) THEN Refused(st)
                                               ELSE [st EXCEPT !.reading = "body"]
    BY <1>4 DEF Outer
  <2>2. CASE ~st.current \/ Malformed(ls[i])
    <3>1. o = Refused(st)
      BY <2>1, <2>2
    <3> QED BY <3>1, RefusedIs DEF Whole
  <2>3. CASE ~(~st.current \/ Malformed(ls[i]))
    <3>1. o = [st EXCEPT !.reading = "body"]
      BY <2>1, <2>3
    <3> HIDE DEF o
    <3>2. /\ o.files = st.files /\ o.reading = "body" /\ o.hunk = NoHunk
          /\ o.err = st.err /\ o.dropped = st.dropped /\ o \in WellRead
      BY <2>3, <3>1 DEF WellRead, ReadStates
    <3>3. Goes(ls, i)
      BY <1>4 DEF Goes
    <3>4. ChangesOf(o.files) \o Changes(o.hunk.lines) = ChangesOf(st.files)
      <4>1. ChangesOf(st.files) \in Seq(DiffLines)
        BY ReadLinesOf
      <4>2. ChangesOf(st.files) \o <<>> = ChangesOf(st.files)
        BY <4>1, JoinedTwice
      <4> QED BY <3>2, <4>2, EmptyHunk
    <3> QED BY <3>2, <3>3, <3>4 DEF Whole, KeptSoFar, o
  <2> QED BY <2>2, <2>3
<1>5. CASE /\ ~st.err /\ ~HeaderPair(ls, i)
           /\ ~(IsOld(ls[i]) \/ IsNew(ls[i]) \/ ls[i].mark = "d")
           /\ ls[i].mark # "@"
  <2>1. o = st
    BY <1>5 DEF Outer
  <2>3. ~InHunk(ls, i) => ~Goes(ls, i)
    BY <1>5 DEF Goes
  <2> QED BY <2>1, <2>3 DEF Whole, KeptSoFar
<1> QED BY <1>1, <1>2, <1>3, <1>4, <1>5

(* Between hunks, a line that is of no account to the one that ended. *)
LEMMA OuterPasses ==
  ASSUME NEW ls \in Seq(DiffLines), NEW i \in 1..Len(ls), NEW st \in WellRead,
         st.reading = "outer", ~SectionStart(ls, i), ~BodyContinues(ls, i),
         Goes(ls, i - 1), WrittenTo(ls, i - 1) = ChangesOf(st.files)
  PROVE  Outer(ls, st, i) = st /\ KeptSoFar(ls, i, st)
<1>1. ~InBody(ls[i]) /\ ls[i].mark # "\\" /\ ~BodyContinues(ls, i + 1)
  BY ContinuesIs
<1>2. ls[i].mark \notin {"@", "d", "+", "-", " "}
  BY <1>1 DEF SectionStart, InBody
<1>3. Outer(ls, st, i) = st
  BY <1>2 DEF Outer, HeaderPair, IsOld, IsNew
<1>4. ChangeAt(ls, i) = <<>>
  BY <1>2 DEF ChangeAt, Change
<1>5. WrittenTo(ls, i) = WrittenTo(ls, i - 1)
  BY <1>4, WrittenMore
<1> QED BY <1>1, <1>3, <1>5 DEF KeptSoFar

(* A line that the hunk takes. *)
LEMMA BodyTakes ==
  ASSUME NEW ls \in Seq(DiffLines), NEW i \in 1..Len(ls), NEW st \in WellRead,
         st.reading = "body", ~SectionStart(ls, i), NEW entry \in DiffLines,
         Change(entry) = Change(ls[i])
  PROVE  LET taken == [st EXCEPT !.hunk.lines = Append(@, entry)]
         IN  /\ taken \in WellRead
             /\ Whole(taken) => /\ Whole(st)
                                /\ KeptSoFar(ls, i - 1, st) => KeptSoFar(ls, i, taken)
<1> DEFINE taken == [st EXCEPT !.hunk.lines = Append(@, entry)]
           more == Append(st.hunk.lines, entry)
<1>1. st.hunk.lines \in Seq(DiffLines)
  BY DEF WellRead, ReadStates, ReadHunks
<1>2. more \in Seq(DiffLines) /\ Changes(more) = Changes(st.hunk.lines) \o Change(entry)
  BY <1>1, ChangesMore, Appended
<1>3. taken.hunk.lines = more
  BY DEF WellRead, ReadStates, ReadHunks
<1>4. taken.hunk \in ReadHunks
  BY <1>2, <1>3 DEF WellRead, ReadStates, ReadHunks
<1>5. /\ taken.files = st.files /\ taken.reading = "body"
      /\ taken.err = st.err /\ taken.dropped = st.dropped
  BY DEF WellRead, ReadStates
<1>6. taken \in WellRead
  BY <1>4 DEF WellRead, ReadStates
<1> HIDE DEF taken, more
<1>7. ASSUME KeptSoFar(ls, i - 1, st) PROVE KeptSoFar(ls, i, taken)
  <2>1. Goes(ls, i - 1) /\ WrittenTo(ls, i - 1) = ChangesOf(st.files) \o Changes(st.hunk.lines)
    BY <1>7 DEF KeptSoFar
  <2>2. InHunk(ls, i) /\ Goes(ls, i)
    <3>1. InHunk(ls, i)
      BY <2>1, InHunkIs
    <3> QED BY <3>1 DEF Goes
  <2>3. WrittenTo(ls, i) = WrittenTo(ls, i - 1) \o Change(entry)
    BY <2>2, WrittenMore DEF ChangeAt
  <2>4. (ChangesOf(st.files) \o Changes(st.hunk.lines)) \o Change(entry)
          = ChangesOf(st.files) \o (Changes(st.hunk.lines) \o Change(entry))
    <3>1. /\ ChangesOf(st.files) \in Seq(DiffLines)
          /\ Changes(st.hunk.lines) \in Seq(DiffLines)
          /\ Change(entry) \in Seq(DiffLines)
      BY ReadLinesOf, ChangeIs
    <3> QED BY ONLY <3>1, Regrouped
  <2>5. WrittenTo(ls, i) = ChangesOf(taken.files) \o Changes(taken.hunk.lines)
    BY <1>2, <1>3, <1>5, <2>1, <2>3, <2>4
  <2> QED BY <1>5, <2>2, <2>5 DEF KeptSoFar
<1> QED BY <1>5, <1>6, <1>7 DEF Whole, taken

-----------------------------------------------------------------------------
(* What a line keeps that is read in state st and leaves state b. *)
LineRead(ls, i, st, b) ==
  /\ b \in WellRead
  /\ Whole(b) => /\ Whole(st)
                 /\ KeptSoFar(ls, i - 1, st) => KeptSoFar(ls, i, b)

(* A line that ends the hunk and begins a section. *)
LEMMA SectionEndsHunk ==
  ASSUME NEW ls \in Seq(DiffLines), NEW i \in 1..Len(ls), NEW st \in WellRead,
         st.reading = "body"
  PROVE  LET o == Outer(ls, EndHunk(st), i)
         IN  /\ o \in WellRead
             /\ Whole(o) => Whole(st)
             /\ SectionStart(ls, i) => LineRead(ls, i, st, o)
<1> DEFINE e == EndHunk(st)
           o == Outer(ls, e, i)
<1>1. /\ e \in WellRead
      /\ \/ e.err
         \/ /\ e.err = st.err /\ e.dropped = st.dropped
            /\ e.reading = "outer"
            /\ ChangesOf(e.files) = ChangesOf(st.files) \o Changes(st.hunk.lines)
  BY EndHunkIs
<1> HIDE DEF e
<1>2. CASE e.err
  <2>1. o = e
    BY <1>2 DEF Outer
  <2> QED BY <1>1, <1>2, <2>1 DEF LineRead, Whole, e
<1>3. CASE ~e.err
  <2>1. /\ o \in WellRead
        /\ Whole(o) => /\ Whole(e)
                       /\ WrittenTo(ls, i) = ChangesOf(e.files) /\ ~InHunk(ls, i)
                            => KeptSoFar(ls, i, o)
    BY <1>1, <1>3, OuterReads
  <2>2. Whole(e) => Whole(st)
    BY <1>1, <1>3 DEF Whole
  <2>3. ASSUME SectionStart(ls, i), KeptSoFar(ls, i - 1, st)
        PROVE  WrittenTo(ls, i) = ChangesOf(e.files) /\ ~InHunk(ls, i)
    <3>1. ~InHunk(ls, i)
      BY <2>3, InHunkIs
    <3>2. WrittenTo(ls, i) = WrittenTo(ls, i - 1)
      BY <3>1, WrittenMore DEF ChangeAt
    <3> QED BY <1>1, <1>3, <2>3, <3>1, <3>2 DEF KeptSoFar
  <2> HIDE DEF o
  <2> QED BY <2>1, <2>2, <2>3 DEF LineRead, o, e
<1> QED BY <1>2, <1>3

(* A line that ends the hunk behind which nothing of it comes. *)
LEMMA HunkEnds ==
  ASSUME NEW ls \in Seq(DiffLines), NEW i \in 1..Len(ls), NEW st \in WellRead,
         st.reading = "body", Change(ls[i]) = <<>>, ~BodyContinues(ls, i + 1)
  PROVE  LineRead(ls, i, st, EndHunk(st))
<1> DEFINE e == EndHunk(st)
<1>1. /\ e \in WellRead
      /\ \/ e.err
         \/ /\ e.err = st.err /\ e.dropped = st.dropped
            /\ e.reading = "outer"
            /\ ChangesOf(e.files) = ChangesOf(st.files) \o Changes(st.hunk.lines)
  BY EndHunkIs
<1> HIDE DEF e
<1>2. CASE e.err
  BY <1>1, <1>2 DEF LineRead, Whole, e
<1>3. CASE ~e.err
  <2>1. WrittenTo(ls, i) = WrittenTo(ls, i - 1)
    BY WrittenMore DEF ChangeAt
  <2>2. KeptSoFar(ls, i - 1, st) => KeptSoFar(ls, i, e)
    BY <1>1, <1>3, <2>1 DEF KeptSoFar
  <2>3. Whole(e) => Whole(st)
    BY <1>1, <1>3 DEF Whole
  <2> QED BY <1>1, <2>2, <2>3 DEF LineRead, e
<1> QED BY <1>2, <1>3

(* A refusal keeps everything. *)
LEMMA RefusedReads ==
  ASSUME NEW ls, NEW i, NEW st \in WellRead PROVE LineRead(ls, i, st, Refused(st))
BY RefusedIs DEF LineRead, Whole

(* A blank line has no first character. *)
LEMMA BlankMark == BlankLine.mark = ""
BY DEF BlankLine, DiffLine

(* What the first character of a line says of its place. *)
LineKinds(ls, i) ==
  /\ OrphanedFileHeader(ls, i) => ls[i].mark \in {"-", "+"}
  /\ SectionStart(ls, i) => ls[i].mark \in {"@", "d", "-"}
  /\ ls[i].mark \in {"@", "d"} => SectionStart(ls, i)
  /\ DashRule(ls[i]) => ls[i].mark = "-"
  /\ ls[i] = BlankLine => ls[i].mark = ""

(* The places are so marked. *)
LEMMA LinesAreOfAKind == ASSUME NEW ls, NEW i PROVE LineKinds(ls, i)
<1>1. ls[i] = BlankLine => ls[i].mark = ""
  BY BlankMark
<1>2. /\ OrphanedFileHeader(ls, i) => ls[i].mark \in {"-", "+"}
      /\ SectionStart(ls, i) => ls[i].mark \in {"@", "d", "-"}
      /\ DashRule(ls[i]) => ls[i].mark = "-"
      /\ ls[i].mark \in {"@", "d"} => SectionStart(ls, i)
  BY DEF OrphanedFileHeader, SectionStart, HeaderPair, IsOld, IsNew, DashRule
<1> QED BY <1>1, <1>2 DEF LineKinds

(* What the body does with a line: one that begins a section, *)
LEMMA BodyAtSection ==
  ASSUME NEW ls, NEW i, NEW st, SectionStart(ls, i)
  PROVE  Body(ls, st, i) = Outer(ls, EndHunk(st), i)
<1>1. /\ ls[i] # BlankLine /\ ls[i].mark # "\\"
      /\ ~(~InBody(ls[i]) /\ ls[i].mark \notin {"\\", "@", "d"})
  BY LinesAreOfAKind DEF LineKinds, InBody
<1> QED BY <1>1 DEF Body

(* half of a file header, *)
LEMMA BodyAtOrphan ==
  ASSUME NEW ls, NEW i, NEW st, ~SectionStart(ls, i), OrphanedFileHeader(ls, i)
  PROVE  Body(ls, st, i)
           = IF BodyContinues(ls, i + 1) THEN Refused(st)
             ELSE Outer(ls, EndHunk([st EXCEPT !.dropped = TRUE]), i)
<1>1. ls[i] # BlankLine /\ ls[i].mark # "\\" /\ InBody(ls[i])
  BY LinesAreOfAKind DEF LineKinds, InBody
<1> QED BY <1>1 DEF Body

(* the marker of a missing newline, *)
LEMMA BodyAtMarker ==
  ASSUME NEW ls, NEW i, NEW st, ls[i].mark = "\\"
  PROVE  ~SectionStart(ls, i) /\ Body(ls, st, i) = [st EXCEPT !.hunk = Unended(@)]
<1>1. /\ ls[i] # BlankLine /\ ~InBody(ls[i]) /\ ~SectionStart(ls, i)
      /\ ~OrphanedFileHeader(ls, i) /\ ~DashRule(ls[i])
  BY LinesAreOfAKind DEF LineKinds, InBody
<1> QED BY <1>1 DEF Body

(* a blank line, which ends the hunk *)
LEMMA BodyAtBlank ==
  ASSUME NEW ls, NEW i, NEW st, ls[i] = BlankLine, ~BlankIsContext(ls, st.hunk.lines, i)
  PROVE  Body(ls, st, i) = EndHunk(st)
<1>1. /\ ls[i].mark = "" /\ ~InBody(ls[i]) /\ ~SectionStart(ls, i)
      /\ ~OrphanedFileHeader(ls, i) /\ ~DashRule(ls[i])
  BY LinesAreOfAKind DEF LineKinds, InBody
<1> QED BY <1>1 DEF Body

(* or belongs to it, *)
LEMMA BodyAtBlankContext ==
  ASSUME NEW ls, NEW i, NEW st, ls[i] = BlankLine, BlankIsContext(ls, st.hunk.lines, i)
  PROVE  Body(ls, st, i) = IF BlankSplitsAChange(ls, st.hunk.lines, i) THEN Refused(st)
                           ELSE [st EXCEPT !.hunk.lines = Append(@, Context)]
<1>1. /\ ls[i].mark = "" /\ ~InBody(ls[i]) /\ ~SectionStart(ls, i)
      /\ ~OrphanedFileHeader(ls, i) /\ ~DashRule(ls[i])
  BY LinesAreOfAKind DEF LineKinds, InBody
<1>2. Body(ls, st, i)
        = CASE ~BlankIsContext(ls, st.hunk.lines, i) -> EndHunk(st)
            [] /\ BlankIsContext(ls, st.hunk.lines, i)
               /\ BlankSplitsAChange(ls, st.hunk.lines, i) -> Refused(st)
            [] OTHER -> [st EXCEPT !.hunk.lines = Append(@, Context)]
  BY <1>1 DEF Body
<1> QED BY <1>2

(* prose, *)
LEMMA BodyAtProse ==
  ASSUME NEW ls, NEW i, NEW st, ~SectionStart(ls, i), ls[i] # BlankLine,
         ~InBody(ls[i]), ls[i].mark # "\\"
  PROVE  Body(ls, st, i) = IF BodyContinues(ls, i + 1) THEN Refused(st) ELSE EndHunk(st)
<1>1. ~OrphanedFileHeader(ls, i) /\ ~DashRule(ls[i]) /\ ls[i].mark \notin {"@", "d"}
  BY LinesAreOfAKind DEF LineKinds, InBody
<1> QED BY <1>1 DEF Body

(* a line of the hunk. *)
LEMMA BodyAtLine ==
  ASSUME NEW ls, NEW i, NEW st, ~SectionStart(ls, i), InBody(ls[i]),
         ~OrphanedFileHeader(ls, i)
  PROVE  Body(ls, st, i)
           = IF DashRule(ls[i]) /\ ~BodyContinues(ls, i + 1) THEN Refused(st)
             ELSE [st EXCEPT !.hunk.lines = Append(@, ls[i])]
<1>1. ls[i] # BlankLine /\ ls[i].mark # "\\"
  BY LinesAreOfAKind DEF LineKinds, InBody
<1> QED BY <1>1 DEF Body

(* Inside a hunk. *)
LEMMA BodyReads ==
  ASSUME NEW ls \in Seq(DiffLines), NEW i \in 1..Len(ls), NEW st \in WellRead,
         st.reading = "body"
  PROVE  LineRead(ls, i, st, Body(ls, st, i))
<1> DEFINE b == Body(ls, st, i)
           l == ls[i]
           more == BodyContinues(ls, i + 1)
           orphan == OrphanedFileHeader(ls, i)
<1>l. l \in DiffLines
  OBVIOUS
<1>1. CASE SectionStart(ls, i)
  <2>1. b = Outer(ls, EndHunk(st), i)
    BY <1>1, BodyAtSection
  <2> QED BY <1>1, <2>1, SectionEndsHunk
<1>2. CASE ~SectionStart(ls, i) /\ orphan
  <2>1. b = IF more THEN Refused(st)
            ELSE Outer(ls, EndHunk([st EXCEPT !.dropped = TRUE]), i)
    BY <1>2, BodyAtOrphan
  <2>2. CASE more
    BY <2>1, <2>2, RefusedReads
  <2>3. CASE ~more
    <3> DEFINE d == [st EXCEPT !.dropped = TRUE]
    <3>1. d \in WellRead /\ d.reading = "body" /\ d.dropped
      BY DEF WellRead, ReadStates
    <3>2. b = Outer(ls, EndHunk(d), i)
      BY <2>1, <2>3
    <3> HIDE DEF d, b
    <3>3. b \in WellRead /\ (Whole(b) => Whole(d))
      BY <3>1, <3>2, SectionEndsHunk
    <3>4. ~Whole(d)
      BY <3>1 DEF Whole
    <3> QED BY <3>3, <3>4 DEF LineRead, b
  <2> QED BY <2>2, <2>3
<1>3. CASE l.mark = "\\"
  <2>1. b = [st EXCEPT !.hunk = Unended(@)]
    BY <1>3, BodyAtMarker
  <2>2. Unended(st.hunk) \in ReadHunks /\ Unended(st.hunk).lines = st.hunk.lines
    <3>1. st.hunk \in ReadHunks
      BY DEF WellRead, ReadStates
    <3> DEFINE sides == CASE Last(st.hunk.lines).mark = " " -> {"before", "after"}
                          [] Last(st.hunk.lines).mark = "-" -> {"before"}
                          [] OTHER -> {"after"}
    <3>2. sides \in SUBSET {"before", "after"}
      OBVIOUS
    <3>3. Unended(st.hunk) = IF st.hunk.lines = <<>> THEN st.hunk
                             ELSE [st.hunk EXCEPT !.unended = @ \cup sides]
      BY DEF Unended
    <3> HIDE DEF sides
    <3> QED BY <3>1, <3>2, <3>3 DEF ReadHunks
  <2> HIDE DEF b
  <2>3. /\ b.files = st.files /\ b.reading = "body" /\ b.hunk.lines = st.hunk.lines
        /\ b.err = st.err /\ b.dropped = st.dropped /\ b \in WellRead
    BY <2>1, <2>2 DEF WellRead, ReadStates
  <2>4. ASSUME KeptSoFar(ls, i - 1, st) PROVE KeptSoFar(ls, i, b)
    <3>1. Goes(ls, i - 1)
      BY <2>4 DEF KeptSoFar
    <3>2. ~SectionStart(ls, i)
      BY <1>3, BodyAtMarker
    <3>3. InHunk(ls, i) /\ Goes(ls, i)
      BY <3>1, <3>2, InHunkIs DEF Goes
    <3>4. WrittenTo(ls, i) = WrittenTo(ls, i - 1)
      BY <1>3, WrittenMore DEF ChangeAt, Change
    <3> QED BY <2>3, <2>4, <3>3, <3>4 DEF KeptSoFar
  <2> QED BY <2>3, <2>4 DEF LineRead, Whole, b
<1>4. CASE l = BlankLine
  <2>m. l.mark = ""
    BY <1>4, LinesAreOfAKind DEF LineKinds
  <2>c. Change(l) = <<>>
    BY <2>m DEF Change
  <2>2. CASE ~BlankIsContext(ls, st.hunk.lines, i)
    <3>1. b = EndHunk(st)
      BY <1>4, <2>2, BodyAtBlank
    <3>2. ~BodyContinues(ls, i + 1)
      BY <2>2 DEF BlankIsContext
    <3> QED BY <2>c, <3>1, <3>2, HunkEnds
  <2>3. CASE /\ BlankIsContext(ls, st.hunk.lines, i)
             /\ BlankSplitsAChange(ls, st.hunk.lines, i)
    <3>1. b = Refused(st)
      BY <1>4, <2>3, BodyAtBlankContext
    <3> QED BY <3>1, RefusedReads
  <2>4. CASE /\ BlankIsContext(ls, st.hunk.lines, i)
             /\ ~BlankSplitsAChange(ls, st.hunk.lines, i)
    <3>1. b = [st EXCEPT !.hunk.lines = Append(@, Context)]
      BY <1>4, <2>4, BodyAtBlankContext
    <3>2. Context \in DiffLines /\ Change(Context) = <<>>
      BY DEF Context, DiffLine, DiffLines, Change
    <3>3. ~SectionStart(ls, i)
      BY <2>m, LinesAreOfAKind DEF LineKinds
    <3>4. LineRead(ls, i, st, [st EXCEPT !.hunk.lines = Append(@, Context)])
      BY <2>c, <3>2, <3>3, BodyTakes DEF LineRead
    <3> QED BY <3>1, <3>4
  <2> QED BY <2>2, <2>3, <2>4
<1>5. CASE ~SectionStart(ls, i) /\ l # BlankLine /\ ~InBody(l) /\ l.mark # "\\"
  <2>1. b = IF more THEN Refused(st) ELSE EndHunk(st)
    BY <1>5, BodyAtProse
  <2>2. CASE more
    BY <2>1, <2>2, RefusedReads
  <2>3. CASE ~more
    <3>1. Change(l) = <<>>
      BY <1>5 DEF Change, InBody
    <3> QED BY <2>1, <2>3, <3>1, HunkEnds
  <2> QED BY <2>2, <2>3
<1>6. CASE ~SectionStart(ls, i) /\ ~orphan /\ InBody(l)
  <2>1. b = IF DashRule(l) /\ ~more THEN Refused(st)
            ELSE [st EXCEPT !.hunk.lines = Append(@, l)]
    BY <1>6, BodyAtLine
  <2>2. CASE DashRule(l) /\ ~more
    BY <2>1, <2>2, RefusedReads
  <2>3. CASE ~(DashRule(l) /\ ~more)
    <3>1. b = [st EXCEPT !.hunk.lines = Append(@, l)]
      BY <2>1, <2>3
    <3>2. LineRead(ls, i, st, [st EXCEPT !.hunk.lines = Append(@, l)])
      BY <1>6, <1>l, BodyTakes DEF LineRead
    <3> QED BY <3>1, <3>2
  <2> QED BY <2>2, <2>3
<1>7. \/ SectionStart(ls, i)
      \/ ~SectionStart(ls, i) /\ orphan
      \/ l.mark = "\\" \/ l = BlankLine
      \/ ~SectionStart(ls, i) /\ l # BlankLine /\ ~InBody(l) /\ l.mark # "\\"
      \/ ~SectionStart(ls, i) /\ ~orphan /\ InBody(l)
  OBVIOUS
<1> HIDE DEF l, orphan
<1> QED BY <1>1, <1>2, <1>3, <1>4, <1>5, <1>6, <1>7

(* Every line. *)
LEMMA LineReads ==
  ASSUME NEW ls \in Seq(DiffLines), NEW i \in 1..Len(ls), NEW st \in WellRead
  PROVE  LineRead(ls, i, st, ParseLine(ls, st, i))
<1> DEFINE b == ParseLine(ls, st, i)
<1>0. st.reading \in {"outer", "body", "skip"}
  BY DEF WellRead, ReadStates
<1>1. CASE st.err
  <2>1. b = st
    BY <1>1 DEF ParseLine
  <2> QED BY <1>1, <2>1 DEF LineRead, Whole
<1>2. CASE ~st.err /\ st.reading = "skip"
  <2>1. b = [st EXCEPT !.reading = "outer"]
    BY <1>2 DEF ParseLine
  <2> HIDE DEF b
  <2>2. /\ b.files = st.files /\ b.reading = "outer"
        /\ b.err = st.err /\ b.dropped = st.dropped /\ b \in WellRead
    BY <1>2, <2>1 DEF WellRead, ReadStates
  <2>3. ASSUME KeptSoFar(ls, i - 1, st) PROVE KeptSoFar(ls, i, b)
    <3>1. ~Goes(ls, i - 1) /\ HeaderPair(ls, i - 1)
      BY <1>2, <2>3 DEF KeptSoFar
    <3>2. ls[i].mark = "+"
      <4>1. i - 1 + 1 = i
        OBVIOUS
      <4> QED BY <3>1, <4>1 DEF HeaderPair, IsNew
    <3>3. ~InHunk(ls, i)
      BY <3>1, InHunkIs
    <3>4. WrittenTo(ls, i) = WrittenTo(ls, i - 1)
      BY <3>3, WrittenMore DEF ChangeAt
    <3> QED BY <1>2, <2>2, <2>3, <3>2, <3>3, <3>4 DEF KeptSoFar, Goes
  <2> QED BY <2>2, <2>3 DEF LineRead, Whole, b
<1>3. CASE ~st.err /\ st.reading = "outer"
  <2>1. b = Outer(ls, st, i)
    BY <1>3 DEF ParseLine
  <2>2. /\ b \in WellRead
        /\ Whole(b) => /\ Whole(st)
                       /\ WrittenTo(ls, i) = ChangesOf(st.files) /\ ~InHunk(ls, i)
                            => KeptSoFar(ls, i, b)
    BY <1>3, <2>1, OuterReads
  <2> HIDE DEF b
  <2>3. ASSUME KeptSoFar(ls, i - 1, st), Whole(b) PROVE KeptSoFar(ls, i, b)
    <3>1. /\ WrittenTo(ls, i - 1) = ChangesOf(st.files)
          /\ ~Goes(ls, i - 1) \/ ~BodyContinues(ls, i)
      <4>1. i - 1 + 1 = i
        OBVIOUS
      <4> QED BY <1>3, <2>3, <4>1 DEF KeptSoFar
    <3>2. CASE InHunk(ls, i)
      <4>1. Goes(ls, i - 1) /\ ~SectionStart(ls, i)
        BY <3>2, InHunkIs
      <4> QED BY <1>3, <2>1, <3>1, <4>1, OuterPasses
    <3>3. CASE ~InHunk(ls, i)
      <4>1. WrittenTo(ls, i) = WrittenTo(ls, i - 1)
        BY <3>3, WrittenMore DEF ChangeAt
      <4> QED BY <2>2, <2>3, <3>1, <3>3, <4>1
    <3> QED BY <3>2, <3>3
  <2> QED BY <2>2, <2>3 DEF LineRead, b
<1>4. CASE ~st.err /\ st.reading = "body"
  <2>1. b = Body(ls, st, i)
    BY <1>4 DEF ParseLine
  <2> QED BY <1>4, <2>1, BodyReads
<1> QED BY <1>0, <1>1, <1>2, <1>3, <1>4

-----------------------------------------------------------------------------
(* What has been read of a diff after any number of its lines. *)
LEMMA ReadLinesAre ==
  ASSUME NEW ls \in Seq(DiffLines)
  PROVE  /\ ReadLines(ls)[Len(ls)] \in WellRead
         /\ Whole(ReadLines(ls)[Len(ls)]) => KeptSoFar(ls, Len(ls), ReadLines(ls)[Len(ls)])
<1> DEFINE N == Len(ls)
           From(g, i) == IF i = 0 THEN Fresh ELSE ParseLine(ls, g[i - 1], i)
           Is(g) == g = [i \in 0..N |-> From(g, i)]
<1>1. N \in Nat
  OBVIOUS
<1>2. Fresh \in WellRead /\ KeptSoFar(ls, 0, Fresh)
  <2>1. <<>> \in Seq(FileParts)
    OBVIOUS
  <2>2. Fresh \in WellRead /\ Fresh.reading = "outer" /\ Fresh.files = <<>>
    BY <2>1, EmptyHunk DEF Fresh, WellRead, ReadStates
  <2>3. WrittenTo(ls, 0) = <<>> /\ ChangesOf(<<>>) = <<>>
    <3>1. FlattenSeq(<<>>) = <<>>
      BY DEF FlattenSeq
    <3>2. [k \in 1..0 |-> ChangeAt(ls, k)] = <<>>
      OBVIOUS
    <3>3. [k \in DOMAIN <<>> |-> ChangesIn(<<>>[k])] = <<>>
      OBVIOUS
    <3> QED BY <3>1, <3>2, <3>3 DEF WrittenTo, ChangesOf
  <2>4. ~Goes(ls, 0)
    BY DEF Goes
  <2> QED BY <2>2, <2>3, <2>4 DEF KeptSoFar
<1> HIDE DEF N
<1>l. \A i \in 1..N : \A v \in WellRead : LineRead(ls, i, v, ParseLine(ls, v, i))
  BY LineReads DEF N
<1>3. \E g : Is(g) /\ \A i \in 0..N : g[i] \in WellRead
  <2> DEFINE step == [i \in 1..N |-> [v \in WellRead |-> ParseLine(ls, v, i)]]
  <2>1. step \in [1..N -> [WellRead -> WellRead]]
    BY <1>l DEF LineRead
  <2> HIDE DEF step
  <2>2. PICK g : Walk(g, N, WellRead, Fresh, step)
    BY <1>1, <1>2, <2>1, WalkExists
  <2>3. /\ g \in [0..N -> WellRead] /\ g[0] = Fresh
        /\ \A i \in 1..N : g[i] = step[i][g[i - 1]]
    BY <2>2 DEF Walk
  <2>4. ASSUME NEW i \in 0..N PROVE g[i] = From(g, i)
    <3>1. CASE i = 0
      BY <2>3, <3>1
    <3>2. CASE i # 0
      <4>1. i \in 1..N /\ i - 1 \in 0..N
        BY <1>1, <3>2
      <4>2. g[i - 1] \in WellRead
        BY <2>3, <4>1
      <4>3. step[i][g[i - 1]] = ParseLine(ls, g[i - 1], i)
        BY <4>1, <4>2 DEF step
      <4> QED BY <2>3, <3>2, <4>1, <4>3
    <3> QED BY <3>1, <3>2
  <2> HIDE DEF From
  <2> QED BY <2>3, <2>4
<1> DEFINE f == CHOOSE g : Is(g)
<1>4. Is(f)
  <2> HIDE DEF Is
  <2> QED BY <1>3
<1>5. \A i \in 0..N : f[i] = From(f, i)
  <2> HIDE DEF From, f
  <2> QED BY <1>4
<1>6. ReadLines(ls) = f
  BY DEF ReadLines, N
<1> HIDE DEF f
<1> DEFINE B == {k \in Nat : k <= N => /\ f[k] \in WellRead
                                       /\ Whole(f[k]) => KeptSoFar(ls, k, f[k])}
<1>7. 0 \in B
  <2>1. 0 \in 0..N
    BY <1>1
  <2> QED BY <1>2, <1>5, <2>1
<1>8. ASSUME NEW k \in Nat, k \in B PROVE k + 1 \in B
  <2> DEFINE i == k + 1
  <2> SUFFICES ASSUME i <= N
               PROVE  f[i] \in WellRead /\ (Whole(f[i]) => KeptSoFar(ls, i, f[i]))
    BY DEF B
  <2>1. i \in 1..N /\ i \in 0..N /\ i # 0 /\ i - 1 = k /\ k <= N
    BY <1>1
  <2> HIDE DEF i
  <2>2. f[i] = ParseLine(ls, f[k], i)
    BY <1>5, <2>1
  <2>3. f[k] \in WellRead /\ (Whole(f[k]) => KeptSoFar(ls, k, f[k]))
    BY <1>8, <2>1
  <2>4. LineRead(ls, i, f[k], f[i])
    BY <1>l, <2>1, <2>2, <2>3
  <2> QED BY <2>1, <2>3, <2>4 DEF LineRead
<1>9. N \in B
  <2> HIDE DEF B
  <2> QED BY <1>1, <1>7, <1>8, Upwards
<1> QED BY <1>1, <1>6, <1>9 DEF N

(* A diff that is read is read whole. *)
LEMMA ParseIs ==
  ASSUME NEW ls \in Seq(DiffLines)
  PROVE  /\ Parse(ls).files \in Seq(FileParts)
         /\ Parse(ls).ok => /\ Parse(ls).files # <<>>
                            /\ ChangesOf(Parse(ls).files) = WrittenTo(ls, Len(ls))
<1> DEFINE read == ReadLines(ls)[Len(ls)]
           st == IF read.err THEN read ELSE EndHunk(read)
<1>1. read \in WellRead /\ (Whole(read) => KeptSoFar(ls, Len(ls), read))
  BY ReadLinesAre
<1> HIDE DEF read
<1>2. /\ st \in WellRead
      /\ Whole(st) => Whole(read) /\ ChangesOf(st.files) = WrittenTo(ls, Len(ls))
  <2>1. CASE read.err
    BY <1>1, <2>1 DEF Whole
  <2>2. CASE ~read.err
    <3> DEFINE e == EndHunk(read)
    <3>1. /\ e \in WellRead
          /\ read.reading # "body" => e = read
          /\ read.reading = "body" =>
               \/ e.err
               \/ /\ e.err = read.err /\ e.dropped = read.dropped
                  /\ e.reading = "outer"
                  /\ ChangesOf(e.files) = ChangesOf(read.files) \o Changes(read.hunk.lines)
      BY <1>1, EndHunkIs
    <3> HIDE DEF e
    <3>2. Whole(e) => Whole(read)
      BY <2>2, <3>1 DEF Whole
    <3>3. ASSUME Whole(e) PROVE ChangesOf(e.files) = WrittenTo(ls, Len(ls))
      <4>1. KeptSoFar(ls, Len(ls), read) /\ ~e.err
        BY <1>1, <3>2, <3>3 DEF Whole
      <4> QED BY <3>1, <4>1 DEF KeptSoFar
    <3>4. st = e
      BY <2>2 DEF e
    <3> QED BY <3>1, <3>2, <3>3, <3>4
  <2> QED BY <2>1, <2>2
<1>3. Parse(ls).files = st.files
  BY DEF Parse, Sectioned, EndRead, read
<1>4. Parse(ls).ok => ~st.err /\ ~st.dropped /\ st.files # <<>>
  BY DEF Parse, Sectioned, EndRead, read
<1> HIDE DEF st
<1>5. st.files \in Seq(FileParts)
  BY <1>2 DEF WellRead, ReadStates
<1> QED BY <1>2, <1>3, <1>4, <1>5 DEF Whole

-----------------------------------------------------------------------------
(* The fix. *)

(* What is known of the diff that is being applied. *)
ReadWhole ==
  /\ proposal.diff \in Seq(DiffLines)
  /\ \A pattern \in proposal.patterns : pattern \in Seq(Seq(STRING))
  /\ \A path \in DOMAIN proposal.tree :
       proposal.tree[path] \in [lines : Seq(STRING), ended : BOOLEAN]
  /\ stage \notin {"parse", "refused"} =>
       sections = Parse(proposal.diff).files /\ Parse(proposal.diff).ok

(* It is so when the diff comes, *)
LEMMA InitRead == FixInit => ReadWhole
<1> SUFFICES ASSUME FixInit PROVE ReadWhole
  OBVIOUS
<1>1. PICK family \in DOMAIN Proposals : proposal \in Proposals[family]
  BY DEF FixInit
<1>2. /\ proposal.diff \in Seq([mark : STRING, text : STRING])
      /\ \A pattern \in proposal.patterns : pattern \in Seq(Seq(STRING))
      /\ \A path \in DOMAIN proposal.tree :
           proposal.tree[path] \in [lines : Seq(STRING), ended : BOOLEAN]
  BY <1>1, FixAssumption DEF ProposalsOK
<1>3. proposal.diff \in Seq(DiffLines)
  <2> DEFINE D == [mark : STRING, text : STRING]
             d == proposal.diff
  <2>1. D \subseteq DiffLines
    BY DEF DiffLines
  <2>2. d \in Seq(D)
    BY <1>2
  <2> HIDE DEF D, d
  <2>3. d \in Seq(DiffLines)
    BY <2>1, <2>2
  <2> QED BY <2>3 DEF d
<1>4. stage = "parse"
  BY DEF FixInit
<1> QED BY <1>2, <1>3, <1>4 DEF ReadWhole

(* and stays so. *)
LEMMA NextRead == ReadWhole /\ [FixNext]_fixVars => ReadWhole'
<1> SUFFICES ASSUME ReadWhole, [FixNext]_fixVars PROVE ReadWhole'
  OBVIOUS
<1>1. proposal' = proposal
  BY DEF FixNext, ParseFix, CheckPaths, Probe, ApplyNext, FileAtFails, CreateCommit,
         CommitFails, Ended, Refuse, fixVars
<1>2. ASSUME ParseFix PROVE ReadWhole'
  <2> DEFINE parsed == Parse(proposal.diff)
  <2>1. \/ parsed.ok /\ sections' = parsed.files
        \/ stage' = "refused"
    BY <1>2 DEF ParseFix, Refuse
  <2> HIDE DEF parsed
  <2>2. stage' \notin {"parse", "refused"} => sections' = parsed.files /\ parsed.ok
    BY <2>1
  <2> QED BY <1>1, <2>2 DEF ReadWhole, parsed
<1>3. ASSUME ~ParseFix PROVE ReadWhole'
  <2>1. /\ stage' # "refused" => sections' = sections
        /\ stage' \in {"parse", "refused"} \/ stage \notin {"parse", "refused"}
    BY <1>3 DEF FixNext, CheckPaths, Probe, ApplyNext, FileAtFails, CreateCommit,
                CommitFails, Ended, Refuse, fixVars
  <2> QED BY <1>1, <2>1 DEF ReadWhole
<1> QED BY <1>2, <1>3

(* It is always so. *)
LEMMA AlwaysRead == FixSpec => []ReadWhole
BY InitRead, NextRead, PTL DEF FixSpec

(* The change of the whole diff is the change of its sections. *)
LEMMA ReadShowsChanges == ReadWhole => NoChangeIsLost
<1> SUFFICES ASSUME ReadWhole, stage \notin {"parse", "refused"}
             PROVE  FlattenSeq([k \in DOMAIN sections |-> ChangesIn(sections[k])])
                      = FlattenSeq([i \in DOMAIN proposal.diff |->
                           IF InHunk(proposal.diff, i) THEN Change(proposal.diff[i]) ELSE <<>>])
  BY DEF NoChangeIsLost
<1>1. /\ proposal.diff \in Seq(DiffLines)
      /\ sections = Parse(proposal.diff).files /\ Parse(proposal.diff).ok
  BY DEF ReadWhole
<1> DEFINE ls == proposal.diff
<1>2. ChangesOf(sections) = WrittenTo(ls, Len(ls))
  BY <1>1, ParseIs
<1>3. DOMAIN ls = 1..Len(ls)
  BY <1>1
<1> QED BY <1>2, <1>3 DEF ChangesOf, WrittenTo, ChangeAt

(* A diff that is read is read whole: what follows a hunk header, up to the *)
(* next section, loses no line that adds or removes, and nothing that       *)
(* stands elsewhere becomes a change.                                       *)
THEOREM ReadWholeOrNotAtAll == FixSpec => []NoChangeIsLost
BY AlwaysRead, ReadShowsChanges, PTL

-----------------------------------------------------------------------------
(* How far the sections have been looked at: all paths together, then the   *)
(* siblings one section after another.                                      *)
NoneThere(file) == \A p \in Probed(file) : p \notin DOMAIN proposal.tree
LookedAt ==
  /\ stage \in {"parse", "check"} => section = 1
  /\ stage \in {"probe", "apply", "commit", "committed"} =>
       \A k \in DOMAIN sections : Admissible(sections[k])
  /\ stage = "probe" => /\ section \in 1..Len(sections)
                        /\ \A k \in DOMAIN sections : k < section => NoneThere(sections[k])
  /\ stage \in {"apply", "commit", "committed"} =>
       \A k \in DOMAIN sections : NoneThere(sections[k])
BoundInv == ReadWhole /\ LookedAt

(* What has been read are files. *)
LEMMA SectionsAre ==
  ASSUME ReadWhole, stage \notin {"parse", "refused"}
  PROVE  /\ sections \in Seq(FileParts) /\ sections # <<>>
         /\ DOMAIN sections = 1..Len(sections) /\ Len(sections) \in Nat
         /\ \A k \in DOMAIN sections : sections[k] \in FileParts
<1>1. sections \in Seq(FileParts) /\ sections # <<>>
  BY ParseIs DEF ReadWhole
<1> QED BY <1>1

(* A refusal looks at nothing any more. *)
LEMMA RefuseKeepsLookedAt == ASSUME Refuse PROVE LookedAt'
BY DEF Refuse, LookedAt

(* Nothing is applied that has not been looked at. *)
LEMMA NextLookedAt ==
  ASSUME BoundInv, [FixNext]_fixVars PROVE LookedAt'
<1>0. ReadWhole /\ LookedAt
  BY DEF BoundInv
<1>1. CASE ParseFix
  <2>1. CASE Refuse
    BY <2>1, RefuseKeepsLookedAt
  <2>2. CASE ~Refuse
    <3>1. stage = "parse" /\ stage' = "check" /\ section' = section
      BY <1>1, <2>2 DEF ParseFix
    <3> QED BY <1>0, <3>1 DEF LookedAt
  <2> QED BY <2>1, <2>2
<1>2. CASE CheckPaths
  <2>1. CASE Refuse
    BY <2>1, RefuseKeepsLookedAt
  <2>2. CASE ~Refuse
    <3>1. /\ stage = "check" /\ stage' = "probe" /\ section' = section
          /\ sections' = sections /\ proposal' = proposal
          /\ \A k \in DOMAIN sections : Admissible(sections[k])
      BY <1>2, <2>2 DEF CheckPaths
    <3>2. section = 1 /\ 1 \in 1..Len(sections)
      <4>1. sections \in Seq(FileParts) /\ sections # <<>>
        BY <1>0, <3>1, SectionsAre
      <4> QED BY <1>0, <3>1, <4>1 DEF LookedAt
    <3>3. \A k \in DOMAIN sections : ~(k < 1)
      BY <1>0, <3>1, SectionsAre
    <3>4. \A k \in DOMAIN sections : Admissible(sections[k])'
      BY <3>1 DEF Admissible, NotARename, DiffPaths
    <3> QED BY <3>1, <3>2, <3>3, <3>4 DEF LookedAt
  <2> QED BY <2>1, <2>2
<1>3. CASE Probe
  <2>1. CASE Refuse
    BY <2>1, RefuseKeepsLookedAt
  <2>2. CASE ~Refuse
    <3>1. /\ stage = "probe" /\ sections' = sections /\ proposal' = proposal
          /\ \A p \in Probed(sections[section]) : p \notin DOMAIN proposal.tree
          /\ IF section = Len(sections) THEN stage' = "apply" /\ section' = 1
             ELSE section' = section + 1 /\ stage' = stage
      BY <1>3, <2>2 DEF Probe
    <3>2. /\ section \in 1..Len(sections) /\ Len(sections) \in Nat
          /\ DOMAIN sections = 1..Len(sections)
          /\ \A k \in DOMAIN sections : k < section => NoneThere(sections[k])
          /\ \A k \in DOMAIN sections : Admissible(sections[k])
      BY <1>0, <3>1, SectionsAre DEF LookedAt
    <3>3. NoneThere(sections[section])
      BY <3>1 DEF NoneThere
    <3>4. \A k \in DOMAIN sections : k <= section => NoneThere(sections[k])
      <4>1. \A k \in 1..Len(sections) : k <= section => k < section \/ k = section
        BY <3>2
      <4> QED BY <3>2, <3>3, <4>1
    <3>5. \A k \in DOMAIN sections : /\ Admissible(sections[k])'
                                     /\ k <= section => NoneThere(sections[k])'
      BY <3>1, <3>2, <3>4 DEF Admissible, NotARename, DiffPaths, NoneThere, Probed
    <3>6. CASE section = Len(sections)
      <4>1. \A k \in DOMAIN sections : k <= section
        BY <3>2, <3>6
      <4> QED BY <3>1, <3>5, <3>6, <4>1 DEF LookedAt
    <3>7. CASE section # Len(sections)
      <4>1. /\ section' \in 1..Len(sections)
            /\ \A k \in DOMAIN sections : k < section' => k <= section
        <5> DEFINE n == Len(sections)
        <5>1. /\ section' = section + 1 /\ n \in Nat /\ section \in 1..n /\ section # n
              /\ DOMAIN sections = 1..n
          BY <3>1, <3>2, <3>7
        <5> HIDE DEF n
        <5>2. section' \in 1..n /\ \A k \in 1..n : k < section' => k <= section
          BY ONLY <5>1
        <5> QED BY <5>1, <5>2 DEF n
      <4> QED BY <3>1, <3>5, <3>7, <4>1 DEF LookedAt
    <3> QED BY <3>6, <3>7
  <2> QED BY <2>1, <2>2
<1>4. CASE ApplyNext \/ CreateCommit
  <2>1. CASE Refuse
    BY <2>1, RefuseKeepsLookedAt
  <2>2. CASE ~Refuse
    <3>1. /\ stage \in {"apply", "commit"} /\ stage' \in {"apply", "commit", "committed"}
          /\ sections' = sections /\ proposal' = proposal
      BY <1>4, <2>2 DEF ApplyNext, CreateCommit
    <3>2. \A k \in DOMAIN sections : Admissible(sections[k]) /\ NoneThere(sections[k])
      BY <1>0, <3>1 DEF LookedAt
    <3>3. \A k \in DOMAIN sections : Admissible(sections[k])' /\ NoneThere(sections[k])'
      BY <3>1, <3>2 DEF Admissible, NotARename, DiffPaths, NoneThere, Probed
    <3> QED BY <3>1, <3>3 DEF LookedAt
  <2> QED BY <2>1, <2>2
<1>5. CASE FileAtFails \/ CommitFails
  BY <1>5, RefuseKeepsLookedAt DEF FileAtFails, CommitFails
<1>6. CASE Ended \/ UNCHANGED fixVars
  <2>1. /\ stage' = stage /\ sections' = sections /\ proposal' = proposal
        /\ section' = section
    BY <1>6 DEF Ended, fixVars
  <2> QED BY <1>0, <2>1 DEF LookedAt, Admissible, NotARename, DiffPaths, NoneThere, Probed
<1> QED BY <1>1, <1>2, <1>3, <1>4, <1>5, <1>6 DEF FixNext

(* It is so at the beginning, and after every step; *)
LEMMA StepsBound ==
  (FixInit => BoundInv) /\ (BoundInv /\ [FixNext]_fixVars => BoundInv')
<1>1. FixInit => BoundInv
  BY InitRead DEF FixInit, BoundInv, LookedAt
<1>2. BoundInv /\ [FixNext]_fixVars => BoundInv'
  BY NextRead, NextLookedAt DEF BoundInv
<1> QED BY <1>1, <1>2

(* so it is always so. *)
LEMMA AlwaysBound == FixSpec => []BoundInv
BY StepsBound, PTL DEF FixSpec

(* What has been looked at is in bounds. *)
LEMMA LookedAtIsInBounds == BoundInv => FixStaysInBounds
<1> SUFFICES ASSUME BoundInv, stage = "committed", NEW path \in Touched
             PROVE  Covered(path) /\ ~Governs(DOMAIN proposal.tree \cup Touched, path)
  BY DEF FixStaysInBounds
<1>1. ReadWhole /\ LookedAt
  BY DEF BoundInv
<1>2. ASSUME NEW other \in Touched
      PROVE  /\ other \in Seq(Seq(STRING)) /\ WritablePath(other)
             /\ AllowsFixPath(proposal.patterns, other)
             /\ \A probe \in Probes(other) : probe \notin DOMAIN proposal.tree
  <2>1. PICK k \in DOMAIN sections : other \in DiffPaths(sections[k])
    BY DEF Touched
  <2>2. Admissible(sections[k]) /\ NoneThere(sections[k])
    BY <1>1 DEF LookedAt
  <2>3. sections[k] \in FileParts
    BY <1>1, SectionsAre
  <2>4. \A probe \in Probes(other) : probe \in Probed(sections[k])
    BY <2>1 DEF Probed
  <2> QED BY <2>1, <2>2, <2>3, <2>4 DEF Admissible, DiffPaths, FileParts, NoneThere
<1>3. Covered(path)
  <2>1. PICK pattern \in proposal.patterns :
          ValidPattern(pattern) /\ MatchPathSegments(pattern, path)
    BY <1>2 DEF AllowsFixPath
  <2>2. pattern \in Seq(Seq(STRING))
    BY <1>1 DEF ReadWhole
  <2> QED BY <1>2, <2>1, <2>2, MatchIsCovered DEF Covered
<1>4. ASSUME NEW k \in 1..(Len(path) - 1)
      PROVE  Len(path) >= 2 /\ k \in DOMAIN Front(path)
  <2>1. path \in Seq(Seq(STRING))
    BY <1>2
  <2>2. Len(path) \in Nat /\ Len(path) >= 2 /\ k \in 1..(Len(path) - 1)
    BY <2>1
  <2>3. DOMAIN Front(path) = 1..(Len(path) - 1)
    BY <2>1, <2>2 DEF Front
  <2> QED BY <2>2, <2>3
<1>5. ASSUME Last(path) \in KustomizationNames, NEW probe \in BootstrapProbes
      PROVE  Append(Front(path), probe) \notin DOMAIN proposal.tree \cup Touched
  <2> DEFINE beside == Append(Front(path), probe)
  <2>1. beside \in Probes(path)
    BY <1>5 DEF Probes
  <2>2. beside \notin DOMAIN proposal.tree
    BY <1>2, <2>1
  <2>3. Last(beside) = probe
    <3>1. Front(path) \in Seq(Seq(STRING))
      BY <1>2 DEF Front
    <3>2. DOMAIN beside = 1..Len(beside) /\ Len(beside) = Len(Front(path)) + 1
      BY <3>1
    <3> QED BY <3>1, <3>2 DEF Last
  <2>4. probe \in BootstrapFiles
    BY DEF BootstrapFiles
  <2>5. beside \notin Touched
    BY <1>2, <2>3, <2>4 DEF WritablePath
  <2> QED BY <2>2, <2>5
<1>6. ~Governs(DOMAIN proposal.tree \cup Touched, path)
  <2>1. /\ \A k \in DOMAIN path : ~BeginsWith(path[k], ".git")
        /\ ~BootstrapArtefact(path)
        /\ Last(path) \notin BootstrapFiles /\ path \notin GoverningPaths
    BY <1>2 DEF WritablePath
  <2>2. ~(BeginsWith(Last(path), "gotk-") /\ \E k \in 1..(Len(path) - 1) : path[k] = FluxSystem)
    BY <1>4, <2>1 DEF BootstrapArtefact
  <2>3. ~(/\ Last(path) \in KustomizationNames
          /\ Len(path) > 1 /\ path[Len(path) - 1] = FluxSystem)
    <3>1. path \in Seq(Seq(STRING))
      BY <1>2
    <3>2. Len(path) > 1 => Len(path) >= 2
      BY <3>1
    <3> QED BY <2>1, <3>2 DEF BootstrapArtefact
  <2> QED BY <1>5, <2>1, <2>2, <2>3 DEF Governs
<1> QED BY <1>3, <1>6

(* What a fix writes, and what undoing it will restore, is covered by the   *)
(* allowlist as an operator reads it, and governs neither the repository    *)
(* that the fix was made for nor the one it makes: nothing whose name       *)
(* begins with .git, no settings, no gotk- file, and no kustomization in a  *)
(* flux-system directory or beside what Flux was bootstrapped with.         *)
THEOREM StaysInBounds == FixSpec => []FixStaysInBounds
BY AlwaysBound, LookedAtIsInBounds, PTL

-----------------------------------------------------------------------------
(* A sequence is its elements one by one. *)
LEMMA OneByOne ==
  ASSUME NEW S, NEW s \in Seq(S), NEW q \in [1..Len(s) -> Seq(S)],
         \A i \in 1..Len(s) : q[i] = <<s[i]>>
  PROVE  FlattenSeq(q) = s
<1> DEFINE n == Len(s)
           V == Seq(S)
           f == [i \in 0..n |-> SubSeq(s, 1, i)]
<1>1. n \in Nat /\ q \in Seq(V) /\ Len(q) = n
  <2>1. q \in [1..n -> V] /\ n \in Nat
    OBVIOUS
  <2> HIDE DEF V
  <2> QED BY <2>1
<1>2. \A i \in 0..n : /\ SubSeq(s, 1, i) \in Seq(S) /\ Len(SubSeq(s, 1, i)) = i
                      /\ \A k \in 1..i : SubSeq(s, 1, i)[k] = s[k]
  <2> SUFFICES ASSUME NEW i \in 0..n
               PROVE  /\ SubSeq(s, 1, i) \in Seq(S) /\ Len(SubSeq(s, 1, i)) = i
                      /\ \A k \in 1..i : SubSeq(s, 1, i)[k] = s[k]
    OBVIOUS
  <2> QED OBVIOUS
<1>3. f[0] = <<>>
  BY <1>1
<1>4. ASSUME NEW i \in 1..n PROVE f[i] = f[i - 1] \o q[i]
  <2> DEFINE a == SubSeq(s, 1, i - 1)
             b == SubSeq(s, 1, i)
             c == <<s[i]>>
  <2>1. i \in 0..n /\ i - 1 \in 0..n /\ i \in Nat /\ i - 1 \in Nat /\ i - 1 + 1 = i
    BY <1>1
  <2>2. /\ a \in Seq(S) /\ Len(a) = i - 1 /\ \A k \in 1..i - 1 : a[k] = s[k]
        /\ b \in Seq(S) /\ Len(b) = i /\ \A k \in 1..i : b[k] = s[k]
    BY <1>2, <2>1
  <2>3. c \in Seq(S) /\ Len(c) = 1 /\ c[1] = s[i] /\ s[i] \in S
    OBVIOUS
  <2>f. f[i] = b /\ f[i - 1] = a /\ q[i] = c
    BY <2>1
  <2> HIDE DEF a, b, c, f
  <2>4. Len(b) = Len(a) + Len(c)
    BY <2>1, <2>2, <2>3
  <2>5. \A k \in 1..Len(a) : b[k] = a[k]
    <3>1. \A k \in 1..i - 1 : k \in 1..i
      <4> QED BY ONLY <2>1
    <3> QED BY <2>2, <3>1
  <2>6. \A k \in 1..Len(c) : b[Len(a) + k] = c[k]
    <3>1. \A k \in 1..1 : k = 1
      OBVIOUS
    <3>2. b[i] = s[i]
      BY <2>1, <2>2
    <3> QED BY <2>1, <2>2, <2>3, <3>1, <3>2
  <2>7. b = a \o c
    BY <2>2, <2>3, <2>4, <2>5, <2>6, SameAsJoined
  <2> QED BY <2>7, <2>f
<1>5. f \in [0..n -> Seq(S)]
  BY <1>2
<1>6. f[n] = s
  <2>1. n \in 0..n
    BY <1>1
  <2>2. f[n] \in Seq(S) /\ Len(f[n]) = n /\ \A k \in 1..n : f[n][k] = s[k]
    BY <1>2, <2>1
  <2> HIDE DEF f
  <2> QED BY <2>2, SameSequence
<1> HIDE DEF f
<1>7. Flat(S, q, f)
  BY <1>1, <1>3, <1>4, <1>5 DEF Flat
<1> QED BY <1>1, <1>6, <1>7, FlatIs

(* A sequence in the place of several elements. *)
LEMMA OneForAll ==
  ASSUME NEW S, NEW n \in Nat \ {0}, NEW x \in Seq(S), NEW q \in [1..n -> Seq(S)],
         q[1] = x, \A i \in 2..n : q[i] = <<>>
  PROVE  FlattenSeq(q) = x
<1> DEFINE V == Seq(S)
           f == [i \in 0..n |-> IF i = 0 THEN <<>> ELSE x]
<1>1. n \in Nat /\ q \in Seq(V) /\ Len(q) = n
  <2>1. q \in [1..n -> V] /\ n \in Nat
    OBVIOUS
  <2> HIDE DEF V
  <2> QED BY <2>1
<1>2. f[0] = <<>> /\ \A i \in 1..n : f[i] = x
  OBVIOUS
<1>3. <<>> \o x = x /\ x \o <<>> = x /\ <<>> \in Seq(S)
  BY JoinedTwice
<1>4. f \in [0..n -> Seq(S)]
  BY <1>3
<1> HIDE DEF f
<1>5. ASSUME NEW i \in 1..n PROVE f[i] = f[i - 1] \o q[i]
  <2>1. CASE i = 1
    <3>1. i - 1 = 0
      BY <2>1
    <3> QED BY <1>2, <1>3, <2>1, <3>1
  <2>2. CASE i # 1
    <3>1. i - 1 \in 1..n /\ i \in 2..n
      BY <2>2
    <3> QED BY <1>2, <1>3, <3>1
  <2> QED BY <2>1, <2>2
<1>6. Flat(S, q, f)
  BY <1>1, <1>2, <1>4, <1>5 DEF Flat
<1>7. f[n] = x
  BY <1>2
<1> QED BY <1>1, <1>6, <1>7, FlatIs

(* p is made of l pieces as in a, m as in b and n as in c. *)
Thirds(S, l, m, n, p, a, b, c) ==
  /\ l \in Nat /\ m \in Nat /\ n \in Nat
  /\ p \in [1..l + m + n -> Seq(S)]
  /\ a \in [1..l -> Seq(S)] /\ b \in [1..m -> Seq(S)] /\ c \in [1..n -> Seq(S)]
  /\ \A i \in 1..l : p[i] = a[i]
  /\ \A i \in 1..m : p[l + i] = b[i]
  /\ \A i \in 1..n : p[l + m + i] = c[i]

(* What is translated piece by piece can be translated in three parts. *)
LEMMA InThirds ==
  ASSUME NEW S, NEW l, NEW m, NEW n, NEW p, NEW a, NEW b, NEW c,
         Thirds(S, l, m, n, p, a, b, c)
  PROVE  /\ FlattenSeq(a) \in Seq(S) /\ FlattenSeq(b) \in Seq(S) /\ FlattenSeq(c) \in Seq(S)
         /\ FlattenSeq(p) = (FlattenSeq(a) \o FlattenSeq(b)) \o FlattenSeq(c)
<1> DEFINE ab == [i \in 1..l + m |-> p[i]]
<1>1. /\ l \in Nat /\ m \in Nat /\ n \in Nat
      /\ p \in [1..l + m + n -> Seq(S)]
      /\ a \in [1..l -> Seq(S)] /\ b \in [1..m -> Seq(S)] /\ c \in [1..n -> Seq(S)]
  BY DEF Thirds
<1>2. /\ \A i \in 1..l : p[i] = a[i]
      /\ \A i \in 1..m : p[l + i] = b[i]
      /\ \A i \in 1..n : p[l + m + i] = c[i]
  BY DEF Thirds
<1>3. /\ l + m \in Nat /\ \A i \in 1..l + m : i \in 1..l + m + n
      /\ \A i \in 1..l : i \in 1..l + m
      /\ \A i \in 1..m : l + i \in 1..l + m
  BY <1>1
<1>4. ab \in [1..l + m -> Seq(S)] /\ \A i \in 1..l + m : ab[i] = p[i]
  BY <1>1, <1>3
<1> HIDE DEF ab
<1>5. Splits(S, l + m, n, p, ab, c)
  BY <1>1, <1>2, <1>3, <1>4 DEF Splits
<1>6. Splits(S, l, m, ab, a, b)
  BY <1>1, <1>2, <1>3, <1>4 DEF Splits
<1>7. FlattenSeq(p) = FlattenSeq(ab) \o FlattenSeq(c)
  BY <1>5, PieceByPiece
<1>8. FlattenSeq(ab) = FlattenSeq(a) \o FlattenSeq(b)
  BY <1>6, PieceByPiece
<1>9. FlattenSeq(a) \in Seq(S) /\ FlattenSeq(b) \in Seq(S) /\ FlattenSeq(c) \in Seq(S)
  BY <1>1, OnePiece
<1> QED BY <1>7, <1>8, <1>9

-----------------------------------------------------------------------------
(* The lines of a file. *)
LineTexts == STRING \cup {""}

(* What a hunk looks for, and what it puts there. *)
LEMMA SidesAre ==
  ASSUME NEW hunk \in ReadHunks
  PROVE  Before(hunk) \in Seq(LineTexts) /\ After(hunk) \in Seq(LineTexts)
<1>1. hunk.lines \in Seq(DiffLines)
  BY DEF ReadHunks
<1>2. ASSUME NEW lines \in Seq(DiffLines), NEW marks PROVE Texts(lines, marks) \in Seq(LineTexts)
  <2> DEFINE n == Len(lines)
             p == [k \in 1..n |-> IF lines[k].mark \in marks THEN <<lines[k].text>> ELSE <<>>]
  <2>1. n \in Nat /\ DOMAIN lines = 1..n /\ \A k \in 1..n : lines[k] \in DiffLines
    OBVIOUS
  <2>2. \A l \in DiffLines : l.text \in LineTexts
    BY DEF DiffLines, LineTexts
  <2>3. \A x \in LineTexts : <<x>> \in Seq(LineTexts) /\ <<>> \in Seq(LineTexts)
    BY Single
  <2>4. <<>> \in Seq(LineTexts)
    OBVIOUS
  <2>5. p \in [1..n -> Seq(LineTexts)]
    BY <2>1, <2>2, <2>3, <2>4
  <2>6. Texts(lines, marks) = FlattenSeq(p)
    BY <2>1 DEF Texts
  <2> HIDE DEF p, n
  <2> QED BY <2>1, <2>5, <2>6, OnePiece
<1> QED BY <1>1, <1>2 DEF Before, After

(* Where a hunk fits. *)
LEMMA LocateIs ==
  ASSUME NEW S, NEW lines \in Seq(S), NEW before \in Seq(S),
         Cardinality(Locate(lines, before)) = 1
  PROVE  \E spot \in Nat : /\ Locate(lines, before) = {spot}
                           /\ spot >= 1 /\ spot - 1 + Len(before) <= Len(lines)
<1> DEFINE found == Locate(lines, before)
           n == Len(lines)
<1>1. n \in Nat /\ DOMAIN lines = 1..n /\ Len(before) \in Nat
  OBVIOUS
<1>2. found \subseteq 1..n + 1
  <2>1. 1 \in 1..n + 1 /\ 1..n \subseteq 1..n + 1
    BY <1>1
  <2> QED BY <1>1, <2>1 DEF Locate
<1>3. IsFiniteSet(found)
  <2>1. IsFiniteSet(1..n + 1)
    BY <1>1, FS_Interval
  <2> HIDE DEF found
  <2> QED BY <1>2, <2>1, FS_Subset
<1>4. PICK spot : found = {spot}
  <2> HIDE DEF found
  <2>1. Cardinality(found) = 1
    BY DEF found
  <2> QED BY <1>3, <2>1, FS_Singleton
<1>5. spot \in found /\ spot \in Nat /\ spot >= 1
  <2>1. spot \in found
    BY <1>4
  <2>2. spot \in 1..n + 1
    BY <1>2, <2>1
  <2> QED BY <1>1, <2>1, <2>2
<1>6. spot - 1 + Len(before) <= n
  <2>1. CASE before = <<>>
    <3>1. spot = 1 /\ Len(before) = 0
      BY <1>5, <2>1 DEF Locate
    <3> QED BY <1>1, <3>1
  <2>2. CASE before # <<>>
    <3>1. spot + Len(before) - 1 <= n
      BY <1>5, <2>2 DEF Locate, Matches
    <3> QED BY <1>1, <1>5, <3>1
  <2> QED BY <2>1, <2>2
<1> QED BY <1>4, <1>5, <1>6

(* a, b and c, one after the other. *)
LEMMA ThreeJoined ==
  ASSUME NEW S, NEW a \in Seq(S), NEW b \in Seq(S), NEW c \in Seq(S)
  PROVE  /\ (a \o b) \o c \in Seq(S)
         /\ Len((a \o b) \o c) = Len(a) + Len(b) + Len(c)
         /\ Len(a) \in Nat /\ Len(b) \in Nat /\ Len(c) \in Nat
         /\ \A i \in 1..Len(a) : ((a \o b) \o c)[i] = a[i]
         /\ \A i \in 1..Len(b) : ((a \o b) \o c)[Len(a) + i] = b[i]
         /\ \A i \in 1..Len(c) : ((a \o b) \o c)[Len(a) + Len(b) + i] = c[i]
<1> DEFINE ab == a \o b
           k == Len(a)
           l == Len(b)
           m == Len(c)
<1>1. /\ ab \in Seq(S) /\ Len(ab) = k + l /\ k \in Nat /\ l \in Nat /\ m \in Nat
      /\ \A i \in 1..k : ab[i] = a[i]
      /\ \A i \in 1..l : ab[k + i] = b[i]
  BY Joined
<1> HIDE DEF ab
<1>2. /\ ab \o c \in Seq(S) /\ Len(ab \o c) = k + l + m
      /\ \A i \in 1..Len(ab) : (ab \o c)[i] = ab[i]
      /\ \A i \in 1..m : (ab \o c)[Len(ab) + i] = c[i]
  <2>1. /\ ab \o c \in Seq(S) /\ Len(ab \o c) = Len(ab) + Len(c)
        /\ \A i \in 1..Len(ab) : (ab \o c)[i] = ab[i]
        /\ \A i \in 1..Len(c) : (ab \o c)[Len(ab) + i] = c[i]
    <3>1. ab \in Seq(S) /\ c \in Seq(S)
      BY <1>1
    <3> QED BY ONLY <3>1, Joined
  <2> QED BY <1>1, <2>1, Zenon
<1>3. \A i \in 1..k : i \in 1..k + l
  BY <1>1
<1>4. \A i \in 1..l : k + i \in 1..k + l
  BY <1>1
<1>5. \A i \in 1..k : (ab \o c)[i] = a[i]
  BY <1>1, <1>2, <1>3
<1>6. \A i \in 1..l : (ab \o c)[k + i] = b[i]
  BY <1>1, <1>2, <1>4
<1>7. \A i \in 1..m : (ab \o c)[k + l + i] = c[i]
  BY <1>1, <1>2
<1> QED BY <1>1, <1>2, <1>5, <1>6, <1>7 DEF ab

(* A hunk fits where it stands. *)
LEMMA FitsWhereItStands ==
  ASSUME NEW S, NEW a \in Seq(S), NEW b \in Seq(S), NEW c \in Seq(S), b # <<>>
  PROVE  Len(a) + 1 \in Locate((a \o b) \o c, b)
<1> DEFINE u == (a \o b) \o c
           k == Len(a)
           l == Len(b)
           m == Len(c)
<1>1. /\ u \in Seq(S) /\ Len(u) = k + l + m /\ k \in Nat /\ l \in Nat /\ m \in Nat
      /\ \A i \in 1..l : u[k + i] = b[i]
  BY ThreeJoined
<1>2. l >= 1 /\ DOMAIN b = 1..l /\ DOMAIN u = 1..Len(u)
  BY <1>1
<1> HIDE DEF u, k, l, m
<1>3. k + 1 \in 1..Len(u) /\ k + 1 + l - 1 <= Len(u)
  BY <1>1, <1>2
<1>4. \A i \in 1..l : u[k + 1 + i - 1] = b[i]
  <2>1. \A i \in 1..l : k + 1 + i - 1 = k + i
    BY <1>1
  <2> QED BY <1>1, <2>1
<1>5. Matches(u, b, k + 1)
  BY <1>2, <1>3, <1>4 DEF Matches, l
<1> QED BY <1>2, <1>3, <1>5 DEF Locate, u, k

(* What an edit leaves before and behind. *)
LEMMA EditedIs ==
  ASSUME NEW u, NEW hunk, NEW at1
  PROVE  Edited(u, hunk, at1)
           = (SubSeq(u, 1, at1 - 1) \o After(hunk))
               \o SubSeq(u, at1 + Len(Before(hunk)), Len(u))
BY DEF Edited

(* What it is replaced by stands there in its stead. *)
LEMMA EditedThere ==
  ASSUME NEW a \in Seq(LineTexts), NEW c \in Seq(LineTexts), NEW hunk,
         Before(hunk) \in Seq(LineTexts), After(hunk) \in Seq(LineTexts)
  PROVE  Edited((a \o Before(hunk)) \o c, hunk, Len(a) + 1) = (a \o After(hunk)) \o c
<1> DEFINE b == Before(hunk)
<1>b. b \in Seq(LineTexts) /\ b = Before(hunk)
  OBVIOUS
<1> HIDE DEF b
<1> DEFINE u == (a \o b) \o c
           k == Len(a)
           l == Len(Before(hunk))
           m == Len(c)
<1>1. /\ u \in Seq(LineTexts) /\ Len(u) = k + l + m /\ k \in Nat /\ l \in Nat /\ m \in Nat
      /\ \A i \in 1..k : u[i] = a[i]
      /\ \A i \in 1..m : u[k + l + i] = c[i]
  BY <1>b, ThreeJoined
<1> HIDE DEF u, k, l, m
<1> DEFINE at1 == k + 1
           at2 == at1 + Len(Before(hunk))
           front == SubSeq(u, 1, k)
           back == SubSeq(u, at2, Len(u))
           e == Edited(u, hunk, at1)
<1>2. /\ at1 \in Nat /\ at1 - 1 = k /\ 1 <= at1 /\ k <= Len(u) /\ k - 1 + 1 = k
      /\ at2 \in Nat /\ 1 <= at2 /\ at2 <= Len(u) + 1 /\ Len(u) <= Len(u)
      /\ Len(u) - at2 + 1 = m /\ at2 = k + l + 1 /\ Len(u) \in Nat
  BY <1>1, <1>b DEF l
<1>5. e = (front \o After(hunk)) \o back
  <2> HIDE DEF at1
  <2>1. e = (SubSeq(u, 1, at1 - 1) \o After(hunk)) \o back
    BY EditedIs
  <2> HIDE DEF e, back
  <2> QED BY <1>2, <2>1
<1>a. at1 = Len(a) + 1
  BY DEF k
<1> HIDE DEF at1, at2, e
<1>3. front = a
  <2>1. /\ front \in Seq(LineTexts) /\ Len(front) = k - 1 + 1
        /\ \A i \in 1..k - 1 + 1 : front[i] = u[1 + i - 1]
    <3>1. u \in Seq(LineTexts) /\ k \in Nat /\ 1 \in Nat /\ 1 <= 1 /\ 1 <= k + 1 /\ k <= Len(u)
      BY <1>1, <1>2
    <3> QED BY ONLY <3>1, Stretch
  <2>2. \A i \in 1..k : 1 + i - 1 = i
    OBVIOUS
  <2>3. Len(front) = k /\ \A i \in 1..k : front[i] = a[i]
    BY <1>1, <1>2, <2>1, <2>2
  <2> HIDE DEF front
  <2> QED BY <2>1, <2>3, SameSequence DEF k
<1>4. back = c
  <2>1. /\ back \in Seq(LineTexts) /\ Len(back) = m
        /\ \A i \in 1..m : back[i] = u[at2 + i - 1]
    <3>1. /\ u \in Seq(LineTexts) /\ at2 \in Nat /\ Len(u) \in Nat /\ 1 <= at2
          /\ at2 <= Len(u) + 1 /\ Len(u) <= Len(u) /\ Len(u) - at2 + 1 = m
      BY <1>1, <1>2
    <3>2. /\ back \in Seq(LineTexts) /\ Len(back) = Len(u) - at2 + 1
          /\ \A i \in 1..Len(u) - at2 + 1 : back[i] = u[at2 + i - 1]
      BY ONLY <3>1, Stretch
    <3> HIDE DEF back
    <3> QED BY ONLY <3>1, <3>2
  <2>2. \A i \in 1..m : at2 + i - 1 = k + l + i
    BY <1>1, <1>2
  <2>3. Len(back) = m /\ \A i \in 1..m : back[i] = c[i]
    BY <1>1, <2>1, <2>2
  <2> HIDE DEF back
  <2> QED BY <2>1, <2>3, SameSequence DEF m
<1> HIDE DEF front, back
<1>6. e = (a \o After(hunk)) \o c
  BY <1>3, <1>4, <1>5
<1> QED BY <1>6, <1>a DEF e, u, b

-----------------------------------------------------------------------------
(* Hunks and lines of their own in a file for each. *)
IsReading(old, hunks, place) ==
  /\ old \in Seq(LineTexts) /\ hunks \in Seq(ReadHunks)
  /\ place \in Readings(old, hunks)

(* The lines hunk h is put on. *)
Over(hunks, place, h, n) == n \in place[h]..(place[h] + Len(Before(hunks[h])) - 1)

(* What the first j hunks make of line n, and of the file. *)
InsteadUpTo(old, hunks, place, j, n) ==
  CASE \E h \in 1..j : place[h] = n -> After(hunks[CHOOSE h \in 1..j : place[h] = n])
    [] /\ ~\E h \in 1..j : place[h] = n
       /\ \E h \in 1..j : Over(hunks, place, h, n) -> <<>>
    [] OTHER -> <<old[n]>>
PatchedUpTo(old, hunks, place, j) ==
  FlattenSeq([n \in 1..Len(old) |-> InsteadUpTo(old, hunks, place, j, n)])

(* A hunk fits where it is put, and shares no line with another. *)
LEMMA ReadingIs ==
  ASSUME NEW old, NEW hunks, NEW place, IsReading(old, hunks, place)
  PROVE  /\ Len(old) \in Nat /\ Len(hunks) \in Nat
         /\ DOMAIN old = 1..Len(old) /\ DOMAIN hunks = 1..Len(hunks)
         /\ \A n \in 1..Len(old) : old[n] \in LineTexts
         /\ \A h \in 1..Len(hunks) :
              /\ hunks[h] \in ReadHunks /\ place[h] \in 1..Len(old)
              /\ Len(Before(hunks[h])) \in Nat \ {0} /\ Before(hunks[h]) # <<>>
              /\ place[h] + Len(Before(hunks[h])) - 1 <= Len(old)
              /\ \A k \in 1..Len(Before(hunks[h])) :
                   old[place[h] + k - 1] = Before(hunks[h])[k]
         /\ \A g, h \in 1..Len(hunks) : \A n \in 1..Len(old) :
              Over(hunks, place, g, n) /\ Over(hunks, place, h, n) => g = h
         /\ \A h \in 1..Len(hunks) : Over(hunks, place, h, place[h])
<1> DEFINE N == Len(old)
           M == Len(hunks)
<1>1. /\ old \in Seq(LineTexts) /\ hunks \in Seq(ReadHunks)
      /\ place \in [DOMAIN hunks -> DOMAIN old]
      /\ Apart(hunks, place)
      /\ \A h \in DOMAIN hunks : HunkFits(old, hunks[h], place[h])
  BY DEF IsReading, Readings
<1>2. /\ N \in Nat /\ M \in Nat /\ DOMAIN old = 1..N /\ DOMAIN hunks = 1..M
      /\ \A n \in 1..N : old[n] \in LineTexts
      /\ \A h \in 1..M : hunks[h] \in ReadHunks
  BY <1>1
<1>3. \A h \in 1..M : place[h] \in 1..N
  BY <1>1, <1>2
<1>4. \A h \in 1..M : /\ Len(Before(hunks[h])) \in Nat \ {0} /\ Before(hunks[h]) # <<>>
                      /\ DOMAIN Before(hunks[h]) = 1..Len(Before(hunks[h]))
  <2> SUFFICES ASSUME NEW h \in 1..M
               PROVE  /\ Len(Before(hunks[h])) \in Nat \ {0} /\ Before(hunks[h]) # <<>>
                      /\ DOMAIN Before(hunks[h]) = 1..Len(Before(hunks[h]))
    OBVIOUS
  <2> DEFINE b == Before(hunks[h])
  <2>1. b \in Seq(LineTexts)
    BY <1>2, SidesAre
  <2>2. b # <<>>
    BY <1>1, <1>2 DEF HunkFits
  <2> HIDE DEF b
  <2>3. Len(b) \in Nat \ {0} /\ b # <<>> /\ DOMAIN b = 1..Len(b)
    BY <2>1, <2>2
  <2> QED BY <2>3 DEF b
<1>5. ASSUME NEW h \in 1..M
      PROVE  /\ place[h] + Len(Before(hunks[h])) - 1 <= N
             /\ \A k \in 1..Len(Before(hunks[h])) :
                  old[place[h] + k - 1] = Before(hunks[h])[k]
  <2>1. Matches(old, Before(hunks[h]), place[h])
    BY <1>1, <1>2 DEF HunkFits
  <2> QED BY <1>4, <2>1 DEF Matches
<1>6. ASSUME NEW g \in 1..M, NEW h \in 1..M, NEW n \in 1..N,
             Over(hunks, place, g, n), Over(hunks, place, h, n), g # h
      PROVE  FALSE
  <2> DEFINE k == Len(Before(hunks[g]))
             l == Len(Before(hunks[h]))
             p == place[g]
             q == place[h]
  <2>1. k \in Nat /\ l \in Nat /\ p \in Nat /\ q \in Nat /\ n \in Nat
    BY <1>2, <1>3, <1>4
  <2>2. p + k <= q \/ q + l <= p
    BY <1>1, <1>2, <1>6 DEF Apart
  <2>3. n \in p..(p + k - 1) /\ n \in q..(q + l - 1)
    BY <1>6 DEF Over
  <2> HIDE DEF k, l, p, q
  <2> QED BY ONLY <2>1, <2>2, <2>3
<1>7. ASSUME NEW h \in 1..M PROVE Over(hunks, place, h, place[h])
  <2> DEFINE l == Len(Before(hunks[h]))
             p == place[h]
  <2>1. l \in Nat \ {0} /\ p \in Nat
    BY <1>2, <1>3, <1>4
  <2> HIDE DEF l, p
  <2>2. p \in p..(p + l - 1)
    BY <2>1
  <2> QED BY <2>2 DEF Over, l, p
<1> HIDE DEF N, M
<1>8. \A g, h \in 1..M : \A n \in 1..N :
        Over(hunks, place, g, n) /\ Over(hunks, place, h, n) => g = h
  BY <1>6
<1> QED BY <1>2, <1>3, <1>4, <1>5, <1>7, <1>8 DEF N, M

(* What becomes of a line: a hunk is put there, *)
LEMMA InsteadThere ==
  ASSUME NEW old, NEW hunks, NEW place, IsReading(old, hunks, place),
         NEW j \in 0..Len(hunks), NEW n \in 1..Len(old),
         NEW h \in 1..j, place[h] = n
  PROVE  InsteadUpTo(old, hunks, place, j, n) = After(hunks[h])
<1> DEFINE g == CHOOSE g \in 1..j : place[g] = n
<1>1. g \in 1..j /\ place[g] = n
  OBVIOUS
<1>2. InsteadUpTo(old, hunks, place, j, n) = After(hunks[g])
  BY DEF InsteadUpTo
<1> HIDE DEF g
<1>3. g \in 1..Len(hunks) /\ h \in 1..Len(hunks)
  <2>1. Len(hunks) \in Nat
    BY ReadingIs
  <2> QED BY <1>1, <2>1
<1>4. Over(hunks, place, g, n) /\ Over(hunks, place, h, n)
  <2>1. \A i \in 1..Len(hunks) : Over(hunks, place, i, place[i])
    BY ONLY IsReading(old, hunks, place), ReadingIs
  <2>2. Over(hunks, place, g, place[g]) /\ Over(hunks, place, h, place[h])
    BY ONLY <1>3, <2>1
  <2> QED BY <1>1, <2>2
<1>5. g = h
  <2>1. \A i, k \in 1..Len(hunks) : \A x \in 1..Len(old) :
          Over(hunks, place, i, x) /\ Over(hunks, place, k, x) => i = k
    BY ONLY IsReading(old, hunks, place), ReadingIs
  <2> QED BY <1>3, <1>4, <2>1
<1> QED BY <1>2, <1>5

(* one is put over it, *)
LEMMA InsteadOver ==
  ASSUME NEW old, NEW hunks, NEW place, NEW j, NEW n,
         ~\E h \in 1..j : place[h] = n, \E h \in 1..j : Over(hunks, place, h, n)
  PROVE  InsteadUpTo(old, hunks, place, j, n) = <<>>
BY DEF InsteadUpTo

(* or it stays. *)
LEMMA InsteadStays ==
  ASSUME NEW old, NEW hunks, NEW place, NEW j, NEW n,
         ~\E h \in 1..j : place[h] = n, ~\E h \in 1..j : Over(hunks, place, h, n)
  PROVE  InsteadUpTo(old, hunks, place, j, n) = <<old[n]>>
BY DEF InsteadUpTo

(* One or the other. *)
LEMMA InsteadIs ==
  ASSUME NEW old, NEW hunks, NEW place, IsReading(old, hunks, place),
         NEW j \in 0..Len(hunks), NEW n \in 1..Len(old)
  PROVE  InsteadUpTo(old, hunks, place, j, n) \in Seq(LineTexts)
<1>1. CASE \E h \in 1..j : place[h] = n
  <2>1. PICK h \in 1..j : place[h] = n
    BY <1>1
  <2>2. h \in 1..Len(hunks)
    <3>1. Len(hunks) \in Nat
      BY ReadingIs
    <3> QED BY <3>1
  <2>3. hunks[h] \in ReadHunks
    BY <2>2, ReadingIs
  <2> QED BY <2>1, <2>3, InsteadThere, SidesAre
<1>2. CASE ~(\E h \in 1..j : place[h] = n) /\ \E h \in 1..j : Over(hunks, place, h, n)
  <2>1. <<>> \in Seq(LineTexts)
    OBVIOUS
  <2> QED BY <1>2, <2>1, InsteadOver
<1>3. CASE ~(\E h \in 1..j : place[h] = n) /\ ~\E h \in 1..j : Over(hunks, place, h, n)
  <2>1. old[n] \in LineTexts
    BY ReadingIs
  <2>2. <<old[n]>> \in Seq(LineTexts)
    BY <2>1, Single
  <2> QED BY <1>3, <2>2, InsteadStays
<1> QED BY <1>1, <1>2, <1>3

-----------------------------------------------------------------------------
(* A hunk more changes nothing but the lines it is put on. *)
LEMMA SameElsewhere ==
  ASSUME NEW old, NEW hunks, NEW place, IsReading(old, hunks, place),
         NEW j \in Nat, j + 1 <= Len(hunks), NEW n \in 1..Len(old),
         ~Over(hunks, place, j + 1, n)
  PROVE  InsteadUpTo(old, hunks, place, j + 1, n) = InsteadUpTo(old, hunks, place, j, n)
<1> DEFINE k == j + 1
           I(i) == InsteadUpTo(old, hunks, place, i, n)
<1>0. /\ Len(hunks) \in Nat /\ j \in 0..Len(hunks) /\ k \in 0..Len(hunks)
      /\ k \in 1..Len(hunks) /\ 1..j \subseteq 1..k /\ \A h \in 1..k : h \in 1..j \/ h = k
      /\ \A h \in 1..k : h \in 1..Len(hunks)
  <2>1. Len(hunks) \in Nat
    BY ReadingIs
  <2> QED BY <2>1
<1>a. ~Over(hunks, place, k, n)
  OBVIOUS
<1> HIDE DEF k
<1>1. place[k] # n
  <2>1. Over(hunks, place, k, place[k])
    BY <1>0, ReadingIs
  <2> QED BY <1>a, <2>1
<1>2. CASE \E h \in 1..j : place[h] = n
  <2>1. PICK h \in 1..j : place[h] = n
    BY <1>2
  <2>2. I(j) = After(hunks[h])
    BY <1>0, <2>1, InsteadThere
  <2>3. h \in 1..k
    BY <1>0
  <2>4. I(k) = After(hunks[h])
    BY <1>0, <2>1, <2>3, InsteadThere
  <2> QED BY <2>2, <2>4 DEF k
<1>3. CASE ~\E h \in 1..j : place[h] = n
  <2>1. ~\E h \in 1..k : place[h] = n
    BY <1>0, <1>1, <1>3
  <2>2. CASE \E h \in 1..j : Over(hunks, place, h, n)
    <3>1. I(j) = <<>>
      BY <1>3, <2>2, InsteadOver
    <3>2. \E h \in 1..k : Over(hunks, place, h, n)
      BY <1>0, <2>2
    <3>3. I(k) = <<>>
      BY <2>1, <3>2, InsteadOver
    <3> QED BY <3>1, <3>3 DEF k
  <2>3. CASE ~\E h \in 1..j : Over(hunks, place, h, n)
    <3>1. I(j) = <<old[n]>>
      BY <1>3, <2>3, InsteadStays
    <3>2. ~\E h \in 1..k : Over(hunks, place, h, n)
      BY <1>0, <1>a, <2>3
    <3>3. I(k) = <<old[n]>>
      BY <2>1, <3>2, InsteadStays
    <3> QED BY <3>1, <3>3 DEF k
  <2> QED BY <2>2, <2>3
<1> QED BY <1>2, <1>3

(* The lines a hunk is put on are as they were until then; its own lines    *)
(* stand at the first of them afterwards, and nothing at the others.        *)
LEMMA ChangedThere ==
  ASSUME NEW old, NEW hunks, NEW place, IsReading(old, hunks, place),
         NEW j \in Nat, j + 1 <= Len(hunks), NEW n \in 1..Len(old),
         Over(hunks, place, j + 1, n)
  PROVE  /\ InsteadUpTo(old, hunks, place, j, n) = <<old[n]>>
         /\ n = place[j + 1] =>
              InsteadUpTo(old, hunks, place, j + 1, n) = After(hunks[j + 1])
         /\ n # place[j + 1] => InsteadUpTo(old, hunks, place, j + 1, n) = <<>>
<1> DEFINE k == j + 1
           I(i) == InsteadUpTo(old, hunks, place, i, n)
<1>0. /\ Len(hunks) \in Nat /\ j \in 0..Len(hunks) /\ k \in 0..Len(hunks) /\ k \in 1..k
      /\ k \in 1..Len(hunks) /\ \A h \in 1..j : h # k
      /\ \A h \in 1..k : h \in 1..Len(hunks) /\ (h \in 1..j \/ h = k)
      /\ \A h \in 1..j : h \in 1..k
  <2>1. Len(hunks) \in Nat
    BY ReadingIs
  <2> QED BY <2>1
<1>a. Over(hunks, place, k, n)
  OBVIOUS
<1> HIDE DEF k
<1>1. \A h \in 1..Len(hunks) : Over(hunks, place, h, n) => h = k
  BY <1>0, <1>a, ReadingIs
<1>2. ~\E h \in 1..j : Over(hunks, place, h, n)
  BY <1>0, <1>1
<1>3. \A h \in 1..Len(hunks) : place[h] = n => h = k
  <2>1. \A h \in 1..Len(hunks) : Over(hunks, place, h, place[h])
    BY ReadingIs
  <2> QED BY <1>1, <2>1
<1>4. ~\E h \in 1..j : place[h] = n
  BY <1>0, <1>3
<1>5. I(j) = <<old[n]>>
  BY <1>2, <1>4, InsteadStays
<1>6. ASSUME n = place[k] PROVE I(k) = After(hunks[k])
  BY <1>0, <1>6, InsteadThere
<1>7. ASSUME n # place[k] PROVE I(k) = <<>>
  <2>1. ~\E h \in 1..k : place[h] = n
    BY <1>0, <1>3, <1>7
  <2>2. \E h \in 1..k : Over(hunks, place, h, n)
    BY <1>0, <1>a
  <2> QED BY <2>1, <2>2, InsteadOver
<1> QED BY <1>5, <1>6, <1>7 DEF k

(* The file with a hunk more is the file with its lines in their place. *)
LEMMA OneHunkMore ==
  ASSUME NEW old, NEW hunks, NEW place, IsReading(old, hunks, place),
         NEW j \in Nat, j + 1 <= Len(hunks)
  PROVE  LET hunk == hunks[j + 1]
         IN  \E a, c \in Seq(LineTexts) :
               /\ PatchedUpTo(old, hunks, place, j) = (a \o Before(hunk)) \o c
               /\ PatchedUpTo(old, hunks, place, j + 1) = (a \o After(hunk)) \o c
<1> DEFINE k == j + 1
           S == LineTexts
           N == Len(old)
           hunk == hunks[k]
           before == Before(hunk)
           p == place[k]
           l == p - 1
           m == Len(before)
           n == N - l - m
           I(i, x) == InsteadUpTo(old, hunks, place, i, x)
<1>0. k \in 1..Len(hunks) /\ j \in 0..Len(hunks) /\ k \in 0..Len(hunks)
  <2>1. Len(hunks) \in Nat
    BY ReadingIs
  <2> QED BY <2>1
<1>1. /\ N \in Nat /\ p \in 1..N /\ m \in Nat \ {0} /\ p + m - 1 <= N
      /\ hunk \in ReadHunks /\ \A i \in 1..m : old[p + i - 1] = before[i]
  BY <1>0, ReadingIs
<1>2. /\ before \in Seq(S) /\ After(hunk) \in Seq(S)
      /\ DOMAIN before = 1..m
  <2>1. before \in Seq(S) /\ After(hunk) \in Seq(S)
    BY <1>1, SidesAre
  <2> HIDE DEF before
  <2> QED BY <2>1
<1>e. \A x \in 1..N : /\ ~Over(hunks, place, k, x) => I(k, x) = I(j, x)
                      /\ Over(hunks, place, k, x) =>
                           /\ I(j, x) = <<old[x]>>
                           /\ x = p => I(k, x) = After(hunk)
                           /\ x # p => I(k, x) = <<>>
                      /\ I(j, x) \in Seq(S) /\ I(k, x) \in Seq(S)
  <2> SUFFICES ASSUME NEW x \in 1..N
               PROVE  /\ ~Over(hunks, place, k, x) => I(k, x) = I(j, x)
                      /\ Over(hunks, place, k, x) =>
                           /\ I(j, x) = <<old[x]>>
                           /\ x = p => I(k, x) = After(hunk)
                           /\ x # p => I(k, x) = <<>>
                      /\ I(j, x) \in Seq(S) /\ I(k, x) \in Seq(S)
    OBVIOUS
  <2>1. ASSUME ~Over(hunks, place, k, x) PROVE I(k, x) = I(j, x)
    BY <2>1, SameElsewhere
  <2>2. ASSUME Over(hunks, place, k, x)
        PROVE  /\ I(j, x) = <<old[x]>>
               /\ x = p => I(k, x) = After(hunk)
               /\ x # p => I(k, x) = <<>>
    BY <2>2, ChangedThere
  <2>3. I(j, x) \in Seq(S) /\ I(k, x) \in Seq(S)
    BY <1>0, InsteadIs
  <2> HIDE DEF k, p, hunk, I
  <2> QED BY <2>1, <2>2, <2>3
<1>o. \A x \in 1..N : Over(hunks, place, k, x) <=> x \in p..(p + m - 1)
  BY DEF Over
<1>u. /\ PatchedUpTo(old, hunks, place, j) = FlattenSeq([x \in 1..N |-> I(j, x)])
      /\ PatchedUpTo(old, hunks, place, k) = FlattenSeq([x \in 1..N |-> I(k, x)])
  BY DEF PatchedUpTo
<1> HIDE DEF k, S, N, hunk, before, p, I
<1>3. /\ l \in Nat /\ m \in Nat /\ n \in Nat /\ l + m + n = N /\ p = l + 1
      /\ \A i \in 1..l : i \in 1..N /\ i \notin p..(p + m - 1)
      /\ \A i \in 1..m : l + i \in 1..N /\ l + i \in p..(p + m - 1) /\ l + i = p + i - 1
      /\ \A i \in 1..n : l + m + i \in 1..N /\ l + m + i \notin p..(p + m - 1)
      /\ \A i \in 1..m : l + i = p <=> i = 1
  BY <1>1
<1> HIDE DEF l, m, n
<1> DEFINE P(i) == [x \in 1..N |-> I(i, x)]
           a == [i \in 1..l |-> I(j, i)]
           c == [i \in 1..n |-> I(j, l + m + i)]
           b == [i \in 1..m |-> I(j, l + i)]
           d == [i \in 1..m |-> I(k, l + i)]
<1>t. /\ P(j) \in [1..l + m + n -> Seq(S)] /\ P(k) \in [1..l + m + n -> Seq(S)]
      /\ a \in [1..l -> Seq(S)] /\ c \in [1..n -> Seq(S)]
      /\ b \in [1..m -> Seq(S)] /\ d \in [1..m -> Seq(S)]
  BY <1>3, <1>e
<1>4. Thirds(S, l, m, n, P(j), a, b, c)
  <2>1. /\ \A i \in 1..l : P(j)[i] = a[i]
        /\ \A i \in 1..m : P(j)[l + i] = b[i]
        /\ \A i \in 1..n : P(j)[l + m + i] = c[i]
    BY <1>3
  <2> HIDE DEF P, a, b, c
  <2> QED BY <1>3, <1>t, <2>1 DEF Thirds
<1>5. Thirds(S, l, m, n, P(k), a, d, c)
  <2>1. ASSUME NEW i \in 1..l PROVE P(k)[i] = a[i]
    <3>1. i \in 1..N /\ ~Over(hunks, place, k, i)
      BY <1>3, <1>o
    <3> QED BY <1>e, <3>1
  <2>2. ASSUME NEW i \in 1..m PROVE P(k)[l + i] = d[i]
    BY <1>3
  <2>3. ASSUME NEW i \in 1..n PROVE P(k)[l + m + i] = c[i]
    <3> DEFINE x == l + m + i
    <3>1. x \in 1..N /\ ~Over(hunks, place, k, x)
      BY <1>3, <1>o
    <3>2. c[i] = I(j, x)
      OBVIOUS
    <3> HIDE DEF x, c
    <3>3. I(k, x) = I(j, x)
      BY <1>e, <3>1
    <3>4. P(k)[x] = I(k, x)
      BY <3>1
    <3> QED BY <3>2, <3>3, <3>4 DEF x
  <2> HIDE DEF P, a, d, c
  <2> QED BY <1>3, <1>t, <2>1, <2>2, <2>3 DEF Thirds
<1>6. FlattenSeq(b) = before
  <2>1. ASSUME NEW i \in 1..m PROVE b[i] = <<before[i]>>
    <3> DEFINE x == l + i
    <3>1. x \in 1..N /\ Over(hunks, place, k, x)
      BY <1>3, <1>o
    <3>2. b[i] = I(j, x)
      OBVIOUS
    <3>3. old[x] = before[i]
      BY <1>1, <1>3
    <3> HIDE DEF x, b
    <3>4. I(j, x) = <<old[x]>>
      BY <1>e, <3>1
    <3> QED BY <3>2, <3>3, <3>4
  <2> HIDE DEF b
  <2> QED BY <1>2, <1>t, <2>1, OneByOne DEF m
<1>7. FlattenSeq(d) = After(hunk)
  <2>1. d[1] = After(hunk) /\ \A i \in 2..m : d[i] = <<>>
    <3>0. m \in Nat \ {0}
      BY <1>1 DEF m
    <3>1. 1 \in 1..m /\ \A i \in 2..m : i \in 1..m /\ i # 1
      BY ONLY <3>0
    <3> QED BY <1>3, <1>e, <1>o, <3>1
  <2>2. m \in Nat \ {0}
    BY <1>1 DEF m
  <2> HIDE DEF d
  <2> QED BY <1>2, <1>t, <2>1, <2>2, OneForAll
<1> DEFINE A == FlattenSeq(a)
           C == FlattenSeq(c)
<1>8. /\ A \in Seq(S) /\ C \in Seq(S)
      /\ FlattenSeq(P(j)) = (A \o FlattenSeq(b)) \o C
  <2> HIDE DEF P, a, b, c
  <2> QED BY <1>4, InThirds
<1>9. FlattenSeq(P(k)) = (A \o FlattenSeq(d)) \o C
  <2> HIDE DEF P, a, d, c
  <2> QED BY <1>5, InThirds
<1>10. /\ PatchedUpTo(old, hunks, place, j) = (A \o before) \o C
       /\ PatchedUpTo(old, hunks, place, k) = (A \o After(hunk)) \o C
  <2>1. /\ PatchedUpTo(old, hunks, place, j) = FlattenSeq(P(j))
        /\ PatchedUpTo(old, hunks, place, k) = FlattenSeq(P(k))
    BY <1>u
  <2> HIDE DEF P, A, C, b, d
  <2> QED BY <1>6, <1>7, <1>8, <1>9, <2>1
<1> HIDE DEF A, C
<1> QED BY <1>8, <1>10 DEF k, hunk, before, S

-----------------------------------------------------------------------------
(* How far a section has been applied. *)
AppliedStates == [ok : BOOLEAN, lines : Seq(LineTexts), ended : BOOLEAN]

(* A hunk is put on the only place it fits, or not at all. *)
HunkApplied(st, hunk, after) ==
  /\ after \in AppliedStates
  /\ after.ok =>
       /\ st.ok
       /\ \E spot \in Nat : /\ Locate(st.lines, Before(hunk)) = {spot}
                            /\ after.lines = Edited(st.lines, hunk, spot)

(* It is so whatever the file. *)
LEMMA ApplyHunkIs ==
  ASSUME NEW st \in AppliedStates, NEW hunk \in ReadHunks
  PROVE  HunkApplied(st, hunk, ApplyHunk(st, hunk))
<1> DEFINE lines == st.lines
           before == Before(hunk)
           put == After(hunk)
           found == Locate(lines, before)
           n == Len(lines)
<1>1. /\ st.ok \in BOOLEAN /\ lines \in Seq(LineTexts) /\ st.ended \in BOOLEAN
      /\ st = [ok |-> st.ok, lines |-> st.lines, ended |-> st.ended]
  BY DEF AppliedStates
<1>2. before \in Seq(LineTexts) /\ put \in Seq(LineTexts)
  BY SidesAre
<1>3. CASE ~st.ok \/ Cardinality(found) # 1
  <2>1. ApplyHunk(st, hunk) = [st EXCEPT !.ok = FALSE]
    BY <1>3 DEF ApplyHunk
  <2>2. [st EXCEPT !.ok = FALSE] \in AppliedStates /\ ~[st EXCEPT !.ok = FALSE].ok
    BY DEF AppliedStates
  <2> QED BY <2>1, <2>2 DEF HunkApplied
<1>4. CASE st.ok /\ Cardinality(found) = 1
  <2> DEFINE over == IF hunk.unended = {} THEN st.ended ELSE "after" \notin hunk.unended
             at0 == CHOOSE spot \in found : TRUE
             e == Edited(lines, hunk, at0)
  <2>1. ApplyHunk(st, hunk) = [ok |-> TRUE, lines |-> e, ended |-> over]
    BY <1>4 DEF ApplyHunk
  <2>2. PICK spot \in Nat : found = {spot} /\ spot >= 1 /\ spot - 1 + Len(before) <= n
    <3>1. lines \in Seq(LineTexts) /\ before \in Seq(LineTexts) /\ Cardinality(Locate(lines, before)) = 1
      BY <1>1, <1>2, <1>4
    <3> QED BY ONLY <3>1, LocateIs
  <2>3. at0 = spot
    <3> HIDE DEF found
    <3> QED BY <2>2
  <2>4. over \in BOOLEAN
    BY <1>1
  <2>5. e \in Seq(LineTexts)
    <3> DEFINE l == Len(before)
               m == spot + l
               front == SubSeq(lines, 1, spot - 1)
               back == SubSeq(lines, m, n)
    <3>1. /\ n \in Nat /\ l \in Nat /\ m \in Nat /\ spot - 1 \in Nat
          /\ 1 <= spot - 1 + 1 /\ spot - 1 <= n /\ 1 <= m /\ m <= n + 1
      <4>1. n \in Nat /\ l \in Nat
        BY <1>1, <1>2
      <4> HIDE DEF n, l
      <4> QED BY <2>2, <4>1 DEF l
    <3>2. front \in Seq(LineTexts)
      <4>1. lines \in Seq(LineTexts) /\ 1 \in Nat /\ spot - 1 \in Nat /\ 1 <= 1
            /\ 1 <= spot - 1 + 1 /\ spot - 1 <= Len(lines)
        BY <1>1, <3>1
      <4> QED BY ONLY <4>1, Stretch
    <3>3. back \in Seq(LineTexts)
      <4>1. /\ lines \in Seq(LineTexts) /\ m \in Nat /\ Len(lines) \in Nat /\ 1 <= m
            /\ m <= Len(lines) + 1 /\ Len(lines) <= Len(lines)
        BY <1>1, <3>1
      <4> QED BY ONLY <4>1, Stretch
    <3>4. e = (front \o put) \o back
      BY <2>3, EditedIs
    <3> HIDE DEF front, back, put, e
    <3>5. (front \o put) \o back \in Seq(LineTexts)
      <4>1. front \in Seq(LineTexts) /\ put \in Seq(LineTexts) /\ back \in Seq(LineTexts)
        BY <1>2, <3>2, <3>3
      <4> QED BY ONLY <4>1, ThreeJoined
    <3> QED BY <3>4, <3>5
  <2>6. e = Edited(lines, hunk, spot)
    BY <2>3
  <2> HIDE DEF e, over
  <2>7. [ok |-> TRUE, lines |-> e, ended |-> over] \in AppliedStates
    BY <2>4, <2>5 DEF AppliedStates
  <2> QED BY <1>4, <2>1, <2>2, <2>6, <2>7 DEF HunkApplied
<1> QED BY <1>3, <1>4

(* A section applied to a file, hunk by hunk. *)
LEMMA AppliedAre ==
  ASSUME NEW original, original.lines \in Seq(LineTexts), original.ended \in BOOLEAN,
         NEW file \in FileParts
  PROVE  LET f == ApplyHunks(original, file)
             n == Len(file.hunks)
         IN  /\ \A i \in 0..n : f[i] \in AppliedStates
             /\ f[0].lines = original.lines
             /\ \A i \in 1..n : HunkApplied(f[i - 1], file.hunks[i], f[i])
<1> DEFINE N == Len(file.hunks)
           V == AppliedStates
           first == [ok |-> TRUE, lines |-> original.lines,
                     ended |-> original.ended \/ Created(file)]
           From(g, i) == IF i = 0 THEN first ELSE ApplyHunk(g[i - 1], file.hunks[i])
           Is(g) == g = [i \in 0..N |-> From(g, i)]
<1>1. N \in Nat /\ \A i \in 1..N : file.hunks[i] \in ReadHunks
  BY DEF FileParts
<1>2. first \in V /\ first.lines = original.lines
  <2>1. (original.ended \/ Created(file)) \in BOOLEAN
    OBVIOUS
  <2> QED BY <2>1 DEF AppliedStates
<1>l. \A i \in 1..N : \A v \in V : HunkApplied(v, file.hunks[i], ApplyHunk(v, file.hunks[i]))
  BY <1>1, ApplyHunkIs
<1> HIDE DEF N, first
<1>3. \E g : Is(g) /\ \A i \in 0..N : g[i] \in V
  <2> DEFINE step == [i \in 1..N |-> [v \in V |-> ApplyHunk(v, file.hunks[i])]]
  <2>1. step \in [1..N -> [V -> V]]
    BY <1>l DEF HunkApplied
  <2> HIDE DEF step, V
  <2>2. PICK g : Walk(g, N, V, first, step)
    BY <1>1, <1>2, <2>1, WalkExists
  <2>3. /\ g \in [0..N -> V] /\ g[0] = first
        /\ \A i \in 1..N : g[i] = step[i][g[i - 1]]
    BY <2>2 DEF Walk
  <2>4. ASSUME NEW i \in 0..N PROVE g[i] = From(g, i)
    <3>1. CASE i = 0
      BY <2>3, <3>1
    <3>2. CASE i # 0
      <4>1. i \in 1..N /\ i - 1 \in 0..N
        BY <1>1, <3>2
      <4>2. g[i - 1] \in V
        BY <2>3, <4>1
      <4>3. step[i][g[i - 1]] = ApplyHunk(g[i - 1], file.hunks[i])
        BY <4>1, <4>2 DEF step
      <4> QED BY <2>3, <3>2, <4>1, <4>3
    <3> QED BY <3>1, <3>2
  <2> HIDE DEF From
  <2> QED BY <2>3, <2>4
<1> DEFINE f == CHOOSE g : Is(g)
<1>4. Is(f)
  <2> HIDE DEF Is
  <2> QED BY <1>3
<1>5. \A i \in 0..N : f[i] = From(f, i)
  <2> HIDE DEF From, f
  <2> QED BY <1>4
<1>6. ApplyHunks(original, file) = f
  BY DEF ApplyHunks, N, first
<1> HIDE DEF f, V
<1>d. f[0] = first
  <2>1. 0 \in 0..N
    BY <1>1
  <2> QED BY <1>5, <2>1
<1>e. \A i \in 1..N : f[i] = ApplyHunk(f[i - 1], file.hunks[i])
  <2>1. \A i \in 1..N : i \in 0..N /\ i # 0
    BY <1>1
  <2> QED BY <1>5, <2>1
<1> DEFINE B == {k \in Nat : k <= N => f[k] \in V}
<1>7. 0 \in B
  BY <1>2, <1>d
<1>8. ASSUME NEW k \in Nat, k \in B PROVE k + 1 \in B
  <2> DEFINE i == k + 1
  <2> SUFFICES ASSUME i <= N PROVE f[i] \in V
    BY DEF B
  <2>1. i \in 1..N /\ i - 1 = k /\ k <= N
    BY <1>1
  <2> HIDE DEF i
  <2>2. f[k] \in V
    BY <1>8, <2>1
  <2>3. f[i] = ApplyHunk(f[k], file.hunks[i])
    BY <1>e, <2>1
  <2> QED BY <1>l, <2>1, <2>2, <2>3 DEF HunkApplied, V
<1>9. \A i \in 0..N : f[i] \in V
  <2>1. \A k \in Nat : k \in B
    <3> HIDE DEF B
    <3> QED BY <1>7, <1>8, Upwards
  <2>2. \A i \in 0..N : i \in Nat /\ i <= N
    BY <1>1
  <2> QED BY <2>1, <2>2
<1>10. \A i \in 1..N : HunkApplied(f[i - 1], file.hunks[i], f[i])
  <2>1. \A i \in 1..N : i - 1 \in 0..N
    BY <1>1
  <2>2. ASSUME NEW i \in 1..N PROVE HunkApplied(f[i - 1], file.hunks[i], f[i])
    <3>1. f[i - 1] \in V
      BY <1>9, <2>1
    <3> QED BY <1>e, <1>l, <3>1
  <2> QED BY <2>2
<1> QED BY <1>2, <1>6, <1>9, <1>10, <1>d DEF N, V

-----------------------------------------------------------------------------
(* With no hunk put on it the file is what it was; *)
LEMMA PatchedByNone ==
  ASSUME NEW old, NEW hunks, NEW place, IsReading(old, hunks, place)
  PROVE  PatchedUpTo(old, hunks, place, 0) = old
<1> DEFINE q == [n \in 1..Len(old) |-> InsteadUpTo(old, hunks, place, 0, n)]
<1>1. old \in Seq(LineTexts)
  BY DEF IsReading
<1>2. Len(old) \in Nat /\ \A n \in 1..Len(old) : old[n] \in LineTexts
  BY <1>1
<1>3. \A n \in 1..Len(old) : InsteadUpTo(old, hunks, place, 0, n) = <<old[n]>>
  <2>1. ~\E h \in 1..0 : TRUE
    OBVIOUS
  <2> QED BY <2>1, InsteadStays
<1>4. \A n \in 1..Len(old) : <<old[n]>> \in Seq(LineTexts)
  BY <1>2, Single
<1>5. q \in [1..Len(old) -> Seq(LineTexts)] /\ \A n \in 1..Len(old) : q[n] = <<old[n]>>
  BY <1>3, <1>4
<1>6. PatchedUpTo(old, hunks, place, 0) = FlattenSeq(q)
  BY DEF PatchedUpTo
<1> HIDE DEF q
<1> QED BY <1>1, <1>5, <1>6, OneByOne

(* with all of them it is the file that the reading gives. *)
LEMMA PatchedByAll ==
  ASSUME NEW old, NEW hunks, NEW place, IsReading(old, hunks, place)
  PROVE  PatchedUpTo(old, hunks, place, Len(hunks)) = Patched(old, hunks, place)
<1>1. DOMAIN old = 1..Len(old) /\ DOMAIN hunks = 1..Len(hunks)
  BY ReadingIs
<1>2. ASSUME NEW n \in 1..Len(old)
      PROVE  InsteadUpTo(old, hunks, place, Len(hunks), n) = Instead(old, hunks, place, n)
  <2>1. Under(hunks, place, n) # {} <=> \E h \in 1..Len(hunks) : Over(hunks, place, h, n)
    BY <1>1 DEF Under, Over
  <2> QED BY <1>1, <2>1 DEF InsteadUpTo, Instead
<1> QED BY <1>1, <1>2 DEF PatchedUpTo, Patched

(* A hunk goes on the lines that every reading puts it on. *)
LEMMA GoesWhereItIsRead ==
  ASSUME NEW old, NEW hunks, NEW place, IsReading(old, hunks, place),
         NEW j \in Nat, j + 1 <= Len(hunks), NEW s, NEW t,
         HunkApplied(s, hunks[j + 1], t), t.ok,
         s.lines = PatchedUpTo(old, hunks, place, j)
  PROVE  t.lines = PatchedUpTo(old, hunks, place, j + 1)
<1> DEFINE k == j + 1
           hunk == hunks[k]
           now == PatchedUpTo(old, hunks, place, j)
           next == PatchedUpTo(old, hunks, place, k)
<1>1. hunk \in ReadHunks /\ Before(hunk) # <<>>
  <2>1. k \in 1..Len(hunks)
    <3>1. Len(hunks) \in Nat
      BY ReadingIs
    <3> QED BY <3>1
  <2> QED BY <2>1, ReadingIs
<1>2. Before(hunk) \in Seq(LineTexts) /\ After(hunk) \in Seq(LineTexts)
  BY <1>1, SidesAre
<1>3. PICK a, c \in Seq(LineTexts) :
        now = (a \o Before(hunk)) \o c /\ next = (a \o After(hunk)) \o c
  BY OneHunkMore
<1>4. PICK spot \in Nat : /\ Locate(s.lines, Before(hunk)) = {spot}
                          /\ t.lines = Edited(s.lines, hunk, spot)
  BY DEF HunkApplied
<1>s. s.lines = now
  OBVIOUS
<1> HIDE DEF k, hunk, now, next
<1> DEFINE b == Before(hunk)
<1>5. Len(a) + 1 \in Locate((a \o b) \o c, b)
  <2>1. b \in Seq(LineTexts) /\ b # <<>>
    BY <1>1, <1>2
  <2> HIDE DEF b
  <2> QED BY <2>1, FitsWhereItStands
<1>6. spot = Len(a) + 1
  BY <1>3, <1>4, <1>5, <1>s
<1>7. Edited((a \o b) \o c, hunk, Len(a) + 1) = (a \o After(hunk)) \o c
  <2>1. /\ a \in Seq(LineTexts) /\ c \in Seq(LineTexts)
        /\ Before(hunk) \in Seq(LineTexts) /\ After(hunk) \in Seq(LineTexts)
    BY <1>2
  <2> QED BY ONLY <2>1, EditedThere
<1>8. t.lines = next
  BY <1>3, <1>4, <1>6, <1>7, <1>s
<1> QED BY <1>8 DEF next, k

(* What a section makes of a file is what every reading of it gives. *)
LEMMA AppliedAsRead ==
  ASSUME NEW original, original.lines \in Seq(LineTexts), original.ended \in BOOLEAN,
         NEW file \in FileParts,
         NEW place \in Readings(original.lines, file.hunks),
         ApplyHunks(original, file)[Len(file.hunks)].ok
  PROVE  ApplyHunks(original, file)[Len(file.hunks)].lines
           = Patched(original.lines, file.hunks, place)
<1> DEFINE f == ApplyHunks(original, file)
           old == original.lines
           hunks == file.hunks
           N == Len(hunks)
           P(k) == PatchedUpTo(old, hunks, place, k)
<1>1. hunks \in Seq(ReadHunks)
  BY DEF FileParts
<1>2. IsReading(old, hunks, place) /\ N \in Nat
  BY <1>1 DEF IsReading
<1>3. /\ f[0].lines = old
      /\ \A i \in 1..N : HunkApplied(f[i - 1], hunks[i], f[i])
  BY AppliedAre
<1>4. f[N].ok
  OBVIOUS
<1> HIDE DEF f, old, hunks, N
<1>5. P(0) = old
  BY <1>2, PatchedByNone
<1> DEFINE B == {k \in Nat : k <= N => (f[k].ok => f[k].lines = P(k))}
<1>6. 0 \in B
  BY <1>3, <1>5
<1>7. ASSUME NEW k \in Nat, k \in B PROVE k + 1 \in B
  <2> SUFFICES ASSUME k + 1 <= N, f[k + 1].ok PROVE f[k + 1].lines = P(k + 1)
    BY DEF B
  <2>1. k + 1 \in 1..N /\ k + 1 - 1 = k /\ k <= N
    BY <1>2
  <2>2. HunkApplied(f[k], hunks[k + 1], f[k + 1])
    BY <1>3, <2>1
  <2>3. f[k].ok
    BY <2>2 DEF HunkApplied
  <2>4. f[k].lines = P(k)
    BY <1>7, <2>1, <2>3
  <2>5. k + 1 <= Len(hunks)
    BY DEF N
  <2> QED BY <1>2, <2>2, <2>4, <2>5, GoesWhereItIsRead
<1>8. f[N].lines = P(N)
  <2>1. N \in B
    <3> HIDE DEF B
    <3> QED BY <1>2, <1>6, <1>7, Upwards
  <2> QED BY <1>2, <1>4, <2>1
<1>9. P(N) = Patched(old, hunks, place)
  BY <1>2, PatchedByAll DEF N
<1> QED BY <1>8, <1>9 DEF f, old, hunks, N

-----------------------------------------------------------------------------
(* What a section that is not a deletion makes of a file is its reading. *)
LEMMA ApplyIs ==
  ASSUME NEW original, original.lines \in Seq(LineTexts), original.ended \in BOOLEAN,
         NEW file \in FileParts, ~Deleted(file), Apply(original, file).ok,
         NEW place \in Readings(original.lines, file.hunks)
  PROVE  \E ended \in BOOLEAN :
           Apply(original, file).contents
             = Contents(Patched(original.lines, file.hunks, place), ended)
<1> DEFINE st == ApplyHunks(original, file)[Len(file.hunks)]
<1>1. /\ Apply(original, file).ok = st.ok
      /\ Apply(original, file).contents = Contents(st.lines, st.ended)
  BY DEF Apply
<1>2. st.ok
  BY <1>1
<1>3. st \in AppliedStates
  <2>1. Len(file.hunks) \in 0..Len(file.hunks)
    BY DEF FileParts
  <2> QED BY <2>1, AppliedAre
<1>4. st.lines = Patched(original.lines, file.hunks, place)
  BY <1>2, AppliedAsRead
<1> HIDE DEF st
<1>5. st.ended \in BOOLEAN
  BY <1>3 DEF AppliedStates
<1> QED BY <1>1, <1>4, <1>5

(* What has been made of the sections so far: one change for each, in their *)
(* order, each against the file at the head.                                *)
Made(file) == [path |-> PatchPath(file),
               contents |-> Apply(FileAt(PatchPath(file)), file).contents]
AppliedSoFar ==
  /\ stage # "committed" => commit = <<>>
  /\ stage \in {"parse", "check", "probe"} => changes = <<>>
  /\ stage = "probe" => section \in 1..Len(sections)
  /\ stage = "apply" => section \in 1..Len(sections) /\ Len(changes) = section - 1
  /\ stage \in {"commit", "committed"} => Len(changes) = Len(sections)
  /\ stage \in {"apply", "commit", "committed"} =>
       /\ changes \in Seq({Made(sections[k]) : k \in DOMAIN sections})
       /\ \A i \in 1..Len(changes) :
            /\ changes[i] = Made(sections[i])
            /\ Apply(FileAt(PatchPath(sections[i])), sections[i]).ok
  /\ stage = "committed" => commit = changes /\ Acceptable

(* A sequence over a set is one over every larger set. *)
LEMMA MoreTexts ==
  ASSUME NEW S, NEW T, S \subseteq T, NEW s \in Seq(S) PROVE s \in Seq(T)
OBVIOUS

(* The file that a section is applied to. *)
LEMMA FileAtIs ==
  ASSUME ReadWhole, NEW path
  PROVE  FileAt(path).lines \in Seq(LineTexts) /\ FileAt(path).ended \in BOOLEAN
<1>1. CASE path \in DOMAIN proposal.tree
  <2>1. proposal.tree[path] \in [lines : Seq(STRING), ended : BOOLEAN]
    BY <1>1 DEF ReadWhole
  <2> DEFINE ls == proposal.tree[path].lines
  <2>2. ls \in Seq(STRING) /\ proposal.tree[path].ended \in BOOLEAN
    BY <2>1
  <2> HIDE DEF ls
  <2>3. ls \in Seq(LineTexts)
    <3>1. STRING \subseteq LineTexts
      BY DEF LineTexts
    <3> QED BY <2>2, <3>1, MoreTexts
  <2> QED BY <1>1, <2>2, <2>3 DEF FileAt, ls
<1>2. CASE path \notin DOMAIN proposal.tree
  <2>1. EmptyFile = [lines |-> <<>>, ended |-> FALSE]
    BY DEF EmptyFile, Contents
  <2>2. FileAt(path) = EmptyFile
    BY <1>2 DEF FileAt
  <2> QED BY <2>1, <2>2
<1> QED BY <1>1, <1>2

(* A refusal commits nothing. *)
LEMMA RefuseKeepsApplied ==
  ASSUME AppliedSoFar, stage # "committed", Refuse PROVE AppliedSoFar'
BY DEF Refuse, AppliedSoFar

(* Each section is applied once, and what is committed is all of it. *)
LEMMA NextApplied ==
  ASSUME BoundInv, AppliedSoFar, [FixNext]_fixVars PROVE AppliedSoFar'
<1>0. ReadWhole
  BY DEF BoundInv
<1>1. CASE ParseFix
  <2>1. CASE Refuse
    BY <1>1, <2>1, RefuseKeepsApplied DEF ParseFix
  <2>2. CASE ~Refuse
    <3>1. stage = "parse" /\ stage' = "check" /\ changes' = changes /\ commit' = commit
      BY <1>1, <2>2 DEF ParseFix
    <3> QED BY <3>1 DEF AppliedSoFar
  <2> QED BY <2>1, <2>2
<1>2. CASE CheckPaths
  <2>1. CASE Refuse
    BY <1>2, <2>1, RefuseKeepsApplied DEF CheckPaths
  <2>2. CASE ~Refuse
    <3>1. /\ stage = "check" /\ stage' = "probe" /\ changes' = changes
          /\ commit' = commit /\ section' = section /\ sections' = sections
      BY <1>2, <2>2 DEF CheckPaths
    <3>2. section \in 1..Len(sections)
      <4>1. section = 1
        BY <3>1 DEF BoundInv, LookedAt
      <4>2. sections \in Seq(FileParts) /\ sections # <<>>
        BY <1>0, <3>1, SectionsAre
      <4> QED BY <4>1, <4>2
    <3> QED BY <3>1, <3>2 DEF AppliedSoFar
  <2> QED BY <2>1, <2>2
<1>3. CASE Probe
  <2>1. CASE Refuse
    BY <1>3, <2>1, RefuseKeepsApplied DEF Probe
  <2>2. CASE ~Refuse
    <3>1. /\ stage = "probe" /\ changes' = changes /\ commit' = commit /\ sections' = sections
          /\ IF section = Len(sections) THEN stage' = "apply" /\ section' = 1
             ELSE section' = section + 1 /\ stage' = stage
      BY <1>3, <2>2 DEF Probe
    <3>2. /\ section \in 1..Len(sections) /\ Len(sections) \in Nat
          /\ changes = <<>> /\ commit = <<>>
      BY <1>0, <3>1, SectionsAre DEF AppliedSoFar
    <3>3. section' \in 1..Len(sections)
      <4> DEFINE n == Len(sections)
      <4>1. /\ n \in Nat /\ section \in 1..n
            /\ section' = IF section = n THEN 1 ELSE section + 1
        BY <3>1, <3>2
      <4> HIDE DEF n
      <4>2. section' \in 1..n
        BY ONLY <4>1
      <4> QED BY <4>2 DEF n
    <3>4. Len(changes) = 0 /\ (\A S : changes \in Seq(S)) /\ \A i \in 1..Len(changes) : FALSE
      BY <3>2
    <3>5. CASE section = Len(sections)
      <4>1. stage' = "apply" /\ Len(changes) = section' - 1
        BY <3>1, <3>4, <3>5
      <4> DEFINE S == {Made(sections[k]) : k \in DOMAIN sections}
      <4>2. changes' \in Seq(S')
        <5> HIDE DEF S
        <5> QED BY <3>1, <3>4
      <4> QED BY <3>1, <3>2, <3>3, <3>4, <4>1, <4>2 DEF AppliedSoFar
    <3>6. CASE section # Len(sections)
      <4>1. stage' = "probe"
        BY <3>1, <3>6
      <4> QED BY <3>1, <3>2, <3>3, <4>1 DEF AppliedSoFar
    <3> QED BY <3>5, <3>6
  <2> QED BY <2>1, <2>2
<1>4. CASE ApplyNext
  <2>1. CASE Refuse
    BY <1>4, <2>1, RefuseKeepsApplied DEF ApplyNext
  <2>2. CASE ~Refuse
    <3> DEFINE file == sections[section]
               S == {Made(sections[k]) : k \in DOMAIN sections}
               n == Len(sections)
    <3>1. /\ stage = "apply" /\ sections' = sections /\ commit' = commit
          /\ proposal' = proposal
          /\ Apply(FileAt(PatchPath(file)), file).ok
          /\ changes' = Append(changes, Made(file))
          /\ IF section = n THEN stage' = "commit" /\ section' = section
             ELSE section' = section + 1 /\ stage' = stage
      BY <1>4, <2>2 DEF ApplyNext, Made
    <3>2. /\ section \in 1..n /\ Len(changes) = section - 1 /\ commit = <<>>
          /\ changes \in Seq(S)
          /\ \A i \in 1..Len(changes) :
               /\ changes[i] = Made(sections[i])
               /\ Apply(FileAt(PatchPath(sections[i])), sections[i]).ok
      BY <3>1 DEF AppliedSoFar
    <3>3. n \in Nat /\ DOMAIN sections = 1..n
      BY <1>0, <3>1, SectionsAre
    <3>4. Made(file) \in S
      BY <3>2, <3>3
    <3>5. /\ changes' \in Seq(S) /\ Len(changes') = section
          /\ \A i \in 1..section - 1 : changes'[i] = changes[i]
          /\ changes'[section] = Made(file)
      <4> DEFINE x == Made(file)
      <4>1. changes \in Seq(S) /\ x \in S /\ Len(changes) = section - 1 /\ section \in Nat
            /\ changes' = Append(changes, x)
        BY <3>1, <3>2, <3>3, <3>4
      <4> HIDE DEF x, S
      <4>2. /\ changes' \in Seq(S) /\ Len(changes') = section
            /\ \A i \in 1..section - 1 : changes'[i] = changes[i]
            /\ changes'[section] = x
        BY ONLY <4>1
      <4> QED BY <4>2 DEF x
    <3>6. \A i \in 1..section : /\ changes'[i] = Made(sections[i])
                                /\ Apply(FileAt(PatchPath(sections[i])), sections[i]).ok
      <4>1. \A i \in 1..section : i = section \/ i \in 1..section - 1
        BY <3>2, <3>3
      <4> QED BY <3>1, <3>2, <3>5, <4>1
    <3>7. S' = S /\ \A i \in 1..section :
                      /\ Made(sections[i])' = Made(sections[i])
                      /\ Apply(FileAt(PatchPath(sections[i])), sections[i]).ok'
      BY <3>1, <3>6 DEF Made, FileAt
    <3>8. changes' \in Seq(S')
      <4> HIDE DEF S
      <4> QED BY <3>5, <3>7
    <3>9. \A i \in 1..Len(changes') :
            /\ changes'[i] = Made(sections[i])'
            /\ Apply(FileAt(PatchPath(sections[i])), sections[i]).ok'
      BY <3>5, <3>6, <3>7
    <3>10. CASE section = n
      BY <3>1, <3>2, <3>5, <3>8, <3>9, <3>10 DEF AppliedSoFar
    <3>11. CASE section # n
      <4>1. section' \in 1..n /\ Len(changes') = section' - 1 /\ stage' = "apply"
        <5>1. section' = section + 1 /\ section \in 1..n /\ n \in Nat /\ section # n
              /\ Len(changes') = section
          BY <3>1, <3>2, <3>3, <3>5, <3>11
        <5>2. stage' = "apply"
          BY <3>1, <3>11
        <5> HIDE DEF n
        <5>3. section' \in 1..n /\ Len(changes') = section' - 1
          BY ONLY <5>1
        <5> QED BY <5>2, <5>3
      <4> QED BY <3>1, <3>2, <3>8, <3>9, <4>1 DEF AppliedSoFar
    <3> QED BY <3>10, <3>11
  <2> QED BY <2>1, <2>2
<1>5. CASE CreateCommit
  <2>1. CASE Refuse
    BY <1>5, <2>1, RefuseKeepsApplied DEF CreateCommit
  <2>2. CASE ~Refuse
    <3>1. /\ stage = "commit" /\ stage' = "committed" /\ Acceptable
          /\ commit' = changes /\ changes' = changes /\ sections' = sections
          /\ proposal' = proposal
      BY <1>5, <2>2 DEF CreateCommit
    <3> QED BY <3>1 DEF AppliedSoFar, Acceptable, Made, FileAt
  <2> QED BY <2>1, <2>2
<1>6. CASE FileAtFails \/ CommitFails
  BY <1>6, RefuseKeepsApplied DEF FileAtFails, CommitFails
<1>7. CASE Ended \/ UNCHANGED fixVars
  <2>1. /\ stage' = stage /\ sections' = sections /\ proposal' = proposal
        /\ section' = section /\ changes' = changes /\ commit' = commit
    BY <1>7 DEF Ended, fixVars
  <2> QED BY <2>1 DEF AppliedSoFar, Acceptable, Made, FileAt
<1> QED BY <1>1, <1>2, <1>3, <1>4, <1>5, <1>6, <1>7 DEF FixNext

(* It is so at the beginning, and after every step; *)
FixInv == BoundInv /\ AppliedSoFar
LEMMA StepsFix ==
  (FixInit => FixInv) /\ (FixInv /\ [FixNext]_fixVars => FixInv')
<1>1. FixInit => AppliedSoFar
  BY DEF FixInit, AppliedSoFar
<1>2. BoundInv /\ AppliedSoFar /\ [FixNext]_fixVars => AppliedSoFar'
  BY NextApplied
<1> QED BY <1>1, <1>2, StepsBound DEF FixInv

(* so it is always so. *)
LEMMA AlwaysApplied == FixSpec => []FixInv
BY StepsFix, PTL DEF FixSpec

(* What is committed at a path has been made of the one section for it. *)
LEMMA AppliedIsNotAGuess == BoundInv /\ AppliedSoFar => FixIsNotAGuess
<1> SUFFICES ASSUME BoundInv, AppliedSoFar, NEW c \in DOMAIN commit,
                    NEW k \in DOMAIN sections,
                    PatchPath(sections[k]) = commit[c].path, ~Deleted(sections[k]),
                    NEW place \in Readings(FileAt(commit[c].path).lines, sections[k].hunks)
             PROVE  \E ended \in BOOLEAN :
                      commit[c].contents
                        = Contents(Patched(FileAt(commit[c].path).lines,
                                           sections[k].hunks, place), ended)
  BY DEF FixIsNotAGuess
<1> DEFINE path == commit[c].path
           file == sections[k]
<1>0. ReadWhole
  BY DEF BoundInv
<1>1. stage = "committed"
  <2>1. commit # <<>>
    OBVIOUS
  <2> QED BY <2>1 DEF AppliedSoFar
<1>2. /\ file \in FileParts /\ k \in 1..Len(sections)
  BY <1>0, <1>1, SectionsAre
<1>3. /\ commit = changes /\ Acceptable /\ Len(changes) = Len(sections)
      /\ DOMAIN changes = 1..Len(changes)
      /\ \A i \in 1..Len(changes) :
           /\ changes[i] = Made(sections[i])
           /\ Apply(FileAt(PatchPath(sections[i])), sections[i]).ok
  <2> DEFINE S == {Made(sections[i]) : i \in DOMAIN sections}
  <2>1. changes \in Seq(S)
    BY <1>1 DEF AppliedSoFar
  <2>2. DOMAIN changes = 1..Len(changes)
    <3> HIDE DEF S
    <3> QED BY <2>1
  <2> QED BY <1>1, <2>2 DEF AppliedSoFar
<1>4. changes[k] = Made(file) /\ Apply(FileAt(PatchPath(file)), file).ok
  BY <1>2, <1>3
<1>5. changes[k].path = PatchPath(file)
      /\ changes[k].contents = Apply(FileAt(PatchPath(file)), file).contents
  BY <1>4 DEF Made
<1>6. c = k
  BY <1>2, <1>3, <1>5 DEF Acceptable
<1>7. path = PatchPath(file) /\ commit[c].contents = Apply(FileAt(path), file).contents
      /\ Apply(FileAt(path), file).ok
  BY <1>3, <1>4, <1>5, <1>6
<1>8. FileAt(path).lines \in Seq(LineTexts) /\ FileAt(path).ended \in BOOLEAN
  BY <1>0, FileAtIs
<1>9. ~Deleted(file) /\ place \in Readings(FileAt(path).lines, file.hunks)
  OBVIOUS
<1> HIDE DEF path, file
<1>10. \E ended \in BOOLEAN :
        Apply(FileAt(path), file).contents
          = Contents(Patched(FileAt(path).lines, file.hunks, place), ended)
  BY <1>2, <1>7, <1>8, <1>9, ApplyIs
<1> QED BY <1>7, <1>10 DEF path, file

(* What is committed is what every reading of the diff against the file     *)
(* gives that puts its hunks on lines of their own: where a hunk could go   *)
(* to more than one place nothing is written.                               *)
THEOREM NotAGuess == FixSpec => []FixIsNotAGuess
<1>1. FixInv => FixIsNotAGuess
  BY AppliedIsNotAGuess DEF FixInv
<1> QED BY AlwaysApplied, <1>1, PTL

-----------------------------------------------------------------------------
(***************************************************************************)
(* The attended run: a step of it is a step of one part that the others    *)
(* stand still for, and a fix is proposed as if it were the first.         *)
(***************************************************************************)

(* The gate takes its own steps only. *)
LEMMA GateMoves == [AttendedNext]_attendedVars => [Next]_vars
<1>1. ASSUME GateSteps PROVE Next
  BY <1>1 DEF GateSteps, AtGate, Next, Program, Judging, Asking, Writing
<1>2. ASSUME TerminalSteps PROVE UNCHANGED vars
  BY <1>2 DEF TerminalSteps, AtTerminal
<1>3. ASSUME RepairSteps PROVE UNCHANGED vars
  BY <1>3 DEF RepairSteps, AtRepair, AnyProposal
<1> QED BY <1>1, <1>2, <1>3 DEF AttendedNext, attendedVars

(* So does the terminal, *)
LEMMA TerminalMoves == [AttendedNext]_attendedVars => [TerminalNext]_terminalVars
<1>1. ASSUME GateSteps PROVE UNCHANGED terminalVars
  BY <1>1 DEF GateSteps, AtGate
<1>2. ASSUME TerminalSteps PROVE TerminalNext
  BY <1>2 DEF TerminalSteps, AtTerminal, TerminalNext, Turns, EndStream, Prompts,
              Asks, Reads, Animation
<1>3. ASSUME RepairSteps PROVE UNCHANGED terminalVars
  BY <1>3 DEF RepairSteps, AtRepair, AnyProposal
<1> QED BY <1>1, <1>2, <1>3 DEF AttendedNext, attendedVars

(* and the fix, when it does not begin. *)
LEMMA FixMoves == [AttendedNext]_attendedVars => [FixNext]_fixVars \/ FixInit'
<1>1. ASSUME GateSteps PROVE UNCHANGED fixVars
  BY <1>1 DEF GateSteps, AtGate
<1>2. ASSUME TerminalSteps PROVE UNCHANGED fixVars
  BY <1>2 DEF TerminalSteps, AtTerminal
<1>3. ASSUME RepairSteps PROVE FixNext \/ AnyProposal
  BY <1>3 DEF RepairSteps, AtRepair, FixNext
<1>4. AnyProposal => FixInit'
  BY DEF AnyProposal, FixInit
<1> QED BY <1>1, <1>2, <1>3, <1>4 DEF AttendedNext, attendedVars

(* An attempt that is decided has nothing unaccounted for. *)
LEMMA DecidedIsAccountedFor == interactive \in BOOLEAN /\ Decided => IInv
<1> SUFFICES ASSUME interactive \in BOOLEAN, Decided PROVE IInv
  OBVIOUS
<1>1. /\ 0 \in 0..(MaxMoves + MaxFixAttempts) /\ 0 \in 0..MaxMoves
      /\ 0 \in 0..MaxFixAttempts
  BY GateAssumption
<1>2. TypeOK
  BY <1>1 DEF Decided, TypeOK, Heads, Verdicts
<1>3. Commits /\ OnRecord
  BY DEF Decided, Commits, OnRecord
<1>4. ReadInOrder
  BY DEF Decided, ReadInOrder, Nowhere
<1>5. HoldsKept
  BY DEF Decided, HoldsKept, Nowhere
<1> QED BY <1>2, <1>3, <1>4, <1>5 DEF IInv

(* What an attended run never does, from the gate to the commit of a fix:   *)
(* it merges nothing unread or held, and loses no attempt; it misleads      *)
(* nobody at the terminal and hears nobody wrong; and a fix it writes is no *)
(* guess at what its diff says, and nothing out of bounds.                  *)
THEOREM AttendedRunIsSafe ==
  AttendedSpec =>
    /\ [](MergesWhatWasRead /\ NoHoldIsMerged /\ EveryAttemptIsOnRecord)
    /\ DiffsLandWhereProposed
    /\ [](TurnIsShownAsSaid /\ PromptStandsLast /\ AnswersAreWhole)
    /\ [](NoChangeIsLost /\ FixIsNotAGuess /\ FixStaysInBounds)
<1>1. AttendedInit => IInv /\ TerminalInit /\ FixInit
  <2>1. ASSUME AttendedInit PROVE interactive \in BOOLEAN
    <3>1. session \in Session
      BY <2>1, TerminalAssumption DEF AttendedInit, SessionsOK
    <3> QED BY <2>1, <3>1 DEF AttendedInit, Session
  <2> QED BY <2>1, InitIInv, DecidedIsAccountedFor DEF AttendedInit
<1>2. IInv /\ [Next]_vars => IInv'
  BY TypeOKStep, RecordStep, ReadInOrderStep, HoldsKeptStep DEF IInv
<1>3. IInv => MergesWhatWasRead /\ NoHoldIsMerged /\ EveryAttemptIsOnRecord
  BY GateIsSafe
<1>4. FixInv => NoChangeIsLost /\ FixIsNotAGuess /\ FixStaysInBounds
  BY ReadShowsChanges, AppliedIsNotAGuess, LookedAtIsInBounds DEF FixInv, BoundInv
<1> QED BY <1>1, <1>2, <1>3, <1>4, GateMoves, TerminalMoves, FixMoves, LandsInPlace,
           StepsInput, AnswersHeeded, StepsTerminal, TurnShown, PromptIsLast, StepsFix, PTL
           DEF AttendedSpec, DiffsLandWhereProposed
=============================================================================
