-------------------------------- MODULE Gate --------------------------------
(***************************************************************************)
(* internal/run/run.go (decideCandidate, applyAssessmentDiff): the gate a  *)
(* pull request passes before it may be merged.  The agent assesses the    *)
(* checked out tree, the run overrules it on what it knows itself, the     *)
(* operator may be asked and may approve a diff for the pull request's own *)
(* branch.  Anybody may push to that branch meanwhile.  A head is a number *)
(* that never recurs, as a commit does.                                    *)
(***************************************************************************)
EXTENDS Integers

CONSTANTS
  MaxFixAttempts,  \* watch.maxFixAttempts
  MaxMoves,        \* bound: pushes to the pull request by others
  AnswersGetLost   \* TRUE when a commit may land although its call errs

ASSUME GateAssumption ==
  MaxFixAttempts \in Nat /\ MaxMoves \in Nat /\ AnswersGetLost \in BOOLEAN

Nowhere == -1               \* no head: not checked out, not read

VARIABLES
  (* the forge *)
  head,          \* the pull request's head
  moves,         \* pushes to it by others
  landed,        \* ghost: commits of the run on it
  (* what is known when the gate opens *)
  bump,          \* bumpHoldReason: none, a major bump, or a downgrade
  gap,           \* the changelog is one that only a found URL makes up for
  forged,        \* the inputs handed to the agent forge its data fence
  interactive, dryRun,
  canWrite,      \* fixes.allowedPaths is set, and the head is a branch here
  (* decideCandidate *)
  pc,
  candidate,     \* candidate.PullRequest.HeadSHA
  tree,          \* the head the checkout is at, Nowhere if it is not there
  files,         \* the head the changed files were read at
  bumpHold,      \* bumpHold, still standing
  verdict, diff, \* the assessment, after the holds
  hard,          \* hardHold
  url,           \* the agent returned the URL of release notes
  (* domain.Attempt *)
  recorded,      \* HeadSHA
  fixAttempts, fixes,
  decision

forge == <<head, moves, landed>>
facts == <<bump, gap, forged, interactive, dryRun, canWrite>>
inputs == <<candidate, tree, files>>
assessment == <<bumpHold, verdict, diff, hard, url>>
attempt == <<recorded, fixAttempts, fixes, decision>>
vars == <<forge, facts, pc, inputs, assessment, attempt>>

Heads == 0..(MaxMoves + MaxFixAttempts)
Verdicts == {"none", "safe", "clarify", "needs_approval", "defer"}

TypeOK ==
  /\ head \in Heads /\ moves \in 0..MaxMoves
  /\ landed \in 0..MaxFixAttempts
  /\ bump \in {"none", "major", "downgrade"} /\ gap \in BOOLEAN
  /\ forged \in BOOLEAN /\ interactive \in BOOLEAN /\ dryRun \in BOOLEAN
  /\ canWrite \in BOOLEAN
  /\ pc \in {"sync", "files", "assess", "judge", "ask", "refresh",
             "approve", "commit", "confirm", "done"}
  /\ candidate \in Heads
  /\ tree \in Heads \cup {Nowhere} /\ files \in Heads \cup {Nowhere}
  /\ bumpHold \in {"none", "major", "downgrade"}
  /\ verdict \in Verdicts /\ diff \in BOOLEAN /\ hard \in BOOLEAN
  /\ url \in BOOLEAN
  /\ recorded \in Heads
  /\ fixAttempts \in 0..MaxFixAttempts /\ fixes \in 0..MaxFixAttempts
  /\ decision \in {"none", "error", "needs_approval", "merge"}

(* The queue was listed at head 0; the files of a contested pull request   *)
(* were read, and memoised, some time after that.                          *)
Init ==
  /\ head \in 0..MaxMoves /\ moves = head /\ landed = 0
  /\ files \in {Nowhere} \cup 0..head
  /\ bump \in {"none", "major", "downgrade"} /\ bumpHold = bump
  /\ gap \in BOOLEAN /\ forged \in BOOLEAN
  /\ interactive \in BOOLEAN /\ dryRun \in BOOLEAN /\ canWrite \in BOOLEAN
  /\ pc = "sync" /\ candidate = 0 /\ recorded = 0 /\ tree = Nowhere
  /\ verdict = "none" /\ diff = FALSE /\ hard = FALSE /\ url = FALSE
  /\ fixAttempts = 0 /\ fixes = 0 /\ decision = "none"

(* Renovate rebases the pull request, or somebody pushes to its branch. *)
HeadMoves ==
  /\ pc # "done" /\ moves < MaxMoves
  /\ head' = head + 1 /\ moves' = moves + 1
  /\ UNCHANGED <<landed, facts, pc, inputs, assessment, attempt>>

-----------------------------------------------------------------------------
Decide(d) ==
  /\ pc' = "done" /\ decision' = d
  /\ UNCHANGED <<forge, facts, inputs, assessment, recorded, fixes>>

NeedsApproval == Decide("needs_approval") /\ UNCHANGED fixAttempts

Continue(step) == pc' = step /\ UNCHANGED <<forge, facts, attempt>>

(* syncWorkspace: a failed checkout is not the end, but nothing read from  *)
(* the tree is about this pull request.                                    *)
Sync ==
  /\ pc = "sync"
  /\ tree' \in {head, Nowhere}
  /\ Continue("files")
  /\ UNCHANGED <<candidate, files, assessment>>

(* changedFilesOf: one read per run, unless it was dropped or failed. *)
ReadFiles ==
  /\ pc = "files"
  /\ files' = IF files = Nowhere THEN head ELSE files
  /\ Continue("assess")
  /\ UNCHANGED <<candidate, tree, assessment>>

ReadFilesFails ==
  /\ pc = "files" /\ files = Nowhere
  /\ Decide("error") /\ UNCHANGED fixAttempts

-----------------------------------------------------------------------------
(* What the agent may answer: Assessment.Valid, with which the adapter     *)
(* turns everything else into an error.  A safe verdict carries evidence.  *)
Valid(a) == a.diff => a.verdict = "needs_approval"
Assessments ==
  {a \in [verdict : Verdicts \ {"none"}, diff : BOOLEAN, url : BOOLEAN] :
     Valid(a)}

(* hardHeld: no question, no diff, nothing but the operator's own decision.*)
HardHeld(a) == [a EXCEPT !.verdict = "needs_approval", !.diff = FALSE]

(* held: overrules a verdict, keeps a question and a deferral. *)
Held(a) ==
  IF a.verdict \in {"clarify", "defer"} THEN a
  ELSE [a EXCEPT !.verdict = "needs_approval"]

(* The holds of applyHolds that discussion can lift, and those it cannot. *)
RunHolds(a) == bumpHold' # "none" \/ (gap /\ ~a.url)

(* Mutant of HardHolds: the failed checkout is forgotten. *)
MutHardHoldsNoCheckout == bumpHold' = "downgrade"

HardHolds == bumpHold' = "downgrade" \/ tree = Nowhere

(* assess and applyHolds.  "distrusted": the agent failed, or a fence was  *)
(* forged by what it read, or named by what it wrote.                      *)
Assess ==
  /\ pc = "assess"
  /\ \E a \in Assessments, distrusted \in BOOLEAN :
       LET answer == IF distrusted \/ forged THEN HardHeld(a) ELSE a
       IN  /\ bumpHold' = IF answer.verdict = "safe" /\ bump # "downgrade"
                            THEN "none" ELSE bumpHold
           /\ hard' = (distrusted \/ forged \/ HardHolds)
           /\ LET held == IF HardHolds THEN HardHeld(answer)
                          ELSE IF RunHolds(answer) THEN Held(answer)
                          ELSE answer
              IN  verdict' = held.verdict /\ diff' = held.diff
           /\ url' = a.url
  /\ Continue("judge")
  /\ UNCHANGED inputs

-----------------------------------------------------------------------------
(* What follows from an assessment. *)

Defer == pc = "judge" /\ verdict = "defer" /\ NeedsApproval

Discussable ==
  \/ verdict = "clarify"
  \/ verdict = "needs_approval" /\ ~diff /\ ~hard

Discuss ==
  /\ pc = "judge" /\ Discussable
  /\ \/ interactive /\ Continue("ask") /\ UNCHANGED <<inputs, assessment>>
     \/ ~interactive /\ NeedsApproval

(* Approver.Clarify: an error, a deferral and an empty answer end it. *)
OperatorAnswers ==
  /\ pc = "ask"
  /\ Continue("refresh") /\ UNCHANGED <<inputs, assessment>>

(* Mutant of OperatorDefers: the question is put to the agent again. *)
MutOperatorDefersAgain ==
  /\ pc = "ask"
  /\ Continue("assess") /\ UNCHANGED <<inputs, assessment>>

OperatorDefers == pc = "ask" /\ NeedsApproval

(* An answer is only used for the head it was given about. *)
RefreshAfterAnswer ==
  /\ pc = "refresh"
  /\ \/ head = candidate /\ Continue("assess") /\ UNCHANGED <<inputs, assessment>>
     \/ NeedsApproval

Merge == pc = "judge" /\ verdict = "safe" /\ Decide("merge") /\ UNCHANGED fixAttempts

(* Nothing to discuss, nothing to apply. *)
HoldStands ==
  /\ pc = "judge" /\ verdict = "needs_approval" /\ ~diff /\ hard
  /\ NeedsApproval

-----------------------------------------------------------------------------
(* applyAssessmentDiff: the one write before the merge. *)

MayWrite ==
  ~dryRun /\ interactive /\ canWrite /\ fixAttempts < MaxFixAttempts

ProposeDiff ==
  /\ pc = "judge" /\ verdict = "needs_approval" /\ diff
  /\ \/ MayWrite /\ Continue("approve") /\ UNCHANGED <<inputs, assessment>>
     \/ ~MayWrite /\ NeedsApproval

ApproveDiff ==
  /\ pc = "approve"
  /\ \/ Continue("commit") /\ UNCHANGED <<inputs, assessment>>
     \/ NeedsApproval                       \* declined, or not answered

DiffLands == head' = head + 1 /\ landed' = landed + 1 /\ UNCHANGED moves

NeedsApprovalAfterWrite ==
  /\ pc' = "done" /\ decision' = "needs_approval"
  /\ UNCHANGED <<facts, inputs, assessment, recorded, fixes>>

(* Mutant of CommitDiff: the commit is built on the head there is now. *)
MutCommitDiffOnLatest ==
  /\ pc = "commit"
  /\ DiffLands
  /\ fixAttempts' = fixAttempts + 1 /\ fixes' = fixes + 1
  /\ recorded' = head'
  /\ pc' = "confirm"
  /\ UNCHANGED <<facts, inputs, assessment, decision>>

(* The commit expects the head the assessment was put to the operator for. *)
CommitDiff ==
  /\ pc = "commit" /\ head = candidate
  /\ DiffLands
  /\ fixAttempts' = fixAttempts + 1 /\ fixes' = fixes + 1
  /\ recorded' = head'
  /\ pc' = "confirm"
  /\ UNCHANGED <<facts, inputs, assessment, decision>>

(* Mutant of CommitDiffFails: a commit that failed costs nothing. *)
MutCommitDiffFailsUncharged ==
  /\ pc = "commit"
  /\ \/ UNCHANGED forge
     \/ AnswersGetLost /\ head = candidate /\ DiffLands
  /\ NeedsApprovalAfterWrite
  /\ UNCHANGED fixAttempts

(* It does not apply, is refused, or its answer is lost: budget is spent. *)
CommitDiffFails ==
  /\ pc = "commit"
  /\ \/ UNCHANGED forge
     \/ AnswersGetLost /\ head = candidate /\ DiffLands
  /\ NeedsApprovalAfterWrite
  /\ fixAttempts' = fixAttempts + 1

(* Mutant of ConfirmDiff: the files read before the commit stay memoised. *)
MutConfirmDiffKeepsFiles ==
  /\ pc = "confirm"
  /\ \/ /\ head = recorded
        /\ candidate' = recorded
        /\ Continue("sync")
        /\ UNCHANGED <<tree, files, assessment>>
     \/ NeedsApproval

(* The commit has to be the head still; the next round reads it afresh. *)
ConfirmDiff ==
  /\ pc = "confirm"
  /\ \/ /\ head = recorded
        /\ candidate' = recorded
        /\ files' = Nowhere
        /\ Continue("sync")
        /\ UNCHANGED <<tree, assessment>>
     \/ NeedsApproval

Finished == pc = "done" /\ UNCHANGED vars

Judging == Defer \/ Discuss \/ Merge \/ HoldStands \/ ProposeDiff
Asking == OperatorAnswers \/ OperatorDefers \/ RefreshAfterAnswer
Writing == ApproveDiff \/ CommitDiff \/ CommitDiffFails \/ ConfirmDiff
Program ==
  Sync \/ ReadFiles \/ ReadFilesFails \/ Assess \/ Judging \/ Asking \/ Writing

Next == Program \/ HeadMoves \/ Finished

(* One goroutine; the agent's turns, the forge's calls and git all run     *)
(* under deadlines, and the operator answers what is asked.                *)
Spec == Init /\ [][Next]_vars /\ WF_vars(Program)

-----------------------------------------------------------------------------
(* The merge is pinned to the candidate's head.  If the forge would accept *)
(* it, that head is the one the agent's tree and file list came from: the  *)
(* checkout, the memoised files and the pin are three reads at three times.*)
MergesWhatWasRead ==
  decision = "merge" /\ head = candidate =>
    tree = candidate /\ files = candidate

(* Nothing the run holds against the update still stands when it merges    *)
(* (the table of docs/cli.md): no downgrade, no foreign tree, no forged    *)
(* fence, and no changelog gap that a URL did not close.                   *)
NoHoldIsMerged ==
  decision = "merge" =>
    bump # "downgrade" /\ tree # Nowhere /\ ~forged /\ (gap => url)

(* A hold that no discussion can clear becomes neither a question nor a    *)
(* write to the pull request.                                              *)
HardHoldsAreFinal ==
  pc \in {"ask", "refresh", "approve", "commit"} =>
    bump # "downgrade" /\ tree # Nowhere /\ ~forged

(* A diff lands only on the head it was proposed from: the tree the agent  *)
(* read, the files it was told of and the branch are one commit.           *)
DiffsLandWhereProposed ==
  [][landed' # landed => tree = head /\ files = head]_vars

(* What a merged attempt takes along into the repair loop: every attempt   *)
(* it spent is a commit on the branch and a diff on record, so that the    *)
(* budget left and the paths a revert restores are right.                  *)
EveryAttemptIsOnRecord ==
  /\ landed <= fixAttempts /\ fixAttempts <= MaxFixAttempts
  /\ decision = "merge" => landed = fixes /\ fixes = fixAttempts

(* The gate decides, unless the operator goes on answering. *)
GateDecides == <>(pc = "done") \/ []<><<OperatorAnswers>>_vars
=============================================================================
