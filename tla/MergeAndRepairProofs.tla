------------------------ MODULE MergeAndRepairProofs ------------------------
(***************************************************************************)
(* Safety of MergeAndRepair, for every set of paths and objects, every fix *)
(* budget and every number of pushes.  The properties are not inductive:   *)
(* each rests on what the earlier steps of the attempt established, which  *)
(* the conjuncts of IInv carry from step to step.                          *)
(***************************************************************************)
EXTENDS MergeAndRepair, TLAPS

Before == {"baseline", "branchHead", "confirm", "merge"}
Undecided ==
  {"baseline", "branchHead", "confirm", "merge", "readBack", "done"}
Judging == {"diagnose", "approve", "fixHead", "fixCommit", "rejected", "recheck"}

(* What has happened to the branch by each step. *)
PhaseInv ==
  /\ request = "open" => wrote = {}
  /\ pc \in Before => request = "open" /\ ~unanswered
  /\ pc \notin Undecided => request = "merged"
  /\ pc \notin {"baseline", "branchHead", "done"} => preMergeHead # {}
  /\ \A c, d \in preMergeHead : c = d

(* How the attempt can have ended. *)
Concluded ==
  pc = "done" =>
    IF halt # "none"
      THEN verdict = "error" \/ (verdict = "reverted" /\ request = "merged")
    ELSE IF request = "merged"
      THEN \/ verdict \in {"merged", "fixed", "kept"}
           \/ verdict = "reverted" /\ evidence = "well"
           \/ verdict = "error" /\ unanswered
    ELSE /\ verdict = "error" \/ (verdict = "skipped" /\ ~unanswered)
         /\ wrote = {}

(* What the attempt, the halt and the label say by each step. *)
VerdictInv ==
  /\ pc \in {"restore", "annotate"} =>
       verdict = "reverted" /\ reverts = 1
  /\ pc \notin {"restore", "annotate", "done"} => verdict = "none"
  /\ halt # "none" => pc \in {"annotate", "done"}
  /\ label => pc = "done" /\ verdict = "reverted" /\ reverts = 1
  /\ pc = "annotate" /\ halt = "none" => evidence = "well"
  /\ Concluded

(* A fix is only on its way while the budget has room for it. *)
BudgetInv ==
  /\ FixBudget
  /\ pc \in {"approve", "fixHead", "fixCommit"} =>
       fixAttempts < MaxFixAttempts

(* The attempt knows every path written, unless a fix may land unnoticed. *)
WrittenInv ==
  /\ request = "merged" => prPaths \subseteq wrote
  /\ "fix" \notin LostAnswers => wrote \subseteq RevertPaths

(* What is judged or condemned is named, or the window was a stall without *)
(* names.                                                                  *)
NamedInv ==
  /\ pc \in Judging => window.objects # {} \/ NamelessStall
  /\ pc = "settle" /\ why = "benign" =>
       window.objects # {} \/ NamelessStall
  /\ pc \in {"askRevert", "revertHead", "revertCommit", "restore"} =>
       broken # {}
  /\ pc = "settle" /\ why # "benign" => broken # {}
  /\ HealthyWasObserved

(* Grace is only ever taken along with a second window. *)
GraceInv ==
  /\ pc \in Before \/ pc \in {"readBack", "watch"} => ~graced
  /\ pc \in Judging \/ pc \in {"settle", "askRevert", "revertHead"} =>
       windows >= 1
  /\ pc \in Judging /\ graced => windows >= 2
  /\ pc \in {"askRevert", "revertHead"} /\ window.result = "stalled" =>
       windows >= 2

IInv ==
  /\ TypeOK /\ PhaseInv /\ VerdictInv /\ BudgetInv /\ WrittenInv /\ NamedInv
  /\ GraceInv

-----------------------------------------------------------------------------
(* A commit on top of another is a commit. *)
LEMMA NewCommit ==
  ASSUME NEW c \in Commits, NEW t \in Trees
  PROVE  [serial |-> c.serial + 1, tree |-> t] \in Commits
  BY DEF Commits

(* What a watch may answer the run, cancelled or not. *)
LEMMA WatchWindow ==
  ASSUME NEW w \in Answers(WatchReturns(Objects, Blind))
  PROVE  /\ w \in Windows(Objects)
         /\ w.result \in {"error", "pass", "fail", "stalled"}
         /\ w.result = "fail" => w.objects # {}
  BY RepairAssumption DEF Answers, WatchReturns, Silent, Windows

(* What waiting for some objects to recover may answer it. *)
LEMMA RestoredWindow ==
  ASSUME NEW objects \in SUBSET Objects,
         NEW w \in Answers(RestoredReturns(Objects, objects))
  PROVE  /\ w \in Windows(Objects)
         /\ objects # {} => w.result \in {"error", "pass", "stalled"}
         /\ w.result = "stalled" => w.objects # {}
  BY DEF Answers, RestoredReturns, WatchReturns, Silent, Windows

(* A window that condemns a merge names objects, or it stalled without.    *)
LEMMA WatchNames ==
  ASSUME NEW w \in Answers(WatchReturns(Objects, Blind)),
         w.result \in {"fail", "stalled"}
  PROVE  w.objects # {} \/ (w.result = "stalled" /\ w.objects = {})
  BY WatchWindow

(* A wait that ends badly names what did not recover. *)
LEMMA RestoredNames ==
  ASSUME NEW objects \in SUBSET Objects, objects # {},
         NEW w \in Answers(RestoredReturns(Objects, objects)),
         w.result = "stalled"
  PROVE  w.objects # {}
  BY RestoredWindow

-----------------------------------------------------------------------------

(* What a step leaves on the forge is well typed. *)
LEMMA ForgeOKStep == TypeOK /\ [Next]_vars => ForgeOK'
<1> SUFFICES ASSUME TypeOK, [Next]_vars PROVE ForgeOK'
  OBVIOUS
<1> USE RepairAssumption DEF TypeOK, pull
<1>1. CASE Merging
  <2>1. CASE TakeBaseline
    BY <2>1, NewCommit
       DEF TakeBaseline, GiveUp, forge, ForgeMerges, CommentOutliving, Trees,
           Contents, ForgeOK, Commits
  <2>2. CASE ReadBranchHead
    BY <2>2, NewCommit
       DEF ReadBranchHead, GiveUp, forge, ForgeMerges, CommentOutliving,
           Trees, Contents, ForgeOK, Commits
  <2>3. CASE ConfirmAssessedHead
    BY <2>3, NewCommit
       DEF ConfirmAssessedHead, GiveUp, forge, ForgeMerges, CommentOutliving,
           Trees, Contents, ForgeOK, Commits
  <2>4. CASE MergeAnswered
    BY <2>4, NewCommit
       DEF MergeAnswered, GiveUp, forge, ForgeMerges, CommentOutliving,
           Trees, Contents, ForgeOK, Commits
  <2>5. CASE MergeFails
    BY <2>5, NewCommit
       DEF MergeFails, GiveUp, forge, ForgeMerges, CommentOutliving, Trees,
           Contents, ForgeOK, Commits
  <2>6. CASE HeadRefused
    BY <2>6, NewCommit
       DEF HeadRefused, GiveUp, forge, ForgeMerges, CommentOutliving, Trees,
           Contents, ForgeOK, Commits
  <2>7. CASE ReadBackMerge
    BY <2>7, NewCommit
       DEF ReadBackMerge, GiveUp, forge, ForgeMerges, CommentOutliving,
           Trees, Contents, ForgeOK, Commits
  <2>8. CASE WatchMerge
    BY <2>8, NewCommit
       DEF WatchMerge, GiveUp, forge, ForgeMerges, CommentOutliving, Trees,
           Contents, ForgeOK, Commits
  <2> QED BY <1>1, <2>1, <2>2, <2>3, <2>4, <2>5, <2>6, <2>7, <2>8 DEF Merging
<1>2. CASE Diagnosing
  BY <1>2
     DEF Diagnosing, DiagnoseForged, Comment, LeaveInPlace, DiagnoseUnfixable,
         Discard, forge, DiagnoseBenign, DiagnoseFix, ApproveFix, Settle,
         Healthy, Waited, ForgeOK, Commits
<1>3. CASE Fixing
  BY <1>3, NewCommit
     DEF Fixing, ReadFixHead, forge, CommitFix, FixLands, Lands, LandsOn,
         CommitFixFails, RejectedFix, Discard, Healthy, WatchFix, Comment,
         LeaveInPlace, Trees, Contents, ForgeOK, Commits, RepairedContent,
         LocalsOK
<1>4. CASE Asking
  BY <1>4
     DEF Asking, RevertNow, forge, RevertKeep, Comment, RevertWait,
         RevertUnanswered, LeaveInPlace, ForgeOK, Commits
<1>5. CASE Reverting
  <2>1. CASE Recheck
    BY <2>1
       DEF Recheck, Comment, Healthy, LeaveInPlace, forge, ForgeOK, Commits,
           BeforeMerge, LocalsOK
  <2>2. CASE ReadRevertHead
    BY <2>2
       DEF ReadRevertHead, Comment, RevertFails, forge, ForgeOK, Commits,
           BeforeMerge, LocalsOK
  <2>3. CASE CommitRevert
    BY <2>3, NewCommit
       DEF CommitRevert, Lands, LandsOn, RevertPaths, Trees, Contents,
           ForgeOK, Commits, BeforeMerge, LocalsOK
  <2>4. CASE CommitRevertFails
    BY <2>4, NewCommit
       DEF CommitRevertFails, Comment, LandsOn, RevertFails, RevertPaths,
           Trees, Contents, ForgeOK, Commits, BeforeMerge, LocalsOK
  <2>5. CASE RestoreBaseline
    BY <2>5
       DEF RestoreBaseline, forge, ForgeOK, Commits, BeforeMerge, LocalsOK
  <2>6. CASE AnnotateReverted
    BY <2>6
       DEF AnnotateReverted, Comment, ForgeOK, Commits, BeforeMerge, LocalsOK
  <2> QED BY <1>5, <2>1, <2>2, <2>3, <2>4, <2>5, <2>6 DEF Reverting
<1>6. CASE Others \/ Finished
  <2>1. CASE ForeignPush
    BY <2>1, NewCommit DEF ForeignPush, Trees, Contents, ForgeOK, Commits
  <2>2. CASE HeadMoves
    BY <2>2 DEF HeadMoves, ForgeOK, Commits
  <2>3. CASE Interrupt
    BY <2>3 DEF Interrupt, forge, ForgeOK, Commits
  <2>4. CASE Finished
    BY <2>4 DEF Finished, forge, vars, ForgeOK, Commits
  <2>5. CASE UnansweredLands
    BY <2>5, NewCommit DEF UnansweredLands, ForgeMerges, locals, attempt, Trees, Contents, ForgeOK, Commits, LocalsOK
  <2> QED BY <1>6, <2>1, <2>2, <2>3, <2>4, <2>5 DEF Others
<1>7. CASE UNCHANGED vars
  BY <1>7 DEF vars, forge, ForgeOK, Commits
<1> QED
  BY <1>1, <1>2, <1>3, <1>4, <1>5, <1>6, <1>7 DEF Next, Program

(* ... and what the run remembers, *)
LEMMA LocalsOKStep == TypeOK /\ [Next]_vars => LocalsOK'
<1> SUFFICES ASSUME TypeOK, [Next]_vars PROVE LocalsOK'
  OBVIOUS
<1> USE RepairAssumption DEF TypeOK, pull
<1>1. CASE Merging
  BY <1>1
     DEF Merging, TakeBaseline, Advance, Conclude, GiveUp, locals,
         ReadBranchHead, ConfirmAssessedHead, MergeAnswered, MergeFails,
         HeadRefused, ReadBackMerge, WatchMerge, LocalsOK, Steps, ForgeOK
<1>2. CASE Diagnosing
  BY <1>2
     DEF Diagnosing, DiagnoseForged, Comment, Conclude, LeaveInPlace, locals,
         DiagnoseUnfixable, Discard, DiagnoseBenign, DiagnoseFix, ApproveFix,
         EndFix, Settle, Healthy, Waited, LocalsOK, Steps, ForgeOK
<1>3. CASE Fixing
  <2>1. CASE ReadFixHead
    BY <2>1 DEF ReadFixHead, EndFix, LocalsOK, Steps, ForgeOK
  <2>2. CASE CommitFix
    BY <2>2
       DEF CommitFix, EndFix, FixLands, Lands, LandsOn, LocalsOK, Steps,
           ForgeOK
  <2>3. CASE CommitFixFails
    BY <2>3
       DEF CommitFixFails, EndFix, FixLands, Lands, LandsOn, LocalsOK, Steps,
           ForgeOK
  <2>4. CASE RejectedFix
    BY <2>4
       DEF RejectedFix, Advance, Conclude, Discard, Healthy, ReadBroken,
           locals, LocalsOK, Steps, ForgeOK
  <2>5. CASE WatchFix
    BY <2>5
       DEF WatchFix, Advance, Comment, Conclude, Healthy, LeaveInPlace,
           locals, LocalsOK, Steps, ForgeOK
  <2> QED BY <1>3, <2>1, <2>2, <2>3, <2>4, <2>5 DEF Fixing
<1>4. CASE Asking
  BY <1>4
     DEF Asking, RevertNow, Advance, locals, RevertKeep, Comment, Conclude,
         RevertWait, RevertUnanswered, LeaveInPlace, LocalsOK, Steps, ForgeOK
<1>5. CASE Reverting
  BY <1>5
     DEF Reverting, Recheck, Advance, Comment, Conclude, Healthy,
         LeaveInPlace, ReadBroken, locals, ReadRevertHead, RevertFails,
         CommitRevert, BeforeMerge, Lands, LandsOn, Reverted,
         CommitRevertFails, RestoreBaseline, AnnotateReverted, LocalsOK,
         Steps, ForgeOK
<1>6. CASE Others \/ Finished
  <2>1. CASE ForeignPush
    BY <2>1 DEF ForeignPush, locals, LocalsOK, Steps, ForgeOK
  <2>2. CASE HeadMoves
    BY <2>2 DEF HeadMoves, locals, LocalsOK, Steps, ForgeOK
  <2>3. CASE Interrupt
    BY <2>3 DEF Interrupt, LocalsOK, Steps, ForgeOK
  <2>4. CASE Finished
    BY <2>4 DEF Finished, locals, vars, LocalsOK, Steps, ForgeOK
  <2>5. CASE UnansweredLands
    BY <2>5, NewCommit DEF UnansweredLands, ForgeMerges, locals, attempt, LocalsOK, Steps, ForgeOK
  <2> QED BY <1>6, <2>1, <2>2, <2>3, <2>4, <2>5 DEF Others
<1>7. CASE UNCHANGED vars
  BY <1>7 DEF vars, locals, LocalsOK, Steps, ForgeOK
<1> QED
  BY <1>1, <1>2, <1>3, <1>4, <1>5, <1>6, <1>7 DEF Next, Program

(* ... the windows it judges and the objects they name, *)
LEMMA WindowOKStep == TypeOK /\ [Next]_vars => WindowOK'
<1> SUFFICES ASSUME TypeOK, [Next]_vars PROVE WindowOK'
  OBVIOUS
<1> USE RepairAssumption DEF TypeOK, pull
<1>1. CASE Merging
  BY <1>1, WatchWindow
     DEF Merging, TakeBaseline, GiveUp, locals, ReadBranchHead,
         ConfirmAssessedHead, MergeAnswered, MergeFails, HeadRefused,
         ReadBackMerge, WatchMerge, WindowOK, Windows, Window
<1>2. CASE Diagnosing
  BY <1>2, RestoredWindow
     DEF Diagnosing, DiagnoseForged, LeaveInPlace, locals, DiagnoseUnfixable,
         DiagnoseBenign, DiagnoseFix, ApproveFix, EndFix, Settle, Waited,
         WindowOK, Windows, Window
<1>3. CASE Fixing
  BY <1>3, WatchWindow
     DEF Fixing, ReadFixHead, EndFix, CommitFix, CommitFixFails, RejectedFix,
         locals, WatchFix, LeaveInPlace, WindowOK, Windows, Window
<1>4. CASE Asking
  BY <1>4
     DEF Asking, RevertNow, locals, RevertKeep, RevertWait, RevertUnanswered,
         LeaveInPlace, WindowOK, Windows, Window
<1>5. CASE Reverting
  BY <1>5, RestoredWindow
     DEF Reverting, Recheck, LeaveInPlace, locals, ReadRevertHead,
         CommitRevert, Reverted, CommitRevertFails, RestoreBaseline,
         AnnotateReverted, WindowOK, Windows, Window
<1>6. CASE Others \/ Finished
  BY <1>6
     DEF Others, UnansweredLands, ForgeMerges, attempt, locals, ForeignPush,
         HeadMoves, Interrupt, Finished, vars, WindowOK, Windows, Window
<1>7. CASE UNCHANGED vars
  BY <1>7 DEF vars, locals, WindowOK, Windows, Window
<1> QED
  BY <1>1, <1>2, <1>3, <1>4, <1>5, <1>6, <1>7 DEF Next, Program

(* ... the attempt, *)
LEMMA AttemptOKStep == TypeOK /\ [Next]_vars => AttemptOK'
<1> SUFFICES ASSUME TypeOK, [Next]_vars PROVE AttemptOK'
  OBVIOUS
<1> USE RepairAssumption DEF TypeOK, pull
<1>1. CASE Merging
  BY <1>1
     DEF Merging, TakeBaseline, Advance, Conclude, GiveUp, attempt,
         ReadBranchHead, ConfirmAssessedHead, MergeAnswered, MergeFails,
         HeadRefused, ReadBackMerge, WatchMerge, AttemptOK, Verdicts, Halts,
         LocalsOK
<1>2. CASE Diagnosing
  BY <1>2
     DEF Diagnosing, DiagnoseForged, Conclude, LeaveInPlace,
         DiagnoseUnfixable, Discard, attempt, DiagnoseBenign, DiagnoseFix,
         MayFix, ApproveFix, Settle, Healthy, HealthyVerdict, Waited,
         AttemptOK, Verdicts, Halts, LocalsOK
<1>3. CASE Fixing
  BY <1>3
     DEF Fixing, ReadFixHead, SpendAttempt, attempt, CommitFix,
         CommitFixFails, RejectedFix, Advance, Conclude, Discard, Healthy,
         HealthyVerdict, WatchFix, LeaveInPlace, AttemptOK, Verdicts, Halts,
         LocalsOK
<1>4. CASE Asking
  BY <1>4
     DEF Asking, RevertNow, Advance, attempt, RevertKeep, Conclude,
         RevertWait, RevertUnanswered, LeaveInPlace, AttemptOK, Verdicts,
         Halts, LocalsOK
<1>5. CASE Reverting
  BY <1>5
     DEF Reverting, Recheck, Advance, Conclude, Healthy, HealthyVerdict,
         LeaveInPlace, attempt, ReadRevertHead, RevertFails, CommitRevert,
         RevertPaths, Reverted, CommitRevertFails, RestoreBaseline,
         AnnotateReverted, AttemptOK, Verdicts, Halts, LocalsOK
<1>6. CASE Others \/ Finished
  BY <1>6
     DEF Others, UnansweredLands, ForgeMerges, attempt, locals, ForeignPush,
         HeadMoves, Interrupt, Finished, vars, AttemptOK, Verdicts, Halts,
         LocalsOK
<1>7. CASE UNCHANGED vars
  BY <1>7 DEF vars, attempt, AttemptOK, Verdicts, Halts, LocalsOK
<1> QED
  BY <1>1, <1>2, <1>3, <1>4, <1>5, <1>6, <1>7 DEF Next, Program

(* ... and the history. *)
LEMMA GhostsOKStep == TypeOK /\ [Next]_vars => GhostsOK'
<1> SUFFICES ASSUME TypeOK, [Next]_vars PROVE GhostsOK'
  OBVIOUS
<1> USE RepairAssumption DEF TypeOK, pull
<1>1. CASE Merging
  <2>1. CASE TakeBaseline
    BY <2>1
       DEF TakeBaseline, GiveUp, ghosts, ForgeMerges, Established, Observed,
           GhostsOK, ForgeOK, LocalsOK
  <2>2. CASE ReadBranchHead
    BY <2>2
       DEF ReadBranchHead, GiveUp, ghosts, ForgeMerges, Established,
           Observed, GhostsOK, ForgeOK, LocalsOK
  <2>3. CASE ConfirmAssessedHead
    BY <2>3
       DEF ConfirmAssessedHead, GiveUp, ghosts, ForgeMerges, Established,
           Observed, GhostsOK, ForgeOK, LocalsOK
  <2>4. CASE MergeAnswered
    BY <2>4
       DEF MergeAnswered, GiveUp, ghosts, ForgeMerges, Established, Observed,
           GhostsOK, ForgeOK, LocalsOK
  <2>5. CASE MergeFails
    BY <2>5
       DEF MergeFails, GiveUp, ghosts, ForgeMerges, Established, Observed,
           GhostsOK, ForgeOK, LocalsOK
  <2>6. CASE HeadRefused
    BY <2>6
       DEF HeadRefused, GiveUp, ghosts, ForgeMerges, Established, Observed,
           GhostsOK, ForgeOK, LocalsOK
  <2>7. CASE ReadBackMerge
    BY <2>7
       DEF ReadBackMerge, GiveUp, ghosts, ForgeMerges, Established, Observed,
           GhostsOK, ForgeOK, LocalsOK
  <2>8. CASE WatchMerge
    BY <2>8
       DEF WatchMerge, GiveUp, ghosts, ForgeMerges, Established, Observed,
           GhostsOK, ForgeOK, LocalsOK
  <2> QED BY <1>1, <2>1, <2>2, <2>3, <2>4, <2>5, <2>6, <2>7, <2>8 DEF Merging
<1>2. CASE Diagnosing
  BY <1>2
     DEF Diagnosing, DiagnoseForged, ghosts, DiagnoseUnfixable,
         DiagnoseBenign, DiagnoseFix, ApproveFix, Settle, Established,
         Observed, Waited, GhostsOK, ForgeOK, LocalsOK
<1>3. CASE Fixing
  BY <1>3
     DEF Fixing, ReadFixHead, ghosts, CommitFix, FixLands, CommitFixFails,
         RejectedFix, ReadBroken, WatchFix, Established, Observed, GhostsOK,
         ForgeOK, LocalsOK
<1>4. CASE Asking
  BY <1>4
     DEF Asking, RevertNow, ghosts, RevertKeep, RevertWait, RevertUnanswered,
         GhostsOK, ForgeOK, LocalsOK
<1>5. CASE Reverting
  <2>1. CASE Recheck
    BY <2>1 DEF Recheck, ReadBroken, ghosts, GhostsOK, ForgeOK, LocalsOK
  <2>2. CASE ReadRevertHead
    BY <2>2 DEF ReadRevertHead, ghosts, GhostsOK, ForgeOK, LocalsOK
  <2>3. CASE CommitRevert
    BY <2>3
       DEF CommitRevert, RevertLands, Reverted, GhostsOK, ForgeOK, LocalsOK
  <2>4. CASE CommitRevertFails
    BY <2>4
       DEF CommitRevertFails, RevertLands, ghosts, GhostsOK, ForgeOK, LocalsOK
  <2>5. CASE RestoreBaseline
    BY <2>5
       DEF RestoreBaseline, Established, Observed, GhostsOK, ForgeOK, LocalsOK
  <2>6. CASE AnnotateReverted
    BY <2>6 DEF AnnotateReverted, ghosts, GhostsOK, ForgeOK, LocalsOK
  <2> QED BY <1>5, <2>1, <2>2, <2>3, <2>4, <2>5, <2>6 DEF Reverting
<1>6. CASE Others \/ Finished
  BY <1>6
     DEF Others, UnansweredLands, ForgeMerges, attempt, locals, ForeignPush,
         ghosts, HeadMoves, Interrupt, Finished, vars, GhostsOK, ForgeOK,
         LocalsOK
<1>7. CASE UNCHANGED vars
  BY <1>7 DEF vars, ghosts, GhostsOK, ForgeOK, LocalsOK
<1> QED
  BY <1>1, <1>2, <1>3, <1>4, <1>5, <1>6, <1>7 DEF Next, Program

(* Nothing is written before the merge; a base is known from then on. *)
LEMMA PhaseInvStep == IInv /\ [Next]_vars => PhaseInv'
<1> SUFFICES ASSUME IInv, [Next]_vars PROVE PhaseInv'
  OBVIOUS
<1> USE RepairAssumption DEF IInv, pull
<1>1. CASE Merging
  <2>1. CASE TakeBaseline
    BY <2>1
       DEF TakeBaseline, Advance, Conclude, GiveUp, forge, ghosts, locals,
           ForgeMerges, Observed, PhaseInv, Before, Undecided
  <2>2. CASE ReadBranchHead
    BY <2>2
       DEF ReadBranchHead, Advance, Conclude, GiveUp, forge, ghosts, locals,
           ForgeMerges, Observed, PhaseInv, Before, Undecided
  <2>3. CASE ConfirmAssessedHead
    BY <2>3
       DEF ConfirmAssessedHead, Advance, Conclude, GiveUp, forge, ghosts,
           locals, ForgeMerges, Observed, PhaseInv, Before, Undecided
  <2>4. CASE MergeAnswered
    BY <2>4
       DEF MergeAnswered, Advance, Conclude, GiveUp, forge, ghosts, locals,
           ForgeMerges, Observed, PhaseInv, Before, Undecided
  <2>5. CASE MergeFails
    BY <2>5
       DEF MergeFails, Advance, Conclude, GiveUp, forge, ghosts, locals,
           ForgeMerges, Observed, PhaseInv, Before, Undecided
  <2>6. CASE HeadRefused
    BY <2>6
       DEF HeadRefused, Advance, Conclude, GiveUp, forge, ghosts, locals,
           ForgeMerges, Observed, PhaseInv, Before, Undecided
  <2>7. CASE ReadBackMerge
    BY <2>7
       DEF ReadBackMerge, Advance, Conclude, GiveUp, forge, ghosts, locals,
           ForgeMerges, Observed, PhaseInv, Before, Undecided
  <2>8. CASE WatchMerge
    BY <2>8
       DEF WatchMerge, Advance, Conclude, GiveUp, forge, ghosts, locals,
           ForgeMerges, Observed, PhaseInv, Before, Undecided
  <2> QED BY <1>1, <2>1, <2>2, <2>3, <2>4, <2>5, <2>6, <2>7, <2>8 DEF Merging
<1>2. CASE Diagnosing
  BY <1>2
     DEF Diagnosing, DiagnoseForged, Conclude, LeaveInPlace, ghosts, locals,
         DiagnoseUnfixable, Discard, forge, DiagnoseBenign, DiagnoseFix,
         ApproveFix, EndFix, Settle, Healthy, Observed, Waited, PhaseInv,
         Before, Undecided
<1>3. CASE Fixing
  BY <1>3
     DEF Fixing, ReadFixHead, EndFix, forge, ghosts, CommitFix, FixLands,
         Lands, CommitFixFails, RejectedFix, Advance, Conclude, Discard,
         Healthy, ReadBroken, locals, WatchFix, LeaveInPlace, Observed,
         PhaseInv, Before, Undecided
<1>4. CASE Asking
  BY <1>4
     DEF Asking, RevertNow, Advance, forge, ghosts, locals, RevertKeep,
         Conclude, RevertWait, RevertUnanswered, LeaveInPlace, PhaseInv,
         Before, Undecided
<1>5. CASE Reverting
  BY <1>5
     DEF Reverting, Recheck, Advance, Conclude, Healthy, LeaveInPlace,
         ReadBroken, forge, ghosts, locals, ReadRevertHead, RevertFails,
         CommitRevert, BeforeMerge, Lands, RevertLands, Reverted,
         CommitRevertFails, RestoreBaseline, Observed, AnnotateReverted,
         PhaseInv, Before, Undecided
<1>6. CASE Others \/ Finished
  BY <1>6
     DEF Others, UnansweredLands, ForgeMerges, attempt, locals, ForeignPush,
         ghosts, HeadMoves, Interrupt, forge, Finished, vars, PhaseInv,
         Before, Undecided
<1>7. CASE UNCHANGED vars
  BY <1>7 DEF vars, forge, locals, ghosts, PhaseInv, Before, Undecided
<1> QED
  BY <1>1, <1>2, <1>3, <1>4, <1>5, <1>6, <1>7 DEF Next, Program

(* A verdict is only given when the attempt ends or the revert landed. *)
LEMMA VerdictInvStep == IInv /\ [Next]_vars => VerdictInv'
<1> SUFFICES ASSUME IInv, [Next]_vars PROVE VerdictInv'
  OBVIOUS
<1> USE RepairAssumption DEF IInv, pull
<1>1. CASE Merging
  <2>1. CASE TakeBaseline
    BY <2>1
       DEF TakeBaseline, Advance, Conclude, GiveUp, attempt, forge, ghosts,
           ForgeMerges, Established, Observed, VerdictInv, Concluded, Before,
           Undecided, PhaseInv
  <2>2. CASE ReadBranchHead
    BY <2>2
       DEF ReadBranchHead, Advance, Conclude, GiveUp, attempt, forge, ghosts,
           ForgeMerges, Established, Observed, VerdictInv, Concluded, Before,
           Undecided, PhaseInv
  <2>3. CASE ConfirmAssessedHead
    BY <2>3
       DEF ConfirmAssessedHead, Advance, Conclude, GiveUp, attempt, forge,
           ghosts, ForgeMerges, Established, Observed, VerdictInv, Concluded,
           Before, Undecided, PhaseInv
  <2>4. CASE MergeAnswered
    BY <2>4
       DEF MergeAnswered, Advance, Conclude, GiveUp, attempt, forge, ghosts,
           ForgeMerges, Established, Observed, VerdictInv, Concluded, Before,
           Undecided, PhaseInv
  <2>5. CASE MergeFails
    BY <2>5
       DEF MergeFails, Advance, Conclude, GiveUp, attempt, forge, ghosts,
           ForgeMerges, Established, Observed, VerdictInv, Concluded, Before,
           Undecided, PhaseInv
  <2>6. CASE HeadRefused
    BY <2>6
       DEF HeadRefused, Advance, Conclude, GiveUp, attempt, forge, ghosts,
           ForgeMerges, Established, Observed, VerdictInv, Concluded, Before,
           Undecided, PhaseInv
  <2>7. CASE ReadBackMerge
    BY <2>7
       DEF ReadBackMerge, Advance, Conclude, GiveUp, attempt, forge, ghosts,
           ForgeMerges, Established, Observed, VerdictInv, Concluded, Before,
           Undecided, PhaseInv
  <2>8. CASE WatchMerge
    BY <2>8
       DEF WatchMerge, Advance, Conclude, GiveUp, attempt, forge, ghosts,
           ForgeMerges, Established, Observed, VerdictInv, Concluded, Before,
           Undecided, PhaseInv
  <2> QED BY <1>1, <2>1, <2>2, <2>3, <2>4, <2>5, <2>6, <2>7, <2>8 DEF Merging
<1>2. CASE Diagnosing
  BY <1>2
     DEF Diagnosing, DiagnoseForged, Conclude, LeaveInPlace, ghosts,
         DiagnoseUnfixable, Discard, attempt, forge, DiagnoseBenign,
         DiagnoseFix, ApproveFix, Settle, Established, Healthy, Observed,
         Waited, VerdictInv, Concluded, Before, Undecided, PhaseInv,
         HealthyVerdict
<1>3. CASE Fixing
  BY <1>3
     DEF Fixing, ReadFixHead, SpendAttempt, attempt, forge, ghosts, CommitFix,
         FixLands, Lands, CommitFixFails, RejectedFix, Advance, Conclude,
         Discard, Healthy, ReadBroken, WatchFix, Established, LeaveInPlace,
         Observed, VerdictInv, Concluded, Before, Undecided,
         PhaseInv, HealthyVerdict
<1>4. CASE Asking
  BY <1>4
     DEF Asking, RevertNow, Advance, attempt, forge, ghosts, RevertKeep,
         Conclude, RevertWait, RevertUnanswered, LeaveInPlace, VerdictInv,
         Concluded, Before, Undecided, PhaseInv
<1>5. CASE Reverting
  <2>1. CASE Recheck
    BY <2>1
       DEF Recheck, Advance, Conclude, Healthy, LeaveInPlace, ReadBroken,
           attempt, forge, ghosts, VerdictInv, Concluded, Before,
           Undecided, PhaseInv, HealthyVerdict, TypeOK, GhostsOK
  <2>2. CASE ReadRevertHead
    BY <2>2
       DEF ReadRevertHead, Advance, Conclude, RevertFails, attempt, forge,
           ghosts, VerdictInv, Concluded, Before, Undecided,
           PhaseInv, HealthyVerdict, TypeOK, GhostsOK
  <2>3. CASE CommitRevert
    BY <2>3
       DEF CommitRevert, Lands, RevertLands, Reverted, VerdictInv,
           Concluded, Before, Undecided, PhaseInv, HealthyVerdict,
           TypeOK, GhostsOK
  <2>4. CASE CommitRevertFails
    BY <2>4
       DEF CommitRevertFails, Conclude, RevertFails, RevertLands, ghosts,
           VerdictInv, Concluded, Before, Undecided, PhaseInv,
           HealthyVerdict, TypeOK, GhostsOK
  <2>5. CASE RestoreBaseline
    BY <2>5
       DEF RestoreBaseline, Established, Observed, attempt, forge, VerdictInv,
           Concluded, Before, Undecided, PhaseInv, HealthyVerdict,
           TypeOK, GhostsOK
  <2>6. CASE AnnotateReverted
    BY <2>6
       DEF AnnotateReverted, attempt, ghosts, VerdictInv, Concluded,
           Before, Undecided, PhaseInv, HealthyVerdict, TypeOK, GhostsOK
  <2> QED BY <1>5, <2>1, <2>2, <2>3, <2>4, <2>5, <2>6 DEF Reverting
<1>6. CASE Others \/ Finished
  BY <1>6
     DEF Others, UnansweredLands, ForgeMerges, attempt, locals, ForeignPush,
         ghosts, HeadMoves, Interrupt, forge, Finished, vars, VerdictInv,
         Concluded, Before, Undecided, PhaseInv
<1>7. CASE UNCHANGED vars
  BY <1>7 DEF vars, forge, ghosts, attempt, VerdictInv, Concluded,
         Before, Undecided, PhaseInv
<1> QED
  BY <1>1, <1>2, <1>3, <1>4, <1>5, <1>6, <1>7 DEF Next, Program

(* An attempt is spent whenever a fix may have been committed. *)
LEMMA BudgetInvStep == IInv /\ [Next]_vars => BudgetInv'
<1> SUFFICES ASSUME IInv, [Next]_vars PROVE BudgetInv'
  OBVIOUS
<1> USE RepairAssumption DEF IInv, pull
<1>1. CASE Merging
  BY <1>1
     DEF Merging, TakeBaseline, Advance, Conclude, GiveUp, attempt, ghosts,
         ReadBranchHead, ConfirmAssessedHead, MergeAnswered, ForgeMerges,
         MergeFails, HeadRefused, ReadBackMerge, WatchMerge, Observed,
         BudgetInv, FixBudget
<1>2. CASE Diagnosing
  BY <1>2
     DEF Diagnosing, DiagnoseForged, Conclude, LeaveInPlace, ghosts,
         DiagnoseUnfixable, Discard, attempt, DiagnoseBenign, DiagnoseFix,
         MayFix, ApproveFix, Settle, Healthy, Observed, Waited, BudgetInv,
         FixBudget
<1>3. CASE Fixing
  BY <1>3
     DEF Fixing, ReadFixHead, SpendAttempt, attempt, ghosts, CommitFix,
         FixLands, CommitFixFails, RejectedFix, Advance, Conclude, Discard,
         Healthy, ReadBroken, WatchFix, LeaveInPlace, Observed, BudgetInv,
         FixBudget, TypeOK, AttemptOK, GhostsOK
<1>4. CASE Asking
  BY <1>4
     DEF Asking, RevertNow, Advance, attempt, ghosts, RevertKeep, Conclude,
         RevertWait, RevertUnanswered, LeaveInPlace, BudgetInv, FixBudget
<1>5. CASE Reverting
  BY <1>5
     DEF Reverting, Recheck, Advance, Conclude, Healthy, LeaveInPlace,
         ReadBroken, attempt, ghosts, ReadRevertHead, RevertFails,
         CommitRevert, RevertLands, Reverted, CommitRevertFails,
         RestoreBaseline, Observed, AnnotateReverted, BudgetInv, FixBudget
<1>6. CASE Others \/ Finished
  BY <1>6
     DEF Others, UnansweredLands, ForgeMerges, attempt, locals, ForeignPush,
         ghosts, HeadMoves, Interrupt, Finished, vars, BudgetInv, FixBudget
<1>7. CASE UNCHANGED vars
  BY <1>7 DEF vars, ghosts, attempt, BudgetInv, FixBudget
<1> QED
  BY <1>1, <1>2, <1>3, <1>4, <1>5, <1>6, <1>7 DEF Next, Program

(* Whatever writes to the branch is remembered by the attempt. *)
LEMMA WrittenInvStep == IInv /\ [Next]_vars => WrittenInv'
<1> SUFFICES ASSUME IInv, [Next]_vars PROVE WrittenInv'
  OBVIOUS
<1> USE RepairAssumption DEF IInv, pull
<1>1. CASE Merging
  BY <1>1
     DEF Merging, TakeBaseline, Advance, Conclude, GiveUp, attempt, forge,
         ghosts, ReadBranchHead, ConfirmAssessedHead, MergeAnswered,
         ForgeMerges, MergeFails, HeadRefused, ReadBackMerge,
         WatchMerge, Observed, WrittenInv, RevertPaths, PhaseInv, Before
<1>2. CASE Diagnosing
  BY <1>2
     DEF Diagnosing, DiagnoseForged, Conclude, LeaveInPlace, ghosts,
         DiagnoseUnfixable, Discard, attempt, forge, DiagnoseBenign,
         DiagnoseFix, ApproveFix, Settle, Healthy, HealthyVerdict, Observed,
         Waited, WrittenInv, RevertPaths, PhaseInv, Before
<1>3. CASE Fixing
  BY <1>3
     DEF Fixing, ReadFixHead, SpendAttempt, attempt, forge, ghosts, CommitFix,
         FixLands, Lands, CommitFixFails, RejectedFix, Advance, Conclude,
         Discard, Healthy, HealthyVerdict, ReadBroken, WatchFix, LeaveInPlace,
         Observed, WrittenInv, RevertPaths, PhaseInv, Before
<1>4. CASE Asking
  BY <1>4
     DEF Asking, RevertNow, Advance, attempt, forge, ghosts, RevertKeep,
         Conclude, RevertWait, RevertUnanswered, LeaveInPlace, WrittenInv,
         RevertPaths, PhaseInv, Before
<1>5. CASE Reverting
  BY <1>5
     DEF Reverting, Recheck, Advance, Conclude, Healthy, HealthyVerdict,
         LeaveInPlace, ReadBroken, attempt, forge, ghosts, ReadRevertHead,
         RevertFails, CommitRevert, Lands, RevertLands, RevertPaths, Reverted,
         CommitRevertFails, RestoreBaseline, Observed, AnnotateReverted,
         WrittenInv, PhaseInv, Before
<1>6. CASE Others \/ Finished
  BY <1>6
     DEF Others, UnansweredLands, ForgeMerges, attempt, locals, ForeignPush,
         ghosts, HeadMoves, Interrupt, forge, Finished, vars, WrittenInv,
         RevertPaths, PhaseInv, Before
<1>7. CASE UNCHANGED vars
  BY <1>7 DEF vars, forge, ghosts, attempt, WrittenInv, RevertPaths, PhaseInv,
         Before
<1> QED
  BY <1>1, <1>2, <1>3, <1>4, <1>5, <1>6, <1>7 DEF Next, Program

(* Every way of granting grace goes through another window. *)
LEMMA GraceInvStep == IInv /\ [Next]_vars => GraceInv'
<1> SUFFICES ASSUME IInv, [Next]_vars PROVE GraceInv'
  OBVIOUS
<1> USE RepairAssumption DEF IInv, pull
<1>1. CASE Merging
  <2>1. CASE TakeBaseline
    BY <2>1
       DEF TakeBaseline, Advance, Conclude, GiveUp, ghosts, locals,
           ForgeMerges, Observed, GraceInv, Before, Judging, TypeOK, GhostsOK
  <2>2. CASE ReadBranchHead
    BY <2>2
       DEF ReadBranchHead, Advance, Conclude, GiveUp, ghosts, locals,
           ForgeMerges, Observed, GraceInv, Before, Judging, TypeOK, GhostsOK
  <2>3. CASE ConfirmAssessedHead
    BY <2>3
       DEF ConfirmAssessedHead, Advance, Conclude, GiveUp, ghosts, locals,
           ForgeMerges, Observed, GraceInv, Before, Judging, TypeOK, GhostsOK
  <2>4. CASE MergeAnswered
    BY <2>4
       DEF MergeAnswered, Advance, Conclude, GiveUp, ghosts, locals,
           ForgeMerges, Observed, GraceInv, Before, Judging, TypeOK, GhostsOK
  <2>5. CASE MergeFails
    BY <2>5
       DEF MergeFails, Advance, Conclude, GiveUp, ghosts, locals,
           ForgeMerges, Observed, GraceInv, Before, Judging, TypeOK, GhostsOK
  <2>6. CASE HeadRefused
    BY <2>6
       DEF HeadRefused, Advance, Conclude, GiveUp, ghosts, locals,
           ForgeMerges, Observed, GraceInv, Before, Judging, TypeOK, GhostsOK
  <2>7. CASE ReadBackMerge
    BY <2>7
       DEF ReadBackMerge, Advance, Conclude, GiveUp, ghosts, locals,
           ForgeMerges, Observed, GraceInv, Before, Judging, TypeOK, GhostsOK
  <2>8. CASE WatchMerge
    BY <2>8
       DEF WatchMerge, Advance, Conclude, GiveUp, ghosts, locals,
           ForgeMerges, Observed, GraceInv, Before, Judging, TypeOK, GhostsOK
  <2> QED BY <1>1, <2>1, <2>2, <2>3, <2>4, <2>5, <2>6, <2>7, <2>8 DEF Merging
<1>2. CASE Diagnosing
  BY <1>2
     DEF Diagnosing, DiagnoseForged, Conclude, LeaveInPlace, ghosts, locals,
         DiagnoseUnfixable, Discard, DiagnoseBenign, DiagnoseFix, ApproveFix,
         EndFix, Settle, Healthy, Observed, Waited, GraceInv, Before, Judging,
         TypeOK, GhostsOK, Window
<1>3. CASE Fixing
  BY <1>3
     DEF Fixing, ReadFixHead, EndFix, ghosts, CommitFix, CommitFixFails,
         RejectedFix, Advance, Conclude, Discard, Healthy, ReadBroken, locals,
         WatchFix, LeaveInPlace, Observed, GraceInv, Before, Judging, TypeOK,
         GhostsOK, Window
<1>4. CASE Asking
  BY <1>4
     DEF Asking, RevertNow, Advance, ghosts, locals, RevertKeep, Conclude,
         RevertWait, RevertUnanswered, LeaveInPlace, GraceInv, Before, Judging
<1>5. CASE Reverting
  BY <1>5
     DEF Reverting, Recheck, Advance, Conclude, Healthy, LeaveInPlace,
         ReadBroken, ghosts, locals, ReadRevertHead, RevertFails,
         CommitRevert, RevertLands, Reverted, CommitRevertFails,
         RestoreBaseline, Observed, AnnotateReverted, GraceInv, Before,
         Judging
<1>6. CASE Others \/ Finished
  BY <1>6
     DEF Others, UnansweredLands, ForgeMerges, attempt, locals, ForeignPush,
         ghosts, HeadMoves, Interrupt, Finished, vars, GraceInv, Before,
         Judging
<1>7. CASE UNCHANGED vars
  BY <1>7 DEF vars, locals, ghosts, GraceInv, Before, Judging
<1> QED
  BY <1>1, <1>2, <1>3, <1>4, <1>5, <1>6, <1>7 DEF Next, Program

(* No object is ever lost from sight, but by a stall that names none. *)
LEMMA NamedInvStep == IInv /\ [Next]_vars => NamedInv'
<1> SUFFICES ASSUME IInv, [Next]_vars PROVE NamedInv'
  OBVIOUS
<1>0. /\ NamedInv
      /\ pc \notin {"restore", "annotate", "done"} => verdict = "none"
      /\ pc \in {"restore", "annotate"} => verdict = "reverted"
  BY DEF IInv, VerdictInv
<1> USE DEF Judging, NamedInv, HealthyWasObserved, NamelessStall
<1>1. CASE WatchMerge
  BY <1>0, <1>1, WatchNames
     DEF WatchMerge, Observed, Established, Conclude, Advance, attempt
<1>2. CASE DiagnoseBenign
  BY <1>0, <1>2 DEF DiagnoseBenign, Discard, attempt
<1>3. CASE Settle
  <2> DEFINE objects == IF why = "benign" THEN window.objects ELSE broken
  <2>1. /\ objects \in SUBSET Objects
        /\ objects = {} => why = "benign" /\ NamelessStall
    BY <1>0, <1>3 DEF Settle, IInv, TypeOK, WindowOK, Windows
  <2>2. ASSUME NEW w \in Answers(RestoredReturns(Objects, objects)),
               w.result = "stalled", objects # {}
        PROVE  w.objects # {}
    BY <2>1, <2>2, RestoredNames
  <2>3. Waited(objects)
    BY <1>3 DEF Settle
  <2> HIDE DEF objects
  <2> QED
    BY <1>0, <1>3, <2>1, <2>2, <2>3
       DEF Settle, Waited, Observed, Established, Conclude, LeaveInPlace,
           Healthy, attempt, locals, Window
<1>4. CASE RejectedFix
  BY <1>0, <1>4
     DEF RejectedFix, Discard, Healthy, Conclude, ReadBroken, Advance,
         Window, attempt, locals
<1>5. CASE WatchFix
  BY <1>0, <1>5, WatchNames
     DEF WatchFix, Observed, Established, Conclude, LeaveInPlace, Healthy,
         Advance, attempt
<1>6. CASE Recheck
  BY <1>0, <1>6
     DEF Recheck, LeaveInPlace, Healthy, Conclude, ReadBroken, Advance,
         attempt, locals
<1>7. CASE RestoreBaseline
  BY <1>0, <1>7 DEF RestoreBaseline, attempt
<1>8. CASE Merging /\ ~WatchMerge
  BY <1>0, <1>8
     DEF Merging, ForgeMerges, locals, ghosts, TakeBaseline, ReadBranchHead, ConfirmAssessedHead,
         MergeAnswered, MergeFails, HeadRefused, ReadBackMerge,
         GiveUp, Conclude, Advance, attempt
<1>9. CASE Diagnosing /\ ~DiagnoseBenign /\ ~Settle
  BY <1>0, <1>9
     DEF Diagnosing, DiagnoseForged, DiagnoseUnfixable, DiagnoseFix,
         ApproveFix, EndFix, LeaveInPlace, Conclude, Discard, attempt, locals
<1>10. CASE Fixing /\ ~RejectedFix /\ ~WatchFix
  BY <1>0, <1>10
     DEF Fixing, ReadFixHead, CommitFix, CommitFixFails, EndFix, FixLands,
         SpendAttempt, attempt, ghosts
<1>11. CASE Asking
  BY <1>0, <1>11
     DEF Asking, RevertNow, RevertKeep, RevertWait, RevertUnanswered,
         LeaveInPlace, Conclude, Advance, attempt, locals, ghosts
<1>12. CASE Reverting /\ ~Recheck /\ ~RestoreBaseline
  BY <1>0, <1>12
     DEF Reverting, ReadRevertHead, CommitRevert, CommitRevertFails,
         AnnotateReverted, Reverted, RevertFails, Conclude, Advance, attempt,
         locals
<1>13. CASE Others \/ Finished \/ UNCHANGED vars
  BY <1>0, <1>13
     DEF Others, ForeignPush, HeadMoves, Interrupt, UnansweredLands,
         ForgeMerges, Finished, vars, attempt, locals, ghosts
<1> QED
  BY <1>1, <1>2, <1>3, <1>4, <1>5, <1>6, <1>7, <1>8, <1>9, <1>10, <1>11,
     <1>12, <1>13 DEF Next, Program

-----------------------------------------------------------------------------
(* IInv holds at the start ... *)
THEOREM Initially == Init => IInv
<1> SUFFICES ASSUME Init PROVE IInv
  OBVIOUS
<1> USE RepairAssumption DEF Init
<1>1. ForgeOK
  <2>1. [p \in Paths |-> "base"] \in Trees
    BY DEF Trees, Contents
  <2>2. head \in Commits
    BY <2>1 DEF Commits
  <2>3. 0 \in 0..MaxPushes
    OBVIOUS
  <2> QED BY <2>2, <2>3 DEF ForgeOK
<1>6. LocalsOK /\ WindowOK
  BY DEF LocalsOK, WindowOK, Steps, Windows, NoWindow, Window
<1>2. AttemptOK /\ GhostsOK
  BY DEF AttemptOK, GhostsOK, Verdicts, Halts
<1>3. PhaseInv /\ VerdictInv
  BY DEF PhaseInv, VerdictInv, Concluded, Before, Undecided
<1>4. BudgetInv /\ WrittenInv
  BY DEF BudgetInv, FixBudget, WrittenInv, RevertPaths
<1>5. NamedInv /\ GraceInv
  BY DEF NamedInv, HealthyWasObserved, GraceInv, Before, Judging
<1> QED BY <1>1, <1>2, <1>3, <1>4, <1>5, <1>6 DEF IInv, TypeOK

(* ... and every step preserves it. *)
THEOREM Inductive == IInv /\ [Next]_vars => IInv'
<1> SUFFICES ASSUME IInv, [Next]_vars PROVE IInv'
  OBVIOUS
<1>1. TypeOK'
  BY ForgeOKStep, LocalsOKStep, WindowOKStep, AttemptOKStep, GhostsOKStep
     DEF IInv, TypeOK
<1> QED
  BY <1>1, PhaseInvStep, VerdictInvStep, BudgetInvStep, WrittenInvStep,
     NamedInvStep, GraceInvStep DEF IInv

(* The inductive invariant holds in every reachable state. *)
THEOREM Invariance == Spec => []IInv
  BY Initially, Inductive, PTL DEF Spec

-----------------------------------------------------------------------------
(* Every reachable state is well typed. *)
THEOREM TypeCorrect == Spec => []TypeOK
<1>1. IInv => TypeOK
  BY DEF IInv
<1> QED BY <1>1, Invariance, PTL

(* An attempt that ends in an error the run goes on after has not merged.   *)
LEMMA EndsUnmerged ==
  ASSUME IInv, [Next]_vars, Ends, verdict' = "error", halt' = "none"
  PROVE  request' = "open"
<1> USE DEF IInv, Ends, pull, forge
<1>1. CASE Merging
  BY <1>1
     DEF Merging, TakeBaseline, ReadBranchHead, ConfirmAssessedHead,
         MergeAnswered, MergeFails, HeadRefused, ReadBackMerge, WatchMerge,
         GiveUp, Advance, Conclude, PhaseInv, Before
<1>2. CASE Diagnosing
  BY <1>2
     DEF Diagnosing, DiagnoseForged, DiagnoseUnfixable, DiagnoseBenign,
         DiagnoseFix, ApproveFix, Settle, Waited, Healthy, HealthyVerdict,
         LeaveInPlace, Discard, Conclude
<1>3. CASE Fixing
  BY <1>3
     DEF Fixing, ReadFixHead, CommitFix, CommitFixFails, RejectedFix,
         WatchFix, Healthy, HealthyVerdict, LeaveInPlace, Discard, Advance,
         Conclude
<1>4. CASE Asking
  BY <1>4
     DEF Asking, RevertNow, RevertKeep, RevertWait, RevertUnanswered,
         LeaveInPlace, Advance, Conclude
<1>5. CASE Reverting
  BY <1>5
     DEF Reverting, Recheck, ReadRevertHead, CommitRevert, Reverted,
         CommitRevertFails, RevertFails, RestoreBaseline, AnnotateReverted,
         Healthy, HealthyVerdict, LeaveInPlace, Advance, Conclude, attempt,
         VerdictInv
<1>6. CASE Others \/ Finished \/ UNCHANGED vars
  BY <1>6
     DEF Others, ForeignPush, HeadMoves, UnansweredLands, Interrupt,
         Finished, vars
<1> QED BY <1>1, <1>2, <1>3, <1>4, <1>5, <1>6 DEF Next, Program

(* What an attempt says of itself when it ends. *)
Explains ==
  /\ Ending(verdict, halt # "none", Standing) \in Endings
  /\ halt = "none" /\ request = "open" => wrote = {}
  /\ halt = "none" /\ verdict = "reverted" => evidence = "well"

LEMMA EndsExplained ==
  IInv /\ pc = "done" /\ (verdict = "error" /\ halt = "none" => request = "open")
    => Explains
<1> SUFFICES ASSUME IInv, pc = "done",
                    verdict = "error" /\ halt = "none" => request = "open"
             PROVE  Explains
  OBVIOUS
<1>1. Concluded /\ request \in {"open", "merged"} /\ unanswered \in BOOLEAN
  BY DEF IInv, VerdictInv, TypeOK, ForgeOK
<1>2. /\ verdict \in {"error", "skipped", "merged", "fixed", "kept", "reverted"}
      /\ Standing \in {"open", "underway", "merged"}
  BY <1>1 DEF Concluded, Standing
<1>3. IF halt # "none" THEN Stopped(verdict, Standing)
                       ELSE Accounted(verdict, Standing)
  BY <1>1 DEF Concluded, Standing, Stopped, Accounted
<1> DEFINE ending == Ending(verdict, halt # "none", Standing)
<1>4. ending \in [verdict : {"error", "skipped", "merged", "fixed", "kept", "reverted"},
                  halted : BOOLEAN, request : {"open", "underway", "merged"}]
  BY <1>2 DEF Ending
<1>5. /\ ending.verdict = verdict /\ ending.halted = (halt # "none")
      /\ ending.request = Standing
  BY DEF Ending
<1>6. ending \in Endings
  BY <1>3, <1>4, <1>5 DEF Endings
<1> QED BY <1>1, <1>6 DEF Concluded, Explains

(* The run never goes on to the next pull request leaving a merge nothing   *)
(* explains, whatever it merged, lost, repaired or reverted; only a merge   *)
(* whose call gave no answer may land after the attempt ended.              *)
THEOREM Explained == Spec => NothingUnexplained
<1>1. IInv /\ [Next]_vars => [Ends => Explains']_vars
  <2> SUFFICES ASSUME IInv, [Next]_vars, Ends PROVE Explains'
    OBVIOUS
  <2>1. IInv'
    BY Inductive
  <2>2. (verdict = "error" /\ halt = "none" => request = "open")'
    BY EndsUnmerged
  <2>3. (pc = "done")'
    BY DEF Ends
  <2>4. (IInv /\ pc = "done" /\ (verdict = "error" /\ halt = "none" => request = "open")
           => Explains)'
    BY EndsExplained, PTL
  <2> QED BY <2>1, <2>2, <2>3, <2>4
<1>2. [Ends => Explains']_vars =>
        [Ends => /\ Ending(verdict', halt' # "none", Standing') \in Endings
                 /\ halt' = "none" /\ request' = "open" => wrote' = {}
                 /\ halt' = "none" /\ verdict' = "reverted" => evidence' = "well"]_vars
  BY DEF Explains, Ending
<1> QED BY <1>1, <1>2, Invariance, PTL DEF Spec, NothingUnexplained

(* Commits to production stay within watch.maxFixAttempts even when the     *)
(* forge lands a fix whose answer is lost.                                  *)
THEOREM WithinBudget == Spec => []FixBudget
<1>1. IInv => FixBudget
  BY DEF IInv, BudgetInv
<1> QED BY <1>1, Invariance, PTL

(* A merge whose cluster merely did not settle is only discarded after the  *)
(* deployed revision had two windows.                                       *)
THEOREM SecondWindow == Spec => []StallGetsSecondWindow
<1>1. IInv => StallGetsSecondWindow
  BY DEF IInv, GraceInv, StallGetsSecondWindow, Before, Judging
<1> QED BY <1>1, Invariance, PTL

(* The label later runs trust is only on a pull request that was reverted. *)
THEOREM LabelTrusted == Spec => []LabelMeansReverted
<1>1. IInv => LabelMeansReverted
  BY DEF IInv, VerdictInv, LabelMeansReverted
<1> QED BY <1>1, Invariance, PTL

(* No attempt is called healthy on the strength of a cluster last seen ill  *)
(* or never seen, unless the window it was judged by stalled naming nothing.*)
THEOREM HealthObserved == Spec => []HealthyWasObserved
<1>1. IInv => HealthyWasObserved
  BY DEF IInv, NamedInv
<1> QED BY <1>1, Invariance, PTL

(* What a revert that lands does to the branch. *)
LEMMA RevertedTree ==
  ASSUME IInv, Next, Reverts
  PROVE  /\ \A p \in RevertPaths, c \in preMergeHead : head'.tree[p] = c.tree[p]
         /\ \A p \in Paths \ RevertPaths : head'.tree[p] = head.tree[p]
<1>1. CommitRevert \/ CommitRevertFails
  BY DEF Reverts, Next, Program, Merging, Diagnosing, Fixing, Asking,
         Reverting, TakeBaseline, ReadBranchHead, ConfirmAssessedHead,
         MergeAnswered, MergeFails, HeadRefused, ReadBackMerge,
         WatchMerge, DiagnoseForged, DiagnoseUnfixable, DiagnoseBenign,
         DiagnoseFix, ApproveFix, Settle, ReadFixHead, CommitFix,
         CommitFixFails, RejectedFix, WatchFix, RevertNow, RevertKeep,
         RevertWait, RevertUnanswered, Recheck, ReadRevertHead,
         RestoreBaseline, AnnotateReverted, Others, ForeignPush, HeadMoves,
         UnansweredLands, Interrupt, Finished, vars, forge
<1>2. head' = [serial |-> head.serial + 1,
               tree |-> [p \in Paths |-> IF p \in RevertPaths
                           THEN BeforeMerge[p] ELSE head.tree[p]]]
  BY <1>1 DEF CommitRevert, CommitRevertFails, Lands, LandsOn, Reverts, forge
<1>3. RevertPaths \subseteq Paths
  BY DEF RevertPaths, IInv, TypeOK, ForgeOK, AttemptOK
<1>4. \A c \in preMergeHead : (CHOOSE d \in preMergeHead : TRUE) = c
  BY DEF IInv, PhaseInv
<1> QED BY <1>2, <1>3, <1>4 DEF BeforeMerge

(* Unless a fix may land unnoticed, a revert takes back every path the      *)
(* merge or a fix of this attempt wrote.                                    *)
THEOREM CompleteRevert ==
  ASSUME "fix" \notin LostAnswers PROVE Spec => RevertIsComplete
<1>1. IInv /\ [Next]_vars =>
        [Reverts => \A c \in preMergeHead : \A p \in wrote :
                      head'.tree[p] = c.tree[p]]_vars
  BY RevertedTree DEF IInv, WrittenInv
<1> QED BY <1>1, Invariance, PTL DEF Spec, RevertIsComplete

(* What others pushed to paths the attempt does not own survives a revert.  *)
THEOREM OthersSpared == Spec => RevertSparesOthers
<1>1. IInv /\ [Next]_vars =>
        [Reverts => \A p \in Paths \ (wrote \cup fixes) :
                      head'.tree[p] = head.tree[p]]_vars
  <2> SUFFICES ASSUME IInv, Next, Reverts,
                      NEW p \in Paths \ (wrote \cup fixes)
               PROVE  head'.tree[p] = head.tree[p]
    OBVIOUS
  <2>1. request = "merged"
    BY DEF IInv, PhaseInv, Undecided, Reverts
  <2>2. p \notin RevertPaths
    BY <2>1 DEF IInv, WrittenInv, RevertPaths
  <2> QED BY <2>2, RevertedTree
<1> QED BY <1>1, Invariance, PTL DEF Spec, RevertSparesOthers
=============================================================================
