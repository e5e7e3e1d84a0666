--------------------------- MODULE MergeAndRepair ---------------------------
(***************************************************************************)
(* internal/run/run.go (mergeAndWatch) and internal/run/repair.go: one     *)
(* pull request that passed the gate, from the health baseline to its       *)
(* verdict.  The branch is shared with everybody who can push to it, the   *)
(* forge may answer late, wrongly or not at all, the run may be cancelled  *)
(* between any two calls, and each window answers what WindowContract      *)
(* allows.  Agent and operator are free to answer anything.                *)
(***************************************************************************)
EXTENDS Integers, WindowContract, AttemptEndings

CONSTANTS
  Paths,          \* repository paths
  AllowedPaths,   \* paths fixes.allowedPaths admits
  Objects,        \* cluster objects a window can name
  MaxFixAttempts, \* watch.maxFixAttempts
  MaxPushes,      \* bound: pushes by others during the attempt
  LostAnswers,    \* forge writes that may land although their call errs; a
                  \* merge may do so long after
  Blind,          \* results of a watch that may name no object
  Cancellable     \* TRUE when the run may be interrupted

ASSUME RepairAssumption ==
  /\ AllowedPaths \subseteq Paths
  /\ MaxFixAttempts \in Nat /\ MaxPushes \in Nat
  /\ LostAnswers \subseteq {"merge", "fix", "revert"}
  /\ Blind \subseteq {"stalled"} /\ Cancellable \in BOOLEAN

Contents == {"base", "update", "repair", "foreign"}
Trees == [Paths -> Contents]
Commits == [serial : Nat, tree : Trees]   \* a SHA names its commit for good

VARIABLES
  (* the forge *)
  head,         \* head commit of the base branch
  prPaths,      \* paths the pull request touches, both ends of a rename
  prMoved,      \* its head is no longer the one that was assessed
  request,      \* it is open, or merged
  unanswered,   \* a merge was asked for and its call gave no answer
  label,        \* it carries ops-pilot/reverted
  said,         \* what its latest comment by the run claims
  pushes,       \* pushes by others so far
  (* the run *)
  pc,
  cancelled,    \* the context is cancelled
  interactive,  \* an operator is there to ask
  preMergeHead, \* set of at most one commit: the head read before the merge
  readHead,     \* set of at most one commit: the head a commit is built on
  window,       \* the window being judged (cluster.Outcome)
  broken,       \* what the last read before a revert found broken
  waited, graced,
  proposal,     \* paths the agent's fix writes
  why,          \* why the cluster is being given another window
  verdict, fixAttempts, fixes,   \* domain.Attempt
  halt,         \* why the run stops after this pull request
  (* ghosts *)
  wrote,        \* paths the merge and the fixes really wrote
  fixCommits,   \* fix commits that really landed
  reverts,      \* revert commits that really landed
  entry,        \* FixAttempts spent before the merge
  evidence,     \* what the run last established about the cluster
  windows       \* windows run on the revision deployed last

pull == <<prPaths, prMoved, unanswered, label>>
forge == <<head, request, said, pushes, pull>>
locals == <<cancelled, interactive, preMergeHead, readHead, window, broken,
            waited, graced, proposal, why>>
attempt == <<verdict, fixAttempts, fixes>>
ghosts == <<wrote, fixCommits, reverts, entry, evidence, windows>>
vars == <<forge, pc, locals, attempt, halt, ghosts>>

Verdicts == {"none", "error", "skipped", "merged", "fixed", "kept", "reverted"}
Halts ==
  {"none", "inDoubt", "unobserved", "leftInPlace", "notReverted",
   "notRecovered"}

Steps ==
  {"baseline", "branchHead", "confirm", "merge", "readBack", "watch",
   "diagnose", "settle", "approve", "fixHead", "fixCommit", "rejected",
   "fixWatch", "recheck", "askRevert", "revertHead", "revertCommit",
   "restore", "annotate", "done"}

ForgeOK ==
  /\ head \in Commits /\ prPaths \in SUBSET Paths
  /\ prMoved \in BOOLEAN /\ request \in {"open", "merged"}
  /\ unanswered \in BOOLEAN /\ label \in BOOLEAN
  /\ said \in {"nothing", "unknown", "leftInPlace", "revertFailed",
               "reverted", "kept"}
  /\ pushes \in 0..MaxPushes
LocalsOK ==
  /\ pc \in Steps /\ cancelled \in BOOLEAN /\ interactive \in BOOLEAN
  /\ preMergeHead \in SUBSET Commits /\ readHead \in SUBSET Commits
  /\ waited \in BOOLEAN /\ graced \in BOOLEAN
  /\ proposal \in SUBSET Paths
  /\ why \in {"nothing", "benign", "grace", "operator"}
WindowOK == window \in Windows(Objects) /\ broken \in SUBSET Objects
AttemptOK ==
  /\ verdict \in Verdicts /\ fixAttempts \in Nat /\ fixes \in SUBSET Paths
  /\ halt \in Halts
GhostsOK ==
  /\ wrote \in SUBSET Paths
  /\ fixCommits \in Nat /\ reverts \in 0..1 /\ entry \in Nat
  /\ evidence \in {"nothing", "well", "ill"} /\ windows \in 0..2
TypeOK == ForgeOK /\ LocalsOK /\ WindowOK /\ AttemptOK /\ GhostsOK

Init ==
  /\ head = [serial |-> 0, tree |-> [p \in Paths |-> "base"]]
  /\ prPaths \in (SUBSET Paths) \ {{}}
  /\ prMoved = FALSE /\ request = "open" /\ unanswered = FALSE
  /\ label = FALSE /\ said = "nothing" /\ pushes = 0
  /\ pc = "baseline" /\ cancelled = FALSE /\ interactive \in BOOLEAN
  /\ preMergeHead = {} /\ readHead = {}
  /\ window = NoWindow /\ broken = {} /\ waited = FALSE /\ graced = FALSE
  /\ proposal = {} /\ why = "nothing"
  /\ entry \in 0..MaxFixAttempts
  /\ verdict = "none" /\ fixAttempts = entry
  /\ fixes \in IF entry = 0 THEN {{}} ELSE (SUBSET AllowedPaths) \ {{}}
  /\ halt = "none"
  /\ wrote = {} /\ fixCommits = 0 /\ reverts = 0
  /\ evidence = "nothing" /\ windows = 0

-----------------------------------------------------------------------------
(* The world beside the run. *)

(* Somebody pushes to the base branch. *)
ForeignPush ==
  /\ pc # "done" /\ pushes < MaxPushes
  /\ \E p \in Paths :
       head' = [serial |-> head.serial + 1,
                tree |-> [head.tree EXCEPT ![p] = "foreign"]]
  /\ pushes' = pushes + 1
  /\ UNCHANGED <<request, said, pull, pc, locals, attempt, halt, ghosts>>

(* Renovate rebases the pull request. *)
HeadMoves ==
  /\ ~prMoved /\ request = "open" /\ pc # "done"
  /\ prMoved' = TRUE
  /\ UNCHANGED <<head, request, said, pushes, prPaths, unanswered, label, pc,
                 locals, attempt, halt, ghosts>>

(* The operator interrupts the run; every later call on its context fails. *)
Interrupt ==
  /\ Cancellable /\ ~cancelled /\ pc # "done"
  /\ cancelled' = TRUE
  /\ UNCHANGED <<forge, pc, interactive, preMergeHead, readHead, window,
                 broken, waited, graced, proposal, why, attempt, halt,
                 ghosts>>

-----------------------------------------------------------------------------
(* How an attempt ends, and what is said on the pull request. *)

Conclude(v, reason) ==
  /\ pc' = "done"
  /\ verdict' = v /\ halt' = reason
  /\ UNCHANGED <<fixAttempts, fixes>>

(* A comment is best effort; on the run's own context a cancelled run       *)
(* cannot post one.                                                         *)
Comment(claim) == said' \in IF cancelled THEN {said} ELSE {said, claim}
CommentOutliving(claim) == said' \in {said, claim}

(* The merge is left deployed, the run stops and says so. *)
LeaveInPlace ==
  /\ Conclude("error", "leftInPlace")
  /\ Comment("leftInPlace")
  /\ UNCHANGED <<head, request, pushes, pull, locals>>

(* healthy(): a fix that reached the branch makes it "fixed". *)
HealthyVerdict == IF fixes # {} THEN "fixed" ELSE "merged"
Healthy ==
  /\ Conclude(HealthyVerdict, "none")
  /\ UNCHANGED forge

(* Where a cause leads: through the read that precedes every revert. *)
Discard ==
  /\ pc' = "recheck"
  /\ UNCHANGED <<forge, halt>>

-----------------------------------------------------------------------------
(* mergeAndWatch *)

(* current.failed, current.setAside: nothing was merged. *)
GiveUp(v) ==
  /\ Conclude(v, "none")
  /\ UNCHANGED <<forge, locals, ghosts>>

Advance(step) ==
  /\ pc' = step
  /\ UNCHANGED <<attempt, halt>>

TakeBaseline ==
  /\ pc = "baseline"
  /\ \/ ~cancelled /\ Advance("branchHead") /\ UNCHANGED <<forge, locals, ghosts>>
     \/ GiveUp("error")

ReadBranchHead ==
  /\ pc = "branchHead"
  /\ \/ /\ ~cancelled /\ Advance("confirm")
        /\ preMergeHead' = {head}
        /\ UNCHANGED <<forge, cancelled, interactive, readHead, window,
                       broken, waited, graced, proposal, why, ghosts>>
     \/ GiveUp("error")

ConfirmAssessedHead ==
  /\ pc = "confirm"
  /\ \/ /\ ~cancelled /\ ~prMoved
        /\ Advance("merge") /\ UNCHANGED <<forge, locals, ghosts>>
     \/ ~cancelled /\ prMoved /\ GiveUp("skipped")
     \/ GiveUp("error")

(* The forge merges: the pull request's paths get their new content on     *)
(* whatever the branch head is by now.  It refuses a head that moved.      *)
ForgeMerges ==
  /\ ~prMoved
  /\ request' = "merged"
  /\ head' = [serial |-> head.serial + 1,
              tree |-> [p \in Paths |-> IF p \in prPaths THEN "update"
                                        ELSE head.tree[p]]]
  /\ wrote' = wrote \cup prPaths
  /\ UNCHANGED <<said, pushes, prPaths, prMoved, label,
                 fixCommits, reverts, entry, evidence, windows>>

MergeAnswered ==
  /\ pc = "merge" /\ ~cancelled
  /\ ForgeMerges
  /\ Advance("watch")
  /\ UNCHANGED <<unanswered, locals>>

(* The call errs.  What it asked for was refused or never received, or it  *)
(* was given up on before the forge came to it.                            *)
MergeFails ==
  /\ pc = "merge"
  /\ unanswered' \in BOOLEAN /\ (unanswered' => "merge" \in LostAnswers)
  /\ Advance("readBack")
  /\ UNCHANGED <<head, request, said, pushes, prPaths, prMoved, label, locals,
                 ghosts>>

HeadRefused == pc = "merge" /\ prMoved /\ ~cancelled /\ GiveUp("skipped")

(* The forge comes to a merge the client gave up on: before the read-back, *)
(* or after it, when the attempt may be long over.                         *)
UnansweredLands ==
  /\ unanswered /\ request = "open"
  /\ ForgeMerges
  /\ UNCHANGED <<unanswered, pc, attempt, halt, locals>>

(* Mutant of ReadBackMerge: a lost answer is taken for a refusal. *)
MutReadBackMergeAssumesRefusal ==
  /\ pc = "readBack"
  /\ GiveUp("error")

(* MergeState, on a context that outlives the run's: what it says is what  *)
(* the forge has done by then.                                             *)
ReadBackMerge ==
  /\ pc = "readBack"
  /\ \/ request = "merged" /\ Advance("watch") /\ UNCHANGED <<forge, locals, ghosts>>
     \/ request = "open" /\ GiveUp("error")
     \/ /\ Conclude("error", "inDoubt")
        /\ CommentOutliving("unknown")
        /\ UNCHANGED <<head, request, pushes, pull, locals, ghosts>>

(* What a window or a read establishes; one that errs establishes nothing. *)
Established(w) ==
  IF w.result = "pass" THEN "well"
  ELSE IF w.result \in {"fail", "stalled"} /\ w.objects # {} THEN "ill"
  ELSE evidence

Observed(w) ==
  /\ evidence' = Established(w)
  /\ windows' = IF windows < 2 THEN windows + 1 ELSE 2    \* enough to tell
  /\ UNCHANGED <<wrote, fixCommits, reverts, entry>>

(* A cancelled window only ever errs. *)
Answers(returns) == {w \in returns : cancelled => w.result = "error"}

WatchMerge ==
  /\ pc = "watch"
  /\ \E w \in Answers(WatchReturns(Objects, Blind)) :
       /\ Observed(w)
       /\ \/ /\ w.result = "error"
             /\ Conclude("error", "unobserved")
             /\ CommentOutliving("leftInPlace")
             /\ UNCHANGED <<head, request, pushes, pull,
                            locals>>
          \/ /\ w.result = "pass"
             /\ Conclude("merged", "none")
             /\ UNCHANGED <<forge, locals>>
          \/ /\ w.result \in {"fail", "stalled"}
             /\ window' = w
             /\ Advance("diagnose")
             /\ UNCHANGED <<forge, cancelled, interactive, preMergeHead,
                            readHead, broken, waited, graced, proposal, why>>

-----------------------------------------------------------------------------
(* repair: the agent diagnoses the window. *)

(* A forged fence in the diagnosis inputs holds before anything is acted on.*)
DiagnoseForged ==
  /\ pc = "diagnose"
  /\ LeaveInPlace
  /\ UNCHANGED ghosts

(* An unfixable diagnosis or one that failed is a cause. *)
DiagnoseUnfixable ==
  /\ pc = "diagnose"
  /\ Discard
  /\ UNCHANGED <<locals, attempt, ghosts>>

(* Mutant of DiagnoseBenign: the one extension is not used up. *)
MutDiagnoseBenignForever ==
  /\ pc = "diagnose" /\ ~cancelled
  /\ pc' = "settle" /\ graced' = TRUE /\ why' = "benign"
  /\ UNCHANGED <<forge, halt, waited, cancelled, interactive, preMergeHead,
                 readHead, window, broken, proposal, attempt, ghosts>>

(* benign_wait, available once. *)
DiagnoseBenign ==
  /\ pc = "diagnose" /\ ~cancelled
  /\ \/ waited /\ Discard /\ UNCHANGED <<waited, graced, why>>
     \/ /\ ~waited /\ pc' = "settle"
        /\ waited' = TRUE /\ graced' = TRUE /\ why' = "benign"
        /\ UNCHANGED <<forge, halt>>
  /\ UNCHANGED <<cancelled, interactive, preMergeHead, readHead, window,
                 broken, proposal, attempt, ghosts>>

MayFix == AllowedPaths # {} /\ fixAttempts < MaxFixAttempts

(* A fix: refused outright without paths or budget, else put to the operator.*)
DiagnoseFix ==
  /\ pc = "diagnose" /\ ~cancelled
  /\ \/ ~MayFix /\ Discard /\ UNCHANGED proposal
     \/ /\ MayFix /\ pc' = "approve"
        /\ proposal' \in (SUBSET AllowedPaths) \ {{}}
        /\ UNCHANGED <<forge, halt>>
  /\ UNCHANGED <<cancelled, interactive, preMergeHead, readHead, window,
                 broken, waited, graced, why, attempt, ghosts>>

EndFix ==                                \* locals of applyFix end
  /\ readHead' = {} /\ proposal' = {}
  /\ UNCHANGED <<cancelled, interactive, preMergeHead, window, broken, waited,
                 graced, why>>

(* approveFix: an unattended run, a decline and a broken prompt are causes. *)
ApproveFix ==
  /\ pc = "approve"
  /\ \/ interactive /\ pc' = "fixHead" /\ UNCHANGED <<forge, locals, halt>>
     \/ Discard /\ EndFix
  /\ UNCHANGED <<attempt, ghosts>>

(* settle(): one window for the broken objects to recover on their own.     *)
(* A failure that waited is still a failure.  Over no objects Restored is a *)
(* Watch, and settle takes any answer of it that is no error for recovery.  *)
Waited(objects) ==
  \E w \in Answers(RestoredReturns(Objects, objects)) :
    /\ Observed(w)
    /\ \/ w.result = "error" /\ LeaveInPlace
       \/ /\ w.result # "error"
          /\ w.result = "pass" \/ objects = {}
          /\ Healthy /\ UNCHANGED locals
       \/ /\ w.result = "stalled" /\ objects # {}
          /\ IF why = "grace"
               THEN /\ broken' = w.objects /\ pc' = "askRevert"
                    /\ UNCHANGED window
               ELSE /\ window' = Window(window.result, w.objects)
                    /\ pc' = "diagnose" /\ UNCHANGED broken
          /\ UNCHANGED <<forge, attempt, halt, cancelled, interactive,
                         preMergeHead, readHead, waited, graced, proposal,
                         why>>

Settle ==
  /\ pc = "settle"
  /\ Waited(IF why = "benign" THEN window.objects ELSE broken)

-----------------------------------------------------------------------------
(* repair: an approved fix is committed on the head as it is right now. *)

SpendAttempt == fixAttempts' = fixAttempts + 1 /\ UNCHANGED <<verdict, fixes>>

ReadFixHead ==
  /\ pc = "fixHead"
  /\ \/ /\ ~cancelled /\ readHead' = {head}
        /\ pc' = "fixCommit" /\ UNCHANGED attempt
        /\ UNCHANGED <<cancelled, interactive, preMergeHead, window, broken,
                       waited, graced, proposal, why>>
     \/ /\ pc' = "rejected"
        /\ SpendAttempt
        /\ EndFix
  /\ UNCHANGED <<forge, halt, ghosts>>

(* CreateCommit lands only on the head it was built on. *)
LandsOn(paths, content) ==
  /\ readHead = {head}
  /\ head' = [serial |-> head.serial + 1,
              tree |-> [p \in Paths |-> IF p \in paths THEN content[p]
                                        ELSE head.tree[p]]]

Lands(paths, content) ==
  /\ LandsOn(paths, content)
  /\ UNCHANGED <<request, said, pushes, pull>>

RepairedContent == [p \in Paths |-> "repair"]

FixLands ==
  /\ Lands(proposal, RepairedContent)
  /\ wrote' = wrote \cup proposal /\ fixCommits' = fixCommits + 1
  /\ UNCHANGED <<reverts, entry>>

CommitFix ==
  /\ pc = "fixCommit" /\ ~cancelled
  /\ FixLands
  /\ fixAttempts' = fixAttempts + 1 /\ fixes' = fixes \cup proposal
  /\ windows' = 0 /\ UNCHANGED evidence
  /\ pc' = "fixWatch"
  /\ EndFix /\ UNCHANGED <<verdict, halt>>

(* An error from CreateCommit counts against the budget; it is taken to     *)
(* mean that nothing changed, which a lost answer makes untrue.             *)
CommitFixFails ==
  /\ pc = "fixCommit"
  /\ \/ "fix" \in LostAnswers /\ FixLands /\ UNCHANGED <<windows, evidence>>
     \/ UNCHANGED <<forge, ghosts>>
  /\ SpendAttempt
  /\ pc' = "rejected"
  /\ EndFix /\ UNCHANGED halt

(* Broken() names what is still broken, or does not read for no objects.   *)
(* Afterwards the run knows the cluster well, ill, or as before.           *)
ReadBroken(objects, still) ==
  /\ still \in SUBSET objects
  /\ objects # {} => ~cancelled
  /\ evidence' = IF objects = {} THEN evidence
                 ELSE IF still = {} THEN "well" ELSE "ill"
  /\ UNCHANGED <<wrote, fixCommits, reverts, entry, windows>>

(* After a rejected fix: out of budget, unreadable, recovered, or again. *)
RejectedFix ==
  /\ pc = "rejected"
  /\ \/ /\ fixAttempts >= MaxFixAttempts
        /\ Discard /\ UNCHANGED <<locals, attempt, ghosts>>
     \/ /\ fixAttempts < MaxFixAttempts /\ window.objects # {}
        /\ Discard /\ UNCHANGED <<locals, attempt, ghosts>>
     \/ /\ fixAttempts < MaxFixAttempts
        /\ \E still \in SUBSET window.objects :
             /\ ReadBroken(window.objects, still)
             /\ \/ still = {} /\ Healthy /\ UNCHANGED locals
                \/ /\ still # {} /\ Advance("diagnose")
                   /\ window' = Window(window.result, still)
                   /\ UNCHANGED <<forge, cancelled, interactive,
                                  preMergeHead, readHead, broken, waited,
                                  graced, proposal, why>>

(* Mutant of WatchFix: the grace of the previous revision is kept. *)
MutWatchFixKeepsGrace ==
  /\ pc = "fixWatch"
  /\ \E w \in Answers(WatchReturns(Objects, Blind)) :
       /\ Observed(w)
       /\ \/ w.result = "error" /\ LeaveInPlace
          \/ w.result = "pass" /\ Healthy /\ UNCHANGED locals
          \/ /\ w.result \in {"fail", "stalled"} /\ Advance("diagnose")
             /\ window' = w
             /\ UNCHANGED <<forge, cancelled, interactive, preMergeHead,
                            readHead, broken, waited, graced, proposal, why>>

WatchFix ==
  /\ pc = "fixWatch"
  /\ \E w \in Answers(WatchReturns(Objects, Blind)) :
       /\ Observed(w)
       /\ \/ w.result = "error" /\ LeaveInPlace
          \/ /\ w.result = "pass" /\ Healthy
             /\ window' = w /\ graced' = FALSE
             /\ UNCHANGED <<cancelled, interactive, preMergeHead, readHead,
                            broken, waited, proposal, why>>
          \/ /\ w.result \in {"fail", "stalled"} /\ Advance("diagnose")
             /\ window' = w /\ graced' = FALSE
             /\ UNCHANGED <<forge, cancelled, interactive, preMergeHead,
                            readHead, broken, waited, proposal, why>>

-----------------------------------------------------------------------------
(* repair: discarding the merge, after one more read and with consent. *)

(* Mutant of Recheck: an unanswered health question is taken for health. *)
MutRecheckUnreadableIsWell ==
  /\ pc = "recheck"
  /\ Healthy /\ UNCHANGED <<locals, ghosts>>

Recheck ==
  /\ pc = "recheck"
  /\ \/ /\ window.objects # {}
        /\ LeaveInPlace /\ UNCHANGED ghosts
     \/ \E still \in SUBSET window.objects :
          /\ ReadBroken(window.objects, still)
          /\ \/ still = {} /\ Healthy /\ UNCHANGED locals
             \/ /\ still # {}
                /\ broken' = still
                /\ IF window.result = "stalled" /\ ~graced
                     THEN /\ graced' = TRUE /\ why' = "grace"
                          /\ Advance("settle")
                     ELSE /\ UNCHANGED <<graced, why>>
                          /\ Advance("askRevert")
                /\ UNCHANGED <<forge, cancelled, interactive, preMergeHead,
                               readHead, window, waited, proposal>>

(* confirmRevert: an unattended run reverts. *)
RevertNow ==
  /\ pc = "askRevert"
  /\ Advance("revertHead")
  /\ UNCHANGED <<forge, locals, ghosts>>

RevertKeep ==
  /\ pc = "askRevert" /\ interactive
  /\ Conclude("kept", "none")
  /\ Comment("kept")
  /\ UNCHANGED <<head, request, pushes, pull, locals,
                 ghosts>>

RevertWait ==
  /\ pc = "askRevert" /\ interactive
  /\ graced' = TRUE /\ why' = "operator"
  /\ Advance("settle")
  /\ UNCHANGED <<forge, cancelled, interactive, preMergeHead, readHead,
                 window, broken, waited, proposal, ghosts>>

(* The prompt fails, or its answer is none of the three. *)
RevertUnanswered ==
  /\ pc = "askRevert" /\ interactive
  /\ LeaveInPlace
  /\ UNCHANGED ghosts

(* revertCommit failed before or at the write: the run stops. *)
RevertFails ==
  /\ Conclude("error", "notReverted")
  /\ Comment("revertFailed")

ReadRevertHead ==
  /\ pc = "revertHead"
  /\ \/ /\ ~cancelled /\ readHead' = {head}
        /\ Advance("revertCommit")
        /\ UNCHANGED <<forge, cancelled, interactive, preMergeHead, window,
                       broken, waited, graced, proposal, why>>
     \/ /\ RevertFails
        /\ UNCHANGED <<head, request, pushes, pull, locals>>
  /\ UNCHANGED ghosts

(* The paths a revert rewrites, and what each goes back to. *)
(* Mutant of RevertPaths: what the fixes wrote is forgotten. *)
MutRevertPathsOfTheMerge == prPaths

RevertPaths == prPaths \cup fixes
BeforeMerge == (CHOOSE c \in preMergeHead : TRUE).tree

RevertLands == reverts' = 1 /\ UNCHANGED <<wrote, fixCommits, entry,
                                           evidence, windows>>

Reverted ==
  /\ RevertLands
  /\ verdict' = "reverted"
  /\ pc' = "restore" /\ readHead' = {}
  /\ UNCHANGED <<fixAttempts, fixes, cancelled, interactive, preMergeHead,
                 window, broken, waited, graced, proposal, why, halt>>

(* Mutant of CommitRevert: the tree read earlier is forced onto the branch. *)
MutCommitRevertForced ==
  /\ pc = "revertCommit" /\ ~cancelled
  /\ \E read \in readHead :
       head' = [serial |-> head.serial + 1,
                tree |-> [p \in Paths |-> IF p \in RevertPaths
                            THEN BeforeMerge[p] ELSE read.tree[p]]]
  /\ Reverted
  /\ UNCHANGED <<request, said, pushes, pull>>

CommitRevert ==
  /\ pc = "revertCommit" /\ ~cancelled
  /\ Lands(RevertPaths, BeforeMerge)
  /\ Reverted

CommitRevertFails ==
  /\ pc = "revertCommit"
  /\ RevertFails
  /\ \/ UNCHANGED <<head, ghosts>>
     \/ "revert" \in LostAnswers /\ RevertLands /\ LandsOn(RevertPaths, BeforeMerge)
  /\ UNCHANGED <<request, pushes, pull, locals>>

(* After the revert: the objects it was for have to recover, or the run halts.*)
RestoreBaseline ==
  /\ pc = "restore"
  /\ \E w \in Answers(RestoredReturns(Objects, broken)) :
       /\ Observed(w)
       /\ halt' = IF w.result = "pass" THEN "none" ELSE "notRecovered"
  /\ pc' = "annotate"
  /\ UNCHANGED <<forge, locals, attempt>>

AnnotateReverted ==
  /\ pc = "annotate"
  /\ Comment("reverted")
  /\ label' \in IF cancelled THEN {FALSE} ELSE BOOLEAN
  /\ pc' = "done"
  /\ UNCHANGED <<head, request, pushes, prPaths, prMoved, unanswered, locals, attempt,
                 halt, ghosts>>

Finished == pc = "done" /\ UNCHANGED vars

Merging ==
  \/ TakeBaseline \/ ReadBranchHead \/ ConfirmAssessedHead
  \/ MergeAnswered \/ MergeFails \/ HeadRefused
  \/ ReadBackMerge \/ WatchMerge
Diagnosing ==
  \/ DiagnoseForged \/ DiagnoseUnfixable \/ DiagnoseBenign \/ DiagnoseFix
  \/ ApproveFix \/ Settle
Fixing == ReadFixHead \/ CommitFix \/ CommitFixFails \/ RejectedFix \/ WatchFix
Asking == RevertNow \/ RevertKeep \/ RevertWait \/ RevertUnanswered
Reverting ==
  \/ Recheck \/ ReadRevertHead \/ CommitRevert \/ CommitRevertFails
  \/ RestoreBaseline \/ AnnotateReverted
Program == Merging \/ Diagnosing \/ Fixing \/ Asking \/ Reverting

Others == ForeignPush \/ HeadMoves \/ UnansweredLands \/ Interrupt

Next == Program \/ Others \/ Finished

(* The run is one goroutine whose every call is bounded by a timeout, and   *)
(* the operator and the agent answer (the agent's turns and deadline are    *)
(* bounded too).                                                            *)
Spec == Init /\ [][Next]_vars /\ WF_vars(Program)

-----------------------------------------------------------------------------
(* The attempt ends as the run loop assumes (AttemptEndings), and a run     *)
(* that goes on to the next pull request leaves no merge that nothing      *)
(* explains, save one that is yet to land: it was asked for, its call gave *)
(* no answer, and the read-back found the pull request open.  What did not *)
(* merge wrote nothing, and after a revert the cluster was seen to recover.*)
Standing == IF request = "open" /\ unanswered THEN "underway" ELSE request
Ends == pc # "done" /\ pc' = "done"
NothingUnexplained ==
  [][Ends =>
       /\ Ending(verdict', halt' # "none", Standing') \in Endings
       /\ halt' = "none" /\ request' = "open" => wrote' = {}
       /\ halt' = "none" /\ verdict' = "reverted" => evidence' = "well"]_vars

(* No attempt is called healthy unless the last thing the run established  *)
(* about the cluster is that it is well, or the window it judged is a stall *)
(* that named nothing (it ran out before Flux had fetched the revision, and *)
(* the source had moved).                                                  *)
NamelessStall == window.result = "stalled" /\ window.objects = {}
HealthyWasObserved ==
  verdict \in {"merged", "fixed"} => evidence = "well" \/ NamelessStall

(* "An empty list here is a verdict, not a gap": it would take such a stall *)
(* for one that saw the cluster well.                                      *)
EmptyListIsAVerdict ==
  verdict \in {"merged", "fixed"} => evidence = "well"

(* The revert commit, and nothing else, moves the head while it is built.  *)
Reverts == pc = "revertCommit" /\ head' # head /\ pc' # "revertCommit"

(* A revert takes back every path the merge or a fix of this attempt wrote *)
(* to its content before the merge: a repair left deployed under a revert  *)
(* reported as clean is what fixPaths exists to prevent.                   *)
RevertIsComplete ==
  [][Reverts => \A c \in preMergeHead : \A p \in wrote :
                   head'.tree[p] = c.tree[p]]_vars

(* ... and leaves alone what others pushed to the paths it does not own.   *)
RevertSparesOthers ==
  [][Reverts => \A p \in Paths \ (wrote \cup fixes) :
                   head'.tree[p] = head.tree[p]]_vars

(* Never more commits to production than watch.maxFixAttempts, counting    *)
(* the diffs that were applied before the merge and the ones whose commit  *)
(* landed although its answer was lost.                                    *)
FixBudget ==
  entry + fixCommits <= fixAttempts
    /\ fixAttempts <= MaxFixAttempts

(* A stall alone never discards a merge: whatever revision is deployed, the *)
(* objects had a second window, and that one did not end well either.      *)
StallGetsSecondWindow ==
  pc = "revertHead" /\ window.result = "stalled" => windows >= 2

(* The reverted label, which later runs read as "already handled", is only *)
(* on a pull request whose revert is on the branch.                        *)
LabelMeansReverted == label => reverts = 1 /\ verdict = "reverted"

(* The attempt ends, unless the operator keeps asking to wait. *)
AttemptEnds == <>(pc = "done") \/ []<><<RevertWait>>_vars
=============================================================================
