----------------------------- MODULE AttendedRun -----------------------------
(***************************************************************************)
(* internal/run with somebody at the terminal: a pull request goes through *)
(* the gate; what the run says and asks after its decision, in the repair  *)
(* of that merge and at the attempts that follow, is said and asked at one *)
(* terminal; a fix approved there is applied (repair.go:121-130).  It is   *)
(* all one goroutine's work, so one part moves at a time; the terminal's   *)
(* animations and whoever types move along with it.                        *)
(***************************************************************************)
EXTENDS Gate, Terminal, Fix

attendedVars == <<vars, terminalVars, fixVars>>

(* An attempt that found nothing against the update, decided. *)
Decided ==
  /\ head = 0 /\ moves = 0 /\ landed = 0 /\ candidate = 0 /\ recorded = 0
  /\ tree = 0 /\ files = 0
  /\ bump = "none" /\ bumpHold = "none" /\ gap = FALSE /\ forged = FALSE
  /\ interactive = session.interactive /\ dryRun = FALSE /\ canWrite = TRUE
  /\ pc = "done" /\ verdict = "safe"
  /\ diff = FALSE /\ hard = FALSE /\ url = FALSE
  /\ fixAttempts = 0 /\ fixes = 0 /\ decision = "merge"

(* Nothing is said and nothing is asked. *)
Silent(s) == s.texts = <<>> /\ s.questions = <<>>

(* The first family of the Proposals: an ordinary fix. *)
Ordinary == proposal \in Proposals[1]

(* An attempt begins, at a terminal where nothing follows; or one is        *)
(* decided, with everything that may be said and asked after it.            *)
AttendedInit ==
  /\ session \in Sessions /\ Ordinary
  /\ (Silent(session) /\ Init) \/ Decided
  /\ interactive = session.interactive
  /\ TerminalInit /\ FixInit

(* approveFix, then applyFix: what has just been approved is applied, and   *)
(* nothing is said or asked until it is committed or refused.               *)
Approved ==
  phase = "idle" /\ asks > 0 /\ Kind = "fix" /\ outcome = "approved"
Applying == Approved /\ stage \notin {"refused", "committed"}

(* Where a fix is all that is asked about, it may be any that is proposed;  *)
(* which one makes a difference from here on.                               *)
AnyProposal ==
  /\ Applying /\ stage = "parse" /\ session.questions = <<"fix">> /\ Ordinary
  /\ \E family \in DOMAIN Proposals : proposal' \in Proposals[family]
  /\ stage' = "parse" /\ sections' = <<>> /\ section' = 1
  /\ changes' = <<>> /\ commit' = <<>>
  /\ UNCHANGED <<vars, terminalVars>>

AtGate(step) == step /\ UNCHANGED <<terminalVars, fixVars>>
AtTerminal(step) ==
  pc = "done" /\ ~Applying /\ step /\ UNCHANGED <<vars, fixVars>>
AtRepair(step) ==
  pc = "done" /\ Approved /\ step /\ UNCHANGED <<vars, terminalVars>>

GateSteps ==
  \/ AtGate(Sync) \/ AtGate(ReadFiles) \/ AtGate(ReadFilesFails) \/ AtGate(Assess)
  \/ AtGate(Defer) \/ AtGate(Discuss) \/ AtGate(Merge) \/ AtGate(HoldStands)
  \/ AtGate(ProposeDiff) \/ AtGate(OperatorAnswers) \/ AtGate(OperatorDefers)
  \/ AtGate(RefreshAfterAnswer) \/ AtGate(ApproveDiff) \/ AtGate(CommitDiff)
  \/ AtGate(CommitDiffFails) \/ AtGate(ConfirmDiff) \/ AtGate(HeadMoves)
  \/ AtGate(Finished)

TerminalSteps ==
  \/ AtTerminal(QuietTurn) \/ AtTerminal(TurnStart) \/ AtTerminal(TakeStop)
  \/ AtTerminal(CloseStop) \/ AtTerminal(JoinAnimation) \/ AtTerminal(EndLine)
  \/ AtTerminal(BeginTurn) \/ AtTerminal(Delta) \/ AtTerminal(TurnEnd)
  \/ AtTerminal(Pose) \/ AtTerminal(AskSilenced) \/ AtTerminal(AskCatchesUp)
  \/ AtTerminal(AskDiscards) \/ AtTerminal(AskPrompts) \/ AtTerminal(ReadLine)
  \/ AtTerminal(ReadEnd) \/ AtTerminal(ReadTooLong) \/ AtTerminal(ReadBreaks)
  \/ AtTerminal(NoAnswer) \/ AtTerminal(Conclude) \/ AtTerminal(AskAgain)
  \/ \E g \in Generations(session) : AtTerminal(Stopped(g)) \/ AtTerminal(Tick(g))
  \/ AtTerminal(Type) \/ AtTerminal(Rest)

RepairSteps ==
  \/ AtRepair(ParseFix) \/ AtRepair(CheckPaths) \/ AtRepair(Probe)
  \/ AtRepair(ApplyNext) \/ AtRepair(FileAtFails) \/ AtRepair(CreateCommit)
  \/ AtRepair(CommitFails) \/ AtRepair(Ended) \/ AnyProposal

AttendedNext == GateSteps \/ TerminalSteps \/ RepairSteps

(* The fairness of the gate and of the terminal, as they state it. *)
AttendedSpec ==
  /\ AttendedInit /\ [][AttendedNext]_attendedVars
  /\ WF_vars(Program)
  /\ WF_terminalVars(EndStream \/ BeginTurn)
  /\ \A g \in UNION {Generations(s) : s \in Sessions} :
       WF_terminalVars(g \in Generations(session) /\ Stopped(g))
=============================================================================
