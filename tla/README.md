# A verification of Ops-Pilot

Ops-Pilot takes the pull requests Renovate opened on a GitOps repository, lets an
AI agent assess each of them, merges what is safe, watches the cluster after the
merge, and repairs or reverts what broke.  It merges to production and reverts
without being asked, so what matters is what it does when something goes wrong
halfway: a push by somebody else, an answer that gets lost, a rollout that takes
longer than a window, an operator who interrupts it, a text that is not what it seems.

The modules here are translated from the Go code under `src/internal`; comments
name the function a definition stands for, and `PROJECT.json` ("map") its lines.

## The system

| part | code | state it keeps | what it does | hard because |
|---|---|---|---|---|
| run loop | `run/run.go` Run, finish | the attempts, the halt | discovers, then skips or processes every pull request, ends with one event | a halt, an interrupt and a failing call meet at any point; closing is not reversible |
| records | `history`, `events` | the run's row and its attempts; the latch of the event file | say what happened, whatever happens to the run | a write fails, an interrupt cuts it, the process dies between two of them |
| queue | `run/queue.go`, `adapters/renovate` | none, it classifies a listing | finds pull requests that a newer one replaces | versions that cannot be ordered, two deployments of one dependency |
| changelog | `changelog` | none, one resolution per update | finds the release notes of an update, or says why there are none | tags of every shape, truncated listings, two upstreams that disagree |
| gate | `run/run.go` decideCandidate, applyAssessmentDiff | checkout, memoised changed files, pinned head, attempt | asks the agent and the operator, applies a diff to the pull request | three reads of a moving branch; holds across a loop of turns |
| merge and repair | `run/run.go` mergeAndWatch, `run/repair.go` | pre-merge head, window, budget, fixes, halt | merges, watches, diagnoses, fixes, reverts | lost answers, pushes in between, an interrupt, breakage that heals while it is diagnosed |
| fix | `run/repair.go` applyFixAt, `run/fixpath.go`, `patch`, `repopath` | the files a diff has touched so far | turns a diff a model wrote into a commit, or refuses it | a format that is read by guesses, paths a model spells, an allowlist of patterns |
| cluster windows | `cluster/cluster.go` | first-seen times, hold, deadline | polls until pass, fail, stalled, or an error | a poll is three calls; objects flap; the source may move past the merge |
| workload health | `adapters/kubernetes/health.go` Objects | none, each poll reads anew | turns status, conditions and pods into healthy and reconciling | four lists of a moving cluster, one of them may be cut off; a benefit of the doubt that has to end |
| forge client | `adapters/github`, `retry` | a walk over pages; a schedule of retries | lists, merges, reads back, commits | asynchronous and lossy; a request may be carried out after its caller gave up |
| agent | `ai`, `ai/openai` | a conversation, the fence and what was forged | lets the model call tools until it concludes | a stream cut anywhere; text from outside that looks like the fence |
| operator's terminal | `cli/approver.go`, `diagnostics` | the line under construction, the animation, the reader | shows what the agent says while it says it, asks and reads answers | two threads on one line; secrets split over two pieces; lines that are too long or cut |
| other adapters | `flux`, `oci`, `checkout`, `httpfetch` | connections, a clone | read the cluster and the sources | I/O |

The run is one goroutine, also where somebody attends it at the terminal
(`AttendedRun`).  It calls the forge, the observer (cluster windows), the
agent and the operator through the ports of `run/ports.go`; concurrency is with
the world, which moves between any two calls, and with the terminal's animation.

What makes each part correct:

- *windows*: a pass was held for the stability hold; a failure persisted for it;
  breakage older than the merge is invisible; every window ends, with a bounded grace.
- *workload health*: the benefit of the doubt runs out; no ordinary restart is blamed;
  what is broken stays named until it moves.
- *merge and repair*: no merge is left that nothing explains; no verdict of health
  without an observation of it; a stall alone discards nothing; a revert is complete
  and touches nothing else.
- *forge client*: a write is not replayed unless it was refused; a pull request that
  stays open is listed; what the run is told of its merge is true, or in doubt.
- *gate*: what is merged is what was read; no hold is forgotten; a diff lands on the
  commit it was approved for; every attempt is charged and on record.
- *fix*: no line of a diff is lost; no hunk is put where it only happens to fit; nothing
  outside the allowlist is written.
- *changelog*: an update the run does not hold was assessed with every release of its
  range; silence is only said of an upstream that has nothing to say.
- *agent*: one identifier fences all of a request, and nothing inside a fence bears it,
  nor anything from outside the request before the model has read it; forgery is charged to the request that met it; a conclusion is the one the model sent.
- *terminal*: a turn is shown as it was said, wherever it was cut; the prompt is the
  last thing on the screen; an answer is a whole line, typed for its question.
- *queue, loop and records*: no update is lost with a closed pull request; the stream
  claims no write that was not made; its file has no hole; the history misses no more
  than failed.

## Modules

| module | models | used by |
|---|---|---|
| `HealthSnapshot` | the judgements over one snapshot (`domain/model.go`, helpers of `cluster.go`) | ClusterWatch |
| `WindowContract` | what the observer promises the run: the abstract window | ClusterWatch keeps it (`KeepsContract`), MergeAndRepair relies on it |
| `ClusterWatch`, `ClusterWatchProofs` | Watch and Restored, poll by poll; the theorems | |
| `WorkloadHealth`, `WorkloadHealthProofs` | Objects: the two booleans of a workload, read from a moving cluster; the theorems | its answers are the health ClusterWatch is given |
| `MergeCall` | what merging a pull request promises: the abstract merge | ForgeClient implements it (`KeepsPromise`, a refinement), MergeAndRepair relies on it |
| `ForgeClient`, `ForgeClientProofs` | ListOpen, Merge and MergeState over the retry schedule; the theorems | |
| `AttemptEndings` | how an attempt can end: the abstract attempt | MergeAndRepair ends so (`NothingUnexplained`), RunLoop relies on it |
| `MergeAndRepair`, `MergeAndRepairProofs` | mergeAndWatch and repair; the theorems | |
| `Gate` | decideCandidate and applyAssessmentDiff | AttendedRun |
| `Versions` | references, their two orders, bumps, digests, ranges | Queue, Changelog |
| `Queue` | supersession, and what replaces what (`Rivals`, `ReplacedBy`) | RunLoop |
| `RunLoop`, `RunLoopProofs` | Run, closeSuperseded, finish, with history and event file; the theorems | |
| `Changelog`, `ChangelogProofs` | Resolve over the releases of an upstream; the theorems | |
| `Fence`, `Agent`, `AgentProofs` | the fence and its identifiers; requests to the model; the theorems | |
| `StreamRedactor`, `Terminal` | what is held back of a streamed text; the screen and the answers | AttendedRun |
| `Patch`, `FixPaths`, `Fix` | reading and applying a diff; paths and patterns; applyFixAt | AttendedRun |
| `AttendedRun`, `GateProofs` | the gate, the terminal and the repair taking turns on one goroutine; the theorems about the three and about their composition | |

`MC<module>` gives the constants of a run.  Gate, Terminal and Fix are checked composed
(`AttendedRun`), the other parts one by one.  A part meets its neighbour through a small contract module: the neighbour's side is free to
do whatever the contract allows, and the part's own run (and proof) shows that it
stays within it.  What a contract allows and the docs deny is shown by a
run that finds the violation (see Runs) or described (see Observations).  The three contracts are the windows (`WindowContract`), the merge
(`MergeCall`) and the endings of an attempt (`AttemptEndings`).  A further seam is
between Gate and MergeAndRepair: `EveryAttemptIsOnRecord` and `MergesWhatWasRead` are
what the initial states of MergeAndRepair assume (each attempt spent before a merge is
a fix on record, and the head that was assessed is the head of the pull request unless
it moved since).

### ClusterWatch

One behaviour is one call of Watch (with a revision, or with none) or of Restored
(over at least one object; over none the code calls Watch).  A poll is
`ReadRevision`, `ReadFlux`, `ReadWorkloads`: three calls, between which
`ClusterChanges` and `SourceMoves` act and time may pass (`ReadIsSlow`).  The poll
is then judged by exactly one of `WindowFails`, `WindowPasses`, `NeverFetched`,
`WindowStalls`, `PollAgain`, in the code's order.  `FirstSeen` is the map that
persistent() keeps, `StableSince` and `Limit` are the locals of the loop.  Two
ghosts, `calmFrom` and `failedFrom`, keep their own record of what the polls saw;
the properties compare the verdict with them.

An object is two booleans (healthy, reconciling).  Revisions are the handful of
places the source can be at relative to the merge: behind, at the old head, at the
merge, past it.  A world (`Worlds`) says what the objects were before the merge and
how often they change, how slow reads are and whether they fail.

### WorkloadHealth

The world is Kubernetes as the adapter depends on it: a rollout or a change of
`desired` leaves the status unobserved, controllers create, delete and replace pods,
publish counts and conditions (`Publish`, late or never, since only safety is
checked) and give a Deployment up at its deadline (`GiveUp`).  One poll is
`ListDeployments`, `ListStatefulSets`, `ListDaemonSets`, then the pods in one list
(`ListPods`) or, when that fails, is forbidden or is cut off (`ListPodsFails`),
namespace by namespace (`ListPodsIn`); any other failed list ends the poll
(`ReadFails`).  `Judge` is workloadHealth for every workload listed.  The clock ticks
between and during polls, at most MaxSlow within one; `skew` is the time since
`time.Now()` was taken in deliveringPods, so a pod's age is counted from there even
though its list answers later.  Ages stop counting where nothing looks any further.
The termination grace of a pod counts as none: its age starts over at the deletion
timestamp, and before that moment the code reads it as being placed just the same.
A generation of zero, which no API server serves, is left out.

Three ghosts: `quiet` (how long nothing about a workload moved), `moved` (what moved
after the poll under way had listed it) and `named` (what the last judgement called
broken and has not moved since).

BlameIsFounded leaves out two cases in which the code does blame an ordinary
restart, for one poll each: a workload that moved between its own list and that of
its pods, and one whose status is behind.  A window asks for persistence over a hold
before it fails on either (`FailPersisted`).

### ForgeClient

First a listing: `ReadPage` page by page while pull requests open and close, with a
Link header that may name the next page, the first or a later one.  Then one merge:
`HandOver`, `SendPut`, an answer (`HearMerged`, `HearPending`, `HearHeadModified`,
`HearRefusal`) or none (`HearNothing`), the wait between two PUTs (`Backoff`), and the
read-back of mergeAndWatch on a context of its own (`ReadBack`).  Every GET runs under
`retry.Schedule`: `ReadBlips` is a fault worth another try, `ReadIsHopeless` one that
is not, `ReadIsCut` the end of the context; `Retry-After` is honoured up to its cap and
never past a deadline.  The forge's side, external, carries a request out or refuses
it at any time, also after the client gave it up (`orphan`, Late).

The refinement mapping to `MergeCall` forgets how often the forge was asked and how
its answers were read: a request is `ordered` while one is on the wire or abandoned.

### MergeAndRepair

The branch head is a commit: a serial number and a content per path, where contents
are told apart by who wrote them (base, update, repair, foreign).  `pc` is the point
between two calls; a call that reads and a call that writes are never one step.
`Comment`, `LeaveInPlace` and the annotations belong to the handler they end.  An
error from a read and a context that is cancelled lead to the same return, so a read
may fail at any time.  Writes in `LostAnswers` may land although the call errs.

A merge that errs without an answer (`MergeFails`) may be with the forge still
(`unanswered`): `UnansweredLands` carries it out at any later time, before the read-back
or after the attempt.  What NothingUnexplained asks of an attempt that ends with "not
merged" is therefore no more than the code can know, and AttemptEndings has an ending of
its own for it ("underway"), which the run loop lives with: there the merge lands beside
later candidates (the docs promise a halt instead, see Observations).  A window may
end as a stall that names nothing where `Blind` says so; HealthyWasObserved excepts just
that, and EmptyListIsAVerdict does not.

Simplified: the events; texts; the reason an agent gave; the fix validator, which
only decides whether a fix fails (its rules are Fix); the forge's own checks except
the head it expects.  The list of objects a window names is one set (failuresOf).
`windows` counts only to two.

### Gate

A head is a number that never recurs.  `tree`, `files` and `candidate` say which head
the checkout, the memoised files and the pin are at.  `facts` is what does not change
while the gate is open: bump class, changelog gap, forged input, mode.  The agent
answers anything Assessment.Valid admits; the adapter turns everything else into an
error, which like a forged or echoed fence is a hard hold ("distrusted").

### AttendedRun

A pull request goes through the gate (`GateSteps`); what the run says and asks after
that decision, in the repair of the merge and at the attempts that follow, is said and
asked at one terminal (`TerminalSteps`); and a diff that is approved there is applied
(`RepairSteps`) before anything else is said.  The guard is the code's: applyFix is
called once approveFix has returned true (`Approved`), and returns before the terminal
is written to again (`Applying`).  The world moves whenever it can: others push while
the gate is open, the animation ticks while a turn is shown, somebody types.

The gate's own questions are its steps `Discuss` and `OperatorAnswers`, so a session at
which something follows starts at an attempt that has been decided (`Decided`); an
attempt from its beginning has nothing after it.  Which diff is proposed makes no
difference until it is applied, so it is picked there (`AnyProposal`).

### Versions, Queue and RunLoop

A version is its numeric segments and the identifiers of its suffix; what is no
version is a name.  `Newer`, `CompareVersions` and `BumpClass` are the functions of
`parser.go` over those, digests included, and `Compare` is the order that
`changelog.go` has of its own.  An identifier beyond the width of an int is `TooBig`,
as Atoi fails on it: the parser then compares it as text, the changelog as a word,
above every number.  `Reference` is what can be left of a version after parsing,
`Readable` the part of it that the order depends on, and `Fits` says that every number
of a suffix fits an int.  A number too long in the core of a version makes it
uncomparable, hence a name.

A candidate has a name, a version and the files it writes.  RunLoop is the loop of Run:
`SkipCandidate`, `TellSkipped`, `CloseSuperseded` / `CloseFails`, `Process`, `Record`,
`AfterAttempt`, `LeaveLoop`, `Finish`, `FinishRun`, `LastWord`.  `Process` takes any
ending of `AttemptEndings`.  `Emit` is the emitter with its latch: a write that fails
may leave a beginning of its events in the file (a torn line counts as none), and
everything after it is dropped.  `StartRun`, `Record` and `FinishRun` write to the
history, each of them may fail (`faults` counts that), the foreign key refuses an
attempt without its run's row, and `outliving` gives a write after an interrupt a
context of its own.  `Crash` ends the process between two steps or in the middle of an
attempt.

### Changelog

The upstream publishes releases in any order (`Publish`); then an update is raised
with what the pull request, an override of the operator and the image say of its
upstream (`Raise`).  `ReadOverride`, `ReadUpstream` and `ReadAnnotation` are the three
places Resolve asks, each of which may be unreadable; `Lookup` is fromReleases with
AccountsForRange and Between; `At` is what Between selects, in the order of the
listing.  A release is its tag and the versions hidden in it: the code looks for those
(`Candidates`) in every tag, the properties read a tag that is a version as that and
nothing else (`ReadAs`).  `BelowTheCut` names the one gap a listing leaves.

### Agent and Fence

A text is reduced to what the fence looks for in it: nothing, a marker, or the
identifier of a request.  A request rotates the identifier, opens with a prompt
(`Begin`, `Opening`), and is a conversation: a reply that comes whole (`Answers`) or in
the pieces of a stream (`StreamContent`, `StreamPiece`, `Breaks`), tools that fence
what they return (`Serve`), until the submission or the last turn (`GiveUp`).
`Return` is what assess and repair make of a conclusion: held when a fence was forged
or the model echoed it.  A reply is appended as it came, with whatever identifier its
prose quotes or its calls name, also the live one, which the model has read in its
prompt; FencedUnderOneIdentifier says what stays free of it: everything that is fenced,
and every message that is not the model's.

### Terminal and StreamRedactor

Text is a sequence of characters, some of which are parts of control sequences, halves
of a rune, of a configured value or of a credential.  Of the scrub rules one form is
modelled, a name and the value after it, on its line or on the line below; the latter
stands for block scalars, sequences and private keys, which like it span lines.  "=" is
a name that both the stream and the rules know (token:), ":" one that only the rules know
(pass:, *.key); how long a value has to be is left out.  RedactorWrite scrubs in the parts
the code does (`Seams`), not what it releases as a whole.  A turn is pieces cut anywhere;
the animation is a thread of its own per turn (`animators`), stopped through a channel
and waited for through another; critical sections of `streamMu` are single steps.
Then questions are asked: `input` is what a script holds or a keyboard types, and an
answer is read byte by byte up to `maxAnswer`, through reads that may fail.

### Patch, FixPaths and Fix

A line of a diff is its mark and its text.  The loops of the code are recursive
functions: `ReadLines` goes over the lines of a diff, with the look-ahead of the code
(`BodyContinues`, `BlankSplitsAChange`, `OrphanedFileHeader`), `ApplyHunks` over the
hunks of a section, each of which is located by its text, and `Matching` is the loop
that matchPathSegments and matchSegment share, with its two cursors: a path is its
segments and a segment its characters, so an entry such as `apps/**/*.yaml` backtracks
at both levels.  `ValidPattern` is the grammar that AllowsFixPath asks of an entry first.  `Contents` is the joining of lines that are
left, with the newline that one blank line without an end turns into.  Fix goes from
the proposal to the commit: parse, check the paths, probe, patch one section after the
other, and hand all of it to the forge.

FixIsNotAGuess states what a diff means without saying how it is applied: a reading
puts every hunk on lines of the file that are its own (`Readings`), and `Patched` is
the file with those lines replaced.  FixStaysInBounds reads an entry of the allowlist
the way its author does (`Covers`, `Spells`: what is matched is cut into one stretch for
each element of the entry), where the code backtracks to the most recent wildcard only,
and says on its own what must not be written (`Governs`): what is git's or GitHub's, the
bots' configuration, and what the cluster is bootstrapped from.  RefusedForAReason is the
other direction: a fix that is refused by its paths has one that no entry covers, or
that governs, or that cannot be undone.
NoChangeIsLost compares the sections with the lines of the diff (`InHunk`).

## Runs

| run | instance | states | shows |
|---|---|---|---|
| ClusterWatch | a workload alone, four changes, one slow read, every baseline; a Flux object and a workload, two changes, reads that fail; settle 3, hold 2, poll 1 | 683,152 | PassHeldThroughout, FailPersisted, NeverBlamesThePast, KeepsContract, WindowEnds |
| WorkloadHealth | a StatefulSet of two pods, a DaemonSet and a Deployment of one each, in two namespaces; one workload changes in a behaviour, the last two up to twice; grace 2, deadline 2, one slow read per poll | 593,771 | DoubtRunsOut, BlameIsFounded, NamedStaysNamed |
| ForgeClient | four open pull requests, two more opened, pages of two; three PUTs, three GETs; requests carried out late | 312,011 | ListingIsPaidFor, NoReplay, KeepsPromise |
| MergeAndRepair | two paths of which fixes may write one, two objects, budget 2, one push by others, an interrupt, lost answers to merge and revert, merges that land late, stalls that name nothing | 1,115,418 | NothingUnexplained, HealthyWasObserved, StallGetsSecondWindow, RevertIsComplete, RevertSparesOthers, AttemptEnds |
| RunLoop | every queue of up to three out of five candidates of one chart, or out of three builds of one version; everything may fail, one write to a store, an interrupt, a crash, merges that land late | 2,028,121 | NoUpdateIsLost, StreamIsTheRecord, FileHasNoHole, HistoryMissesOnlyFaults |
| Changelog | every history of up to four out of nine releases, three of them listed; thirteen updates, eight ways to name an upstream | 1,355,035 | UnheldIsInformed, SilenceIsEarned |
| Agent | two requests of two turns, every tool, replies of up to two calls, whole or streamed | 318,825 | FencedUnderOneIdentifier, ForgeryIsChargedToItsRequest, ConclusionIsAsSent, RequestEnds |
| AttendedRun | the gate: two pushes by others, budget 2, answers may be lost; the terminal: texts of up to three parts cut anywhere before a question, scripts of up to six characters and keyboards that type twice under two questions, answers of two bytes, one failing read; the repair: every diff of up to four body lines, every pair of small hunks against every file of up to four lines, ended or not, paths of every class under twelve allowlists with wildcards over segments and inside them | 363,910 | MergesWhatWasRead, NoHoldIsMerged, EveryAttemptIsOnRecord, DiffsLandWhereProposed, GateDecides; TurnIsShownAsSaid, PromptStandsLast, AnswersAreWhole, StreamReturns; NoChangeIsLost, FixIsNotAGuess, FixStaysInBounds, RefusedForAReason |

Why the bounds are enough.  A window has one object's history as its state, objects do
not interact, so one object with four changes (fail, recover, fail, recover) and a pair
for the two-call read reach every combination the code tells apart; settle 3 and hold 2
leave room for a hold that starts inside the budget and ends in the grace, and satisfy
validateWatch (2 * poll <= hold <= settle).  In WorkloadHealth workloads do not interact
(a pod counts for its controller alone), so one that changes beside two that stand still
covers every combination; two pods are what a rolling update caught in its middle takes,
and grace 2 leaves one tick inside it and one at its end.  In ForgeClient two pages and
a third that is cut let an entry cross a boundary both ways, and three tries are a
first, a middle and a last one.  In MergeAndRepair two paths are one that only the merge
writes and one that a fix may write, two objects let one recover and the other not,
budget 2 is one failed and one more attempt, and one push is enough to fall between any
two calls.  In AttendedRun two pushes reach both sides of a commit; two bytes tell a
line that fits from one that does not, and a question read after another shows what the
first one left; four body lines are a change, what splits it and what follows it, and
two hunks are what it takes for one to disturb the other.  The texts, the answers and
the diffs vary one kind at a time: a turn leaves to a question only the line it ends on
and whether it asked something, and a question leaves to a fix only its answer.  In
RunLoop three candidates are the newest of a line, one that it replaces and one that spoils the order;
the five are a release candidate, its release, a rebuild nobody can order, the next
major and one on a values file that two deployments share; the builds are numbered below
ten, above it and beyond the width of an int.  One failed write is enough to tell a hole
from an end; any number is proved.  In Changelog three listed releases are two in the
range with one between them, and the fourth is what the cut hides; the nine are of every
kind of tag the code tells apart, one of them a version that hides another.  In Agent
the second request meets what the first one published, and a second turn is the last.

Runs that are expected to find a violation, each with a sentence of the code that the
code does not keep:

| run | what it shows |
|---|---|
| MergeAndRepairLostFix | A fix that landed while its answer was lost is not in the attempt's fixes, and survives a revert that is reported as done (`repair.go:130`, against the comments at 132 and 670). |
| MergeAndRepairBlindStall | A stall that names nothing is kept as healthy without a read of the cluster (`repair.go:224`, against "an empty list here is a verdict, not a gap" at `cluster.go:260`). |
| TerminalOverlappingValue | Of a configured value that ends as it begins the last character is held back as another beginning and the rest shown; then the last one is (`error.go:121`, against the comment at 99). |
| WorkloadHealthStuck | A rolling update stuck on its first replaced pod reads as reconciling for ever, because `updated < desired` never ends (`health.go:134`, against the comment at 124). |

MergeAndRepair's passing run leaves out the lost answer to a fix, which a violating
run shows; everything else may be lost.  The theorem of RevertIsComplete states the
same condition as its assumption.  TerminalOverlappingValue is one way out of the
premise of TurnIsShownAsSaid, values that are not apart (`SecretsApart`); the two ways
out of the other half (`StandByTheirNames`) are described below.

## Observations

Behaviour met while modelling that a reader of the code may want to know of.  The
models contain it unless said otherwise; no property is stated against it.

*Windows and the attempt.*  A merge whose answer is lost is read back once, and "open"
is taken for "could not be merged" (`run.go:1142`).  A request that the client gave up on
can land after that read: it is then deployed, watched by nobody and recorded with
verdict error, and the run has gone on, where the Workflow Overview (118) says that "the
run halts rather than treating an unconfirmed merge as nothing happened".  The branch
head that a revert restores is read before the pull request is read again and merged
(`run.go:1107`): a push in between is under the merge, not in the head on record, and
undone on the paths that the revert owns, where `run.go:1104` says that "the branch head
before the merge is what a revert has to restore" and `model.go:347` that PreMergeSHA is
"the branch head before this merge".  RevertSparesOthers speaks of the other paths.  A
window errs over a revision it never saw only while the source stays where the first poll
found it (`cluster.go:203`); one that moves between two commits older than the merge
passes that test, and the window may end as a stall with nothing pending, which the
comments at 198 and 257 exclude (`Blind` is this in MergeAndRepair, and
MergeAndRepairBlindStall what the run makes of it).  When the commit of a
revert lands but its answer is lost, the pull request is told that the merge is still
deployed (`repair.go:710`); the run stops and asks for a person either way.  The
doubt that WorkloadHealthStuck shows is also what the test of a scale-up with no
revision change asks for (`health_test.go`), so a bound on it has to come from the age
of the pods.

*Gate and queue.*  The HeadSHA of an attempt, "the commit the assessment was made
against" (`model.go:343`), is the head at discovery and not the one the agent read; the
pin of the merge keeps the difference from being merged (`MergesWhatWasRead`).  A
numeric identifier of a suffix too long for an int is compared as text (`parser.go:346`,
against "numeric identifiers compare numerically" at 313): 9 < 10 < 20250131123456123456
< 9 is no order, and of three release candidates so numbered the run may close the
newest. NoUpdateIsLost says what remains then, and what holds where numbers fit.  A
superseded pull request is closed although what replaces it may have been merged and
reverted by then (`run.go:201`).

*Records.*  A run whose row cannot be written goes on with a warning (`run.go:158`),
and all its attempts are refused by the foreign key.  After a torn last line the next
run's first event is appended to that line.

*Changelog.*  A listing is cut in order of publication: a release of the range
published before the one the range starts at is hidden without a trace
(`changelog.go:338`).  A
project that prefixes every tag is "not found" by its plain versions.  A codename
below the last selected release leaves no hole.

*Terminal.*  The stream keeps a line for the scrubber by a list of names of its own
(`error.go:97`), which lacks `pass` and `*.key` of the rules (`scrub.go:64`, 74): after
such a name and a blank the name alone is let go, and the value that follows is shown,
though 83 says that the stream "keeps a credential-looking line until ScrubSecrets can
see its complete value".  A line that ends in a credential name is scrubbed and let go
when it ends (158), before the value below it is there, which the rules redact in one
piece (`scrub.go:83-101`); 87 says that the two are indistinguishable.  TurnIsShownAsSaid
promises the same reading where every value stands after a name the stream knows, on its
line.  `display.Safe` turns newlines into blanks, so a delta's flush at a
newline never happens.  A line typed between the discarding of type-ahead and the
printing of the prompt still answers it (`approver.go:98`), and type-ahead discarded
in the middle of a line leaves its tail.

*Fix.*  Two sections for one path are refused by CreateCommit (`commits.go:38`).
Removing the only line of a file leaves one blank line.

## Fairness

WorkloadHealth, Changelog and the repair of AttendedRun state none: their properties are
about what is said, not that it ends.  Every other specification assumes weak fairness of the program's own
steps taken together and nothing of the world; in Terminal, of the two steps that
end a turn and of each animation that has been told to stop.  The code justifies it:
the loop is one goroutine, every read and write runs under a transport timeout
(`composition.go:127` for the model's) or a context with a deadline, sleeping is a
timer, the agent's turns are bounded, and a prompt that is not answered is the
operator's choice: where the operator can go on for ever (asking to wait,
`AttemptEnds`; answering, `GateDecides`) the property says so.

## Proofs

TLAPS proves the following for every value of the constants that satisfies the named
assumption of the module.  Each proof module has an inductive invariant `IInv`,
`Invariance == Spec => []IInv`, and derives the properties from it (for Terminal
`InputInv` and `TerminalInv`, for Fix `BoundInv` with `AppliedSoFar`); no property is
inductive by itself.

| module | theorem | property | assumes besides |
|---|---|---|---|
| MergeAndRepairProofs | TypeCorrect | TypeOK | |
| | Explained | NothingUnexplained | |
| | WithinBudget | FixBudget | |
| | SecondWindow | StallGetsSecondWindow | |
| | LabelTrusted | LabelMeansReverted | |
| | HealthObserved | HealthyWasObserved | |
| | CompleteRevert | RevertIsComplete | no fix lands unnoticed (`"fix" \notin LostAnswers`) |
| | OthersSpared | RevertSparesOthers | |
| GateProofs | TypeCorrect, MergedWasRead, HoldsAreHeeded, HardHoldsEndIt, AttemptsAreOnRecord, DiffsLandInPlace | TypeOK, MergesWhatWasRead, NoHoldIsMerged, HardHoldsAreFinal, EveryAttemptIsOnRecord, DiffsLandWhereProposed | |
| | WholeAnswers, PromptLast | AnswersAreWhole, PromptStandsLast | |
| | ShownOnce | ScreenShowsTheText | |
| | ShownAsSaid | TurnIsShownAsSaid | |
| | ReadWholeOrNotAtAll, NotAGuess, StaysInBounds | NoChangeIsLost, FixIsNotAGuess, FixStaysInBounds | |
| | AttendedRunIsSafe | those nine invariants and DiffsLandWhereProposed, of the three parts composed | |
| WorkloadHealthProofs | TypeCorrect, DoubtEnds, BlameFounded, NamedStays | TypeOK, DoubtRunsOut, BlameIsFounded, NamedStaysNamed | |
| ClusterWatchProofs | TypeCorrect, PassIsEarned, FailIsEarned, PastIsNotBlamed, ContractIsKept, GraceIsBounded, ErrorIsEarned | TypeOK, PassHeldThroughout, FailPersisted, NeverBlamesThePast, KeepsContract, NoStallInAHold and GraceIsOneHold, ErrorMeansUnmoved | |
| ForgeClientProofs | Absorbed, NeverReplayed, ClientKeepsPromise, EveryEntryIsPaidFor | BlipsAreAbsorbed, NoReplay, KeepsPromise, ListingIsPaidFor | |
| RunLoopProofs | TypeCorrect, EveryCandidateIsAccountedFor, NoUpdateIsLostToAClose, TheFileHasNoHole, TheStreamIsTheRecord, HistoryIsComplete, UnfinishedRunsDied, DryRunIsDry | TypeOK, QueueIsAccountedFor, NoUpdateIsLost, FileHasNoHole, StreamIsTheRecord, HistoryMissesOnlyFaults, UnfinishedMeansDied, DryRunWritesNothing | |
| AgentProofs | IdentifierIsUnknown, ForgeryIsCharged, ConclusionWasSent | FencedUnderOneIdentifier, ForgeryIsChargedToItsRequest, ConclusionIsAsSent | |
| ChangelogProofs | NotesAreComplete, NotFoundIsTrue, NothingUnboundedIsUnheld | UnheldIsInformed, SilenceIsEarned, UnheldIsBounded | |

*MergeAndRepairProofs*, for every set of paths and objects, every budget and every
number of pushes.  `IInv` adds, by step of the attempt: what has happened to the branch
(`PhaseInv`: what has not merged has written nothing), how it can have ended (`Concluded`:
an error over a merged pull request means that the call gave no answer); what
verdict, halt and label say by then (`VerdictInv`); that a fix on its way has room in
the budget (`BudgetInv`); that the paths of the merge and the recorded fixes are all
that was written (`WrittenInv`); that what is judged is named (`NamedInv`); and that
grace is only taken with another window (`GraceInv`).  The step is proved conjunct by
conjunct and action by action.

*GateProofs*, for every budget and any number of pushes.  Every commit is a push or a
charged diff (`Commits`); what was read was read between the pin and now
(`ReadInOrder`: a head that still equals the pin is then the head of every read); what
the last assessment settled and until when (`HoldsKept`); an undecided attempt has
every diff on record (`OnRecord`).

*Terminal*, in GateProofs, for any session, any secrets, any pieces and any failing
reads.  An answer: between answers the input stands at the beginning of a line, or the
terminal knows that it does not (`AtALine`), and what is weighed is one whole line typed
for its question (`Answered`).  The screen: what stands on the line and what is pending
are the text of the turn, named once (`OnTheLine`); when the turn is over its text stands
above, at the beginning, and nothing below it names another (`StandsAbove`); an animation
that still runs is that of the turn, or of one being stopped (`ThreadInv`), so none is
left to write over a prompt.  The text: escapes are removed, runes are put together and
secrets withheld piece by piece, and the result has to be what the same filters make of
the whole.  Each filter is a loop over text, a recursive function in the model; a lemma
each (`StripTwo`, `PartialTwo`, `ValuesTwo`, `RedactTwo`) says what the filter makes of
two pieces from what it makes of either, by the least counterexample (`Upwards`).
`Streaming` composes them: what has been shown and what is withheld are the filtered
text, and what is withheld is where a secret could still begin.  This is where the
premise of the property is needed: two values that overlap are withheld too short, and
what is scrubbed part by part (`Seams`) is what is scrubbed as a whole only if no value
stands across a seam from its name.

*Fix*, in GateProofs, for any diffs, allowlists and files.  `StaysInBounds`: whatever
the backtracking accepts can be cut into the stretches of the entry, since every round
keeps the cut so far, and the one up to the last wildcard (`MatchedSoFar`), once for the
characters of a segment and, with that, for the segments of a path; all sections are admitted before any is probed, and all probed before
any is applied (`LookedAt`).  `ReadWholeOrNotAtAll`: after each line the sections and the
open hunk hold exactly the changes of the lines in hunks so far, or the diff is refused
in the end (`KeptSoFar`), by what each kind of line does (`BodyReads`, `OuterReads`).
`NotAGuess`: given a reading, the file with the first k hunks replaced differs
from the one with k + 1 only by that hunk (`OneHunkMore`), which therefore fits
where the reading has it; the code found one place only, so it is that one
(`GoesWhereItIsRead`).  What is committed has been made of each section once and against
the head (`AppliedSoFar`), and a path occurs once.

*AttendedRun*, in GateProofs.  Every step is one of the gate, of the terminal or of the
repair and leaves the other two alone (`GateMoves`, `TerminalMoves`, `FixMoves`), so what
is inductive for each part by itself stays so; an attempt that starts decided is one the
gate could have left (`DecidedIsAccountedFor`); and a proposal that is picked at the last
moment is as if it had been made from the beginning.

*WorkloadHealthProofs*, for any number of workloads and pods, any grace, deadline and
slowness of a poll.  What a poll listed is current for whatever has not moved since
(`ListedIsCurrent`); what moved did so within this poll (`MovedLately`); a pod is at
least as old as its workload has been quiet (`AgesKeepUp`), and hence only what moved
within the grace is thought to be delivering pods (`DeliveringLately`);
`DeadlineKept` and `NotDelivering` are the same for a Deployment's deadline and for
the pods a judgement was made of, and `NamedIsBroken` carries a judgement to the next
poll.

*ClusterWatchProofs*, for any objects, any world and any settle, hold and poll times.
Between polls the hold the loop counts began where the calm on record did
(`HoldIsCounted`); what persistent() remembers is what was seen failing, from when it
was, until the source is past the merge (`FailuresAreCounted`); the clock is within the
budget and one hold (`TimeIsCounted`); and a verdict, once given, says what the
properties say of it (`VerdictIsKept`).

*ForgeClientProofs*, for any listing, any number of tries, delays and deadlines.  The
forge is in a possible state (`ForgeOK`); at most one request of a merge is on the wire
or abandoned (`OneAtATime`); PUTs and tries are within their limits (`PutsCounted`,
`TriesCounted`).  `ClientKeepsPromise` is the refinement: initial states map
to initial states, and every step to a step of MergeCall or to a stutter.  The listing
has a ledger of its own (`WalkCounted`): of those that stayed open, the walk has passed
without meeting them no more than were closed, and what it has met twice, or has met and
may meet again further down, is no more than was opened.  A close moves what is behind
it up by one, so at most one entry crosses the boundary of the pages read; an opening
moves all of them down by one.

*RunLoopProofs*, for any queue, any endings the contract allows and any number of
failing writes, with an interrupt and a crash anywhere.  There is an attempt for each
place of the queue before the present one (`Counted`), what was set aside was skipped
(`SetAside`), what became of a pull request is what its attempt says
(`StatusIsTheEnding`), events tell of just that (`Tells`), and the rows of the history
with the failed writes cover the attempts (`Remembered`).  In a file without a hole the
events read are a prefix; `PrefixOfMore` and `EmitKeepsTheFile` carry it over a write.
NoUpdateIsLost rests on what supersession means of a queue: the order of versions is
decided at the first place where two of them differ, whence it is total and transitive
as long as the numbers fit an int; the newest of a line, a recursive function, exists,
is of the line and is displaced by none of it (by the least counterexample, induction
being out of reach); it is not superseded itself, so the run leaves it open or decides
on it (`SupersededHasARival`).

*AgentProofs*, for any jobs and replies, any number of requests and turns.  Nothing in
a conversation knows the identifier its fences are closed with (`Unknowing`): what the
model or a page can say was published before, and the identifier is new.  The latch and
what was found before asking stand for what was met (`Charged`); what has been merged of
a stream is, at its index, a beginning of what was sent (`Merging`); a whole reply is
served as it was sent, call by call, with every result behind the reply (`InOrder`).

*ChangelogProofs*, for any releases, updates, attributions and page budget.  The order
of the changelog is a total preorder, numbers beyond an int included (`RangeIsOrdered`,
by the same first place that decides).  From that follows what each outcome of a lookup
means: `RangeIsServed` (the releases of the range the listing shows are those selected),
`CutIsBelow` (a listing that accounts for the range misses only what was published
before its start), `TargetIsInformed` (a build stamped onto the target is served unless
something served reaches the target), `NothingLiesBetween` (a hole is noticed) and
`NothingWasMissed` (a lookup that finds nothing saw nothing).  `ClassBoundsTheUpdate` is
the arithmetic of classes: no declared type excuses a major, a downgrade or an
unreadable pair.  The invariant ties the resolution to it: a changelog of our upstream
is what its lookup returned (`Served`), silence means that the lookup found it missing
(`Silent`), so no weaker second answer replaced a stronger one.

What the assumptions say besides the types of constants: that a Link header that is
wrong names some page (`LinkFaults`; one that is missing ends the walk, so a forge that
drops it cuts the listing, and the code cannot tell that from the end); that the forge
publishes and Renovate proposes references as the parsers leave them
(`ChangelogAssumption`, `CandidateAssumption`); that retries wait for natural times;
that a configured value is not empty (`SecretsOK`; the code drops empty ones) and that
what is typed at a keyboard is no script (`SessionsOK`).  `NamesOK` and `ProposalsOK`
are types.
None of them restricts how often or in which order anything happens.

Only model-checked: all liveness (WindowEnds, AttemptEnds, GateDecides, StreamReturns,
RequestEnds: TLAPS 1.4 has no fairness or ENABLED), the runs that find a violation, and
RefusedForAReason, which needs that a loop that gives up has left no cut untried.  Every
invariant and every other action property of a passing run is the statement of a theorem.
HardHoldsAreFinal, BlipsAreAbsorbed, UnheldIsBounded and a few more are theorems only.

## Not modelled

Wording, layout, logging and scrubbing of text other than a stream (`report`, most of
`display` and `diagnostics`); wire protocols (`oci`, `httpfetch`, the transports of
`flux` and Kubernetes, git under `checkout`); parsing of a pull request's table and
notes (`renovate/parser.go`) and of manifests; flag parsing and wiring (`cli`,
`composition`, `config` except what validateWatch and AllowsFixPath say); of the GitHub
adapter its tokens, repository metadata and rate limit headers other than Retry-After;
the patterns of ListRepoFiles.  These are I/O, or functions from text to text whose
cases are their specification.

## Plan

1. *done*: windows, merge and repair, gate, queue and loop, with their contracts.
2. *done*: versions, bump classes and digests, under the queue and the changelog.
3. *done*: history rows and the event file with failing writes and a crash.
4. *done*: the forge client with its retries, refined to the merge the run relies on.
5. *done*: Kubernetes health.
6. *done*: the operator's terminal, the agent's conversation, the patch engine and the
   rules of a fix.
7. *done*: theorems for windows, workload health, merge and repair, the gate, the forge
   client with its listing, the run loop with its queue, the agent, the changelog, the
   terminal and the fix.
8. Left: the tables and notes of a pull request; the registry lookups of `oci`; the
   rules of `config` other than the two used here.
