---------------------------- MODULE ClusterWatch ----------------------------
(***************************************************************************)
(* internal/cluster/cluster.go: one window over the cluster, either Watch  *)
(* (has this revision been fetched, and did the cluster stay well?) or     *)
(* Restored (did these objects recover?).  A window is a polling loop; the *)
(* cluster, the Flux source and the clock move between any two of its      *)
(* reads, because a snapshot is two list calls and the revision a third.   *)
(***************************************************************************)
EXTENDS Integers, HealthSnapshot, WindowContract

CONSTANTS
  FluxObjects,    \* objects listed by the Flux reader
  Workloads,      \* objects listed by the Kubernetes reader
  SettleTimeout,  \* watch.settleTimeout
  StabilityHold,  \* watch.stabilityHold
  PollInterval,   \* watch.pollInterval
  Worlds          \* bound: what may happen around one window, see World

(* internal/config/validate.go, validateWatch. *)
ASSUME WindowAssumption ==
  /\ SettleTimeout \in Nat /\ StabilityHold \in Nat /\ PollInterval \in Nat
  /\ PollInterval > 0 /\ 2 * PollInterval <= StabilityHold
  /\ StabilityHold <= SettleTimeout

Objects == FluxObjects \cup Workloads

(* A bounded world: the pre-merge snapshot, the objects that move, how many *)
(* changes they and the source make, how many time units the reads may take *)
(* in all, and whether reads may fail and the context may be cancelled.     *)
World == [before : Snapshots(Objects), moving : SUBSET Objects,
          changes : Nat, delays : Nat, faulty : BOOLEAN]

ASSUME WorldAssumption == \A w \in Worlds : w \in World

Unset == -1                 \* the zero time.Time, and a source not yet seen
Any == 0                    \* the empty revision: fetched() asks nothing
Before == 1                 \* the branch head the merge landed on
Merge == 2                  \* the revision a Watch waits for
Descendant == 3             \* a later commit, which carries the merge
Older == 4                  \* a source that lagged behind even Before
Sources == {Before, Merge, Descendant, Older}

VARIABLES
  bounds, cluster, source, now, changes, delays,   \* the world
  kind, want, baseline, broken,               \* the window's arguments
  pc, deadline, readStarted, revision, fluxRead, snapshot,
  firstSource, stableSince, failingSince, outcome,
  calmFrom, failedFrom                        \* observation ghosts, see below

world == <<bounds, cluster, source, now, changes, delays>>
arguments == <<kind, want, baseline, broken>>
reading == <<readStarted, revision, fluxRead, snapshot>>
judging == <<deadline, firstSource, stableSince, failingSince>>
ghosts == <<calmFrom, failedFrom>>
vars == <<world, arguments, pc, reading, judging, outcome, ghosts>>

TypeOK ==
  /\ cluster \in Snapshots(Objects)
  /\ source \in Sources
  /\ bounds \in Worlds /\ now \in Nat
  /\ changes \in 0..bounds.changes /\ delays \in 0..bounds.delays
  /\ kind \in {"watch", "restored"} /\ want \in {Any, Merge}
  /\ baseline \in Snapshots(Objects) /\ broken \in SUBSET Objects
  /\ pc \in {"revision", "flux", "workloads", "judge", "sleep", "done"}
  /\ deadline \in Nat /\ readStarted \in Nat
  /\ revision \in Sources \cup {Unset, Any}
  /\ fluxRead \in Snapshots(FluxObjects) /\ snapshot \in Snapshots(Objects)
  /\ firstSource \in Sources \cup {Unset, Any}
  /\ stableSince \in Nat \cup {Unset}
  /\ DOMAIN failingSince \subseteq Objects
  /\ \A o \in DOMAIN failingSince : failingSince[o] \in Nat
  /\ outcome \in Windows(Objects)
  /\ calmFrom \in Nat \cup {Unset}
  /\ failedFrom \in [Objects -> Nat \cup {Unset}]

Restriction(snap, os) == [o \in DOMAIN snap \cap os |-> snap[o]]

Init ==
  /\ bounds \in Worlds /\ baseline = bounds.before
  /\ cluster = baseline
  /\ source \in {Before, Merge, Older}
  /\ \/ kind = "watch" /\ want = Merge /\ broken = {}
     \/ kind = "watch" /\ want = Any /\ broken = {}     \* Restored over nothing
     \/ kind = "restored" /\ want = Any /\ broken \in (SUBSET bounds.moving) \ {{}}
  /\ now = 0 /\ changes = 0 /\ delays = 0
  /\ pc = IF kind = "watch" THEN "revision" ELSE "flux"
  /\ deadline = SettleTimeout /\ readStarted = 0
  /\ revision = Unset /\ fluxRead = <<>> /\ snapshot = <<>>
  /\ firstSource = Unset /\ stableSince = Unset /\ failingSince = <<>>
  /\ outcome = NoWindow
  /\ calmFrom = Unset /\ failedFrom = [o \in Objects |-> Unset]

-----------------------------------------------------------------------------
(* The world.  It moves while a window is open. *)

(* A workload or Flux object changes health, appears or vanishes. *)
ClusterChanges ==
  /\ pc # "done" /\ changes < bounds.changes
  /\ \E o \in bounds.moving :
       \/ \E h \in Health :
            cluster' = [p \in DOMAIN cluster \cup {o} |->
                          IF p = o THEN h ELSE cluster[p]]
       \/ cluster' = Restriction(cluster, Objects \ {o})
  /\ cluster' # cluster
  /\ changes' = changes + 1
  /\ UNCHANGED <<bounds, source, now, delays, arguments, pc, reading, judging,
                 outcome, ghosts>>

(* Flux fetches: the source moves forward along the base branch. *)
SourceMoves ==
  /\ pc # "done" /\ changes < bounds.changes
  /\ source' \in CASE source = Older -> {Before, Merge, Descendant}
                   [] source = Before -> {Merge, Descendant}
                   [] source = Merge -> {Descendant}
                   [] source = Descendant -> {}
  /\ changes' = changes + 1
  /\ UNCHANGED <<bounds, cluster, now, delays, arguments, pc, reading, judging,
                 outcome, ghosts>>

(* A read takes time: a throttled apiserver holds the poll up. *)
ReadIsSlow ==
  /\ pc \in {"revision", "flux", "workloads"} /\ delays < bounds.delays
  /\ now' = now + 1 /\ delays' = delays + 1
  /\ UNCHANGED <<bounds, cluster, source, changes, arguments, pc, reading, judging,
                 outcome, ghosts>>

-----------------------------------------------------------------------------
(* One poll: read the revision, then the two halves of the snapshot. *)

Return(window) ==
  /\ pc' = "done"
  /\ outcome' = window

(* fetched(): an empty revision is not read at all. *)
ReadRevision ==
  /\ pc = "revision"
  /\ revision' = IF want = Any THEN Any ELSE source
  /\ firstSource' = IF firstSource = Unset THEN revision' ELSE firstSource
  /\ pc' = "flux"
  /\ UNCHANGED <<world, arguments, readStarted, fluxRead, snapshot, deadline,
                 stableSince, failingSince, outcome, ghosts>>

ReadFlux ==
  /\ pc = "flux"
  /\ fluxRead' = Restriction(cluster, FluxObjects)
  /\ pc' = "workloads"
  /\ UNCHANGED <<world, arguments, readStarted, revision, snapshot, judging,
                 outcome, ghosts>>

(* sameRevision, and the fetched flag Watch takes from it. *)
FetchedBy(rev) == want = Any \/ rev = want

(* The ghosts record what the polls so far saw, by their own reckoning: the *)
(* time of the first poll of the present run of polls that found nothing    *)
(* wrong, and, per object, of the present run that found it failing.        *)
Observe(snap) ==
  LET fetched == FetchedBy(revision)
      failing == IF kind = "watch"
                   THEN IF fetched THEN NewFailures(snap, baseline) ELSE {}
                   ELSE StillBroken(snap, broken)
      calm == IF kind = "watch"
                THEN fetched /\ SettledSince(snap, baseline) /\ failing = {}
                ELSE failing = {}
  IN  /\ calmFrom' = IF ~calm THEN Unset
                     ELSE IF calmFrom = Unset THEN now ELSE calmFrom
      /\ failedFrom' = [o \in Objects |->
                          IF o \notin failing THEN Unset
                          ELSE IF failedFrom[o] = Unset THEN now
                          ELSE failedFrom[o]]

ReadWorkloads ==
  /\ pc = "workloads"
  /\ LET flux == fluxRead
         workloads == Restriction(cluster, Workloads)
         whole == [o \in DOMAIN flux \cup DOMAIN workloads |->
                     IF o \in DOMAIN workloads THEN workloads[o] ELSE flux[o]]
     IN  /\ snapshot' = whole
         /\ Observe(whole)
  /\ deadline' = IF kind = "restored" THEN deadline + (now - readStarted)
                                      ELSE deadline
  /\ fluxRead' = <<>>                            \* locals of one poll end
  /\ pc' = "judge"
  /\ UNCHANGED <<world, arguments, readStarted, revision, firstSource,
                 stableSince, failingSince, outcome>>

(* Any of the reads may fail, which ends the window with an error. *)
ReadFails ==
  /\ bounds.faulty /\ pc \in {"revision", "flux", "workloads"}
  /\ pc = "revision" => want # Any
  /\ Return(Unreadable)
  /\ UNCHANGED <<world, arguments, reading, judging, ghosts>>

-----------------------------------------------------------------------------
(* Judging a poll.  persistent() keeps the first-seen time of each failure *)
(* and forgets what recovered; it runs only while the revision is fetched. *)

Fetched == FetchedBy(revision)
Failures == NewFailures(snapshot, baseline)

(* Mutant of FirstSeen: an object that recovered is not forgotten. *)
MutFirstSeenNeverForgets ==
  [o \in Failures \cup DOMAIN failingSince |->
     IF o \in DOMAIN failingSince THEN failingSince[o] ELSE now]

FirstSeen ==
  [o \in Failures |-> IF o \in DOMAIN failingSince THEN failingSince[o]
                                                   ELSE now]

Confirmed == {o \in Failures : now - FirstSeen[o] >= StabilityHold}
Unconfirmed == IF Fetched THEN Failures \ Confirmed ELSE {}

(* The condition each kind of window has to hold for StabilityHold. *)
Steady ==
  IF kind = "watch"
    THEN Fetched /\ SettledSince(snapshot, baseline) /\ Unconfirmed = {}
    ELSE StillBroken(snapshot, broken) = {}

(* Mutant of StableSince: unsettling does not reset the hold. *)
MutStableSinceSticky ==
  IF stableSince # Unset THEN stableSince ELSE IF Steady THEN now ELSE Unset

StableSince ==
  IF ~Steady THEN Unset ELSE IF stableSince = Unset THEN now ELSE stableSince

Fails == kind = "watch" /\ Fetched /\ Confirmed # {}
Passes == Steady /\ stableSince # Unset /\ now - stableSince >= StabilityHold

(* Mutant of Limit: a hold under way gets no grace at all. *)
MutLimitWithoutGrace == deadline

Limit == IF StableSince = Unset THEN deadline ELSE StableSince + StabilityHold
Expired == now >= Limit

Judged ==
  /\ pc = "judge"
  /\ failingSince' = IF kind = "watch" /\ Fetched THEN FirstSeen
                                                  ELSE failingSince
  /\ UNCHANGED <<world, arguments, reading, deadline, firstSource, ghosts>>

WindowFails ==
  /\ Judged /\ Fails
  /\ Return(Window("fail", Confirmed))
  /\ UNCHANGED stableSince

WindowPasses ==
  /\ Judged /\ ~Fails /\ Passes
  /\ Return(Window("pass", {}))
  /\ UNCHANGED stableSince

(* Out of time without the revision, on a source that never moved. *)
NeverFetched ==
  /\ Judged /\ ~Fails /\ ~Passes /\ Expired
  /\ kind = "watch" /\ ~Fetched /\ revision = firstSource
  /\ Return(Unreadable)
  /\ stableSince' = StableSince

(* Out of time otherwise.  Restored reports this one as an error beside the *)
(* outcome, which run.settle reads as an answer.                            *)
WindowStalls ==
  /\ Judged /\ ~Fails /\ ~Passes /\ Expired
  /\ ~(kind = "watch" /\ ~Fetched /\ revision = firstSource)
  /\ Return(Window("stalled",
              IF kind = "watch"
                THEN NewlyReconciling(snapshot, baseline) \cup Unconfirmed
                ELSE StillBroken(snapshot, broken)))
  /\ stableSince' = StableSince

PollAgain ==
  /\ Judged /\ ~Fails /\ ~Passes /\ ~Expired
  /\ stableSince' = StableSince
  /\ pc' = "sleep"
  /\ UNCHANGED outcome

(* Mutant of Sleep: the polls spin on a clock that was read once. *)
MutSleepSpins ==
  /\ pc = "sleep"
  /\ pc' = IF kind = "watch" THEN "revision" ELSE "flux"
  /\ revision' = Unset /\ snapshot' = <<>>
  /\ UNCHANGED <<world, arguments, fluxRead, readStarted, judging, outcome,
                 ghosts>>

(* options.Sleep between polls. *)
Sleep ==
  /\ pc = "sleep"
  /\ now' = now + PollInterval
  /\ readStarted' = now'
  /\ pc' = IF kind = "watch" THEN "revision" ELSE "flux"
  /\ revision' = Unset /\ snapshot' = <<>>       \* locals of one poll end
  /\ UNCHANGED <<bounds, cluster, source, changes, delays, arguments, fluxRead,
                 judging, outcome, ghosts>>

(* The context is cancelled during the sleep. *)
SleepCancelled ==
  /\ bounds.faulty /\ pc = "sleep"
  /\ Return(Unreadable)
  /\ UNCHANGED <<world, arguments, reading, judging, ghosts>>

Finished == pc = "done" /\ UNCHANGED vars

Poll == ReadRevision \/ ReadFlux \/ ReadWorkloads
Judge == WindowFails \/ WindowPasses \/ NeverFetched \/ WindowStalls \/ PollAgain
Environment == ClusterChanges \/ SourceMoves \/ ReadIsSlow

Next ==
  \/ Poll \/ ReadFails
  \/ Judge
  \/ Sleep \/ SleepCancelled
  \/ Environment
  \/ Finished

(* The loop runs on one goroutine that is never blocked but in Sleep, whose *)
(* timer fires, and in reads, which a transport timeout ends.               *)
Spec == Init /\ [][Next]_vars /\ WF_vars(Poll \/ Judge \/ Sleep)

-----------------------------------------------------------------------------
(* A pass is only reported once every poll for at least the stability hold *)
(* found the revision fetched (a watch), nothing the merge answers for     *)
(* still reconciling, and no new failure: Watch's contract, Restored's too.*)
PassHeldThroughout ==
  outcome.result = "pass" =>
    calmFrom # Unset /\ now - calmFrom >= StabilityHold

(* A failure is only reported for objects that every poll for the hold saw *)
(* failing after the fetch; one good poll in between restarts the count    *)
(* (persistent forgets whatever recovered).                                *)
FailPersisted ==
  outcome.result = "fail" =>
    \A o \in outcome.objects :
      failedFrom[o] # Unset /\ now - failedFrom[o] >= StabilityHold

(* No window that judges a merge names an object that was unhealthy or in  *)
(* flight before it: pre-existing breakage is invisible.                   *)
NeverBlamesThePast ==
  kind = "watch" => \A o \in outcome.objects : Attributable(baseline, o)

(* A hold under way is given the rest of itself: no window stalls while    *)
(* its latest poll found everything well.                                  *)
NoStallInAHold == outcome.result = "stalled" => calmFrom = Unset

(* The grace is bounded by a single hold: past its settle budget a window  *)
(* lasts at most that hold, the poll that began it and the one that ends   *)
(* it, plus what its reads took.                                           *)
GraceIsOneHold ==
  now <= SettleTimeout + StabilityHold + 2 * PollInterval + delays

(* The window keeps the promise the run is built on (WindowContract).      *)
KeepsContract ==
  pc = "done" =>
    outcome \in IF kind = "watch"
                  THEN WatchReturns(Objects, IF want = Any THEN {} ELSE {"stalled"})
                  ELSE RestoredReturns(Objects, broken)

(* Only a watch whose source never moved is answered with an error when no *)
(* read fails: the message says the merge was never applied.               *)
ErrorMeansUnmoved ==
  ~bounds.faulty /\ outcome = Unreadable =>
    want = Merge /\ revision = firstSource /\ revision # Merge

(* Every window ends. *)
WindowEnds == <>(pc = "done")
=============================================================================
