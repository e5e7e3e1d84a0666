------------------------- MODULE ClusterWatchProofs -------------------------
(***************************************************************************)
(* What a window over the cluster promises, for every set of objects, every *)
(* settle timeout, hold and poll interval the configuration allows, and    *)
(* every world that moves around it: a verdict is only given on what a     *)
(* whole hold of polls saw, and the window ends as WindowContract says.    *)
(***************************************************************************)
EXTENDS ClusterWatch, TLAPS

(* Which arguments a window is opened with, and where it may stand.        *)
ArgumentsOK ==
  /\ kind = "restored" => want = Any /\ broken # {}
  /\ pc = "revision" => kind = "watch"
  /\ pc # "done" => outcome = NoWindow

(* What the ghost calls a calm poll, in the words of the judgement.        *)
CalmPoll ==
  IF kind = "watch"
    THEN Fetched /\ SettledSince(snapshot, baseline) /\ Failures = {}
    ELSE StillBroken(snapshot, broken) = {}

(* The hold is counted from the first calm poll: what the loop remembers   *)
(* between two polls is what was observed.                                 *)
HoldIsCounted ==
  /\ pc \notin {"judge", "done"} => calmFrom = stableSince
  /\ pc = "judge" =>
       calmFrom = IF ~CalmPoll THEN Unset
                  ELSE IF stableSince = Unset THEN now ELSE stableSince

Remembered(o) == IF o \in DOMAIN failingSince THEN failingSince[o] ELSE Unset

(* The source went past the merge: this window will not see it fetched.    *)
MergeIsPast ==
  /\ want = Merge /\ source = Descendant
  /\ pc \in {"flux", "workloads", "judge"} => revision = Descendant

(* What a poll reads of the source, the source may only have gone past.    *)
ReadBehind ==
  /\ revision = Merge => source \in {Merge, Descendant}
  /\ revision = Descendant => source = Descendant

(* Nothing is remembered before the merge was fetched, and what is, until  *)
(* the source moves past it, is what was observed.                         *)
FailuresAreCounted ==
  /\ kind = "watch" /\ pc \notin {"judge", "done"} =>
       MergeIsPast \/ \A o \in Objects : failedFrom[o] = Remembered(o)
  /\ kind = "watch" /\ pc = "judge" =>
       IF Fetched
         THEN \A o \in Objects :
                failedFrom[o] = IF o \in Failures THEN FirstSeen[o] ELSE Unset
         ELSE /\ \A o \in Objects : failedFrom[o] = Unset
              /\ MergeIsPast \/ DOMAIN failingSince = {}
  /\ DOMAIN failingSince # {} /\ want = Merge =>
       /\ source \in {Merge, Descendant}
       /\ pc \in {"flux", "workloads", "judge"} => revision \in {Merge, Descendant}
  /\ pc \in {"flux", "workloads", "judge"} => ReadBehind

(* How far the clock may have come, by how much the reads delayed it.      *)
TimeIsCounted ==
  /\ readStarted <= now
  /\ pc \in {"revision", "flux", "workloads"} =>
       deadline + (now - readStarted) <= SettleTimeout + delays
  /\ deadline <= SettleTimeout + delays
  /\ stableSince # Unset => stableSince <= SettleTimeout + PollInterval + delays
  /\ pc = "sleep" => now < IF stableSince = Unset THEN deadline
                           ELSE stableSince + StabilityHold
  /\ stableSince = Unset /\ pc # "done" => now <= SettleTimeout + PollInterval + delays
  /\ GraceIsOneHold

(* What a window that ended may claim.                                     *)
VerdictIsKept ==
  /\ PassHeldThroughout /\ FailPersisted /\ NeverBlamesThePast
  /\ NoStallInAHold /\ KeepsContract /\ ErrorMeansUnmoved

IInv == TypeOK /\ ArgumentsOK /\ HoldIsCounted /\ FailuresAreCounted
          /\ TimeIsCounted /\ VerdictIsKept

USE WindowAssumption DEF Unset, Any, Before, Merge, Descendant, Older, Sources

-----------------------------------------------------------------------------
(* Snapshots.                                                              *)

(* A snapshot is a reading of some of the objects.                         *)
LEMMA SnapshotIsPartial ==
  ASSUME NEW objects, NEW s \in Snapshots(objects)
  PROVE  /\ DOMAIN s \subseteq objects /\ s \in [DOMAIN s -> Health]
BY DEF Snapshots

(* ... and every such reading is one.                                      *)
LEMMA PartialIsSnapshot ==
  ASSUME NEW objects, NEW present, present \subseteq objects,
         NEW s \in [present -> Health]
  PROVE  s \in Snapshots(objects)
BY DEF Snapshots

(* Nothing read is a snapshot, too.                                        *)
LEMMA EmptyIsSnapshot ==
  ASSUME NEW objects
  PROVE  <<>> \in Snapshots(objects)
<1>1. <<>> \in [{} -> Health]
  OBVIOUS
<1> QED BY <1>1, PartialIsSnapshot

(* Part of a snapshot is a snapshot of that part.                          *)
LEMMA RestrictionIsSnapshot ==
  ASSUME NEW all, NEW s \in Snapshots(all), NEW os
  PROVE  Restriction(s, os) \in Snapshots(os)
<1>1. Restriction(s, os) \in [DOMAIN s \cap os -> Health]
  BY SnapshotIsPartial DEF Restriction
<1> QED BY <1>1, PartialIsSnapshot

(* What fails anew, or is named, is read from the two snapshots only.      *)
LEMMA NamesAreObjects ==
  ASSUME NEW s \in Snapshots(Objects), NEW b \in Snapshots(Objects)
  PROVE  /\ NewFailures(s, b) \subseteq Objects
         /\ NewlyReconciling(s, b) \subseteq Objects
BY SnapshotIsPartial DEF NewFailures, NewlyReconciling

-----------------------------------------------------------------------------
(* Types.                                                                  *)

(* Every world begins within its bounds.                                   *)
LEMMA InitType == Init => TypeOK
<1> SUFFICES ASSUME Init PROVE TypeOK
  OBVIOUS
<1>1. bounds \in World
  BY WorldAssumption DEF Init
<1>2. bounds.before \in Snapshots(Objects) /\ bounds.changes \in Nat
      /\ bounds.delays \in Nat /\ bounds.moving \in SUBSET Objects
  BY <1>1 DEF World
<1>3. <<>> \in Snapshots(FluxObjects) /\ <<>> \in Snapshots(Objects)
  BY EmptyIsSnapshot
<1>4. outcome \in Windows(Objects)
  BY DEF Init, NoWindow, Window, Windows
<1>5. /\ DOMAIN failingSince \subseteq Objects
      /\ \A o \in DOMAIN failingSince : failingSince[o] \in Nat
  BY DEF Init
<1>6. broken \in SUBSET Objects
  BY <1>2 DEF Init
<1> QED BY <1>2, <1>3, <1>4, <1>5, <1>6 DEF Init, TypeOK

(* Nobody but the window touches what the window knows.                    *)
LEMMA WindowIsItsOwn ==
  ASSUME Environment, TypeOK
  PROVE  /\ UNCHANGED <<arguments, pc, reading, judging, outcome, ghosts>>
         /\ pc # "done"
         /\ \E k \in Nat : now' = now + k /\ delays' = delays + k
         /\ now' # now => pc \in {"revision", "flux", "workloads"}
         /\ \/ source' = source
            \/ source = Older
            \/ source = Before /\ source' \in {Merge, Descendant}
            \/ source = Merge /\ source' = Descendant
<1>1. now \in Nat /\ delays \in Nat /\ source \in Sources
  BY DEF TypeOK
<1>2. CASE ClusterChanges
  BY <1>1, <1>2 DEF ClusterChanges
<1>3. CASE SourceMoves
  <2>1. UNCHANGED <<arguments, pc, reading, judging, outcome, ghosts, now, delays>>
        /\ pc # "done"
    BY <1>3 DEF SourceMoves
  <2>2. \/ source = Older
        \/ source = Before /\ source' \in {Merge, Descendant}
        \/ source = Merge /\ source' = Descendant
    BY <1>1, <1>3 DEF SourceMoves
  <2> QED BY <1>1, <2>1, <2>2
<1>4. CASE ReadIsSlow
  <2>1. UNCHANGED <<arguments, pc, reading, judging, outcome, ghosts, source>>
        /\ pc \in {"revision", "flux", "workloads"}
    BY <1>4 DEF ReadIsSlow
  <2>2. now' = now + 1 /\ delays' = delays + 1
    BY <1>4 DEF ReadIsSlow
  <2> QED BY <1>1, <2>1, <2>2
<1> QED BY <1>2, <1>3, <1>4 DEF Environment

(* The environment keeps the cluster a snapshot and stays in its bounds.   *)
LEMMA EnvironmentType ==
  ASSUME TypeOK, Environment
  PROVE  /\ cluster' \in Snapshots(Objects) /\ source' \in Sources
         /\ bounds' = bounds /\ changes' \in 0..bounds.changes
         /\ delays' \in 0..bounds.delays
<1>1. bounds \in World
  BY WorldAssumption DEF TypeOK
<1>2. bounds.changes \in Nat /\ bounds.delays \in Nat /\ bounds.moving \in SUBSET Objects
  BY <1>1 DEF World
<1>3. changes \in 0..bounds.changes /\ delays \in 0..bounds.delays /\ source \in Sources
  BY DEF TypeOK
<1>4. cluster \in Snapshots(Objects)
  BY DEF TypeOK
<1>5. CASE ClusterChanges
  <2>1. UNCHANGED <<bounds, source, delays>> /\ changes' = changes + 1
        /\ changes < bounds.changes
    BY <1>5 DEF ClusterChanges
  <2>2. PICK o \in bounds.moving :
          \/ \E h \in Health :
               cluster' = [p \in DOMAIN cluster \cup {o} |->
                             IF p = o THEN h ELSE cluster[p]]
          \/ cluster' = Restriction(cluster, Objects \ {o})
    BY <1>5 DEF ClusterChanges
  <2>3. CASE \E h \in Health :
               cluster' = [p \in DOMAIN cluster \cup {o} |->
                             IF p = o THEN h ELSE cluster[p]]
    <3>1. /\ DOMAIN cluster \cup {o} \subseteq Objects
          /\ cluster' \in [DOMAIN cluster \cup {o} -> Health]
      BY <2>3, <1>4, <1>2, SnapshotIsPartial
    <3>2. cluster' \in Snapshots(Objects)
      BY <3>1, PartialIsSnapshot
    <3> QED BY <3>2, <2>1, <1>2, <1>3
  <2>4. CASE cluster' = Restriction(cluster, Objects \ {o})
    <3>1. cluster' \in Snapshots(Objects \ {o})
      BY <2>4, <1>4, RestrictionIsSnapshot
    <3>2. cluster' \in Snapshots(Objects)
      BY <3>1 DEF Snapshots
    <3> QED BY <3>2, <2>1, <1>2, <1>3
  <2> QED BY <2>2, <2>3, <2>4
<1>6. CASE SourceMoves
  <2>1. UNCHANGED <<bounds, cluster, delays>> /\ changes' = changes + 1
        /\ changes < bounds.changes
    BY <1>6 DEF SourceMoves
  <2>2. source' \in Sources
    BY <1>3, <1>6 DEF SourceMoves
  <2> QED BY <2>1, <2>2, <1>2, <1>3, <1>4
<1>7. CASE ReadIsSlow
  BY <1>2, <1>3, <1>4, <1>7 DEF ReadIsSlow
<1> QED BY <1>5, <1>6, <1>7 DEF Environment

(* A window that returns does so with a result and objects it knows.       *)
LEMMA ReturnType ==
  ASSUME TypeOK, Judge
  PROVE  outcome' \in Windows(Objects)
<1>1. Failures \subseteq Objects /\ NewlyReconciling(snapshot, baseline) \subseteq Objects
  BY NamesAreObjects DEF TypeOK, Failures
<1>2. Confirmed \subseteq Objects /\ Unconfirmed \subseteq Objects
  BY <1>1 DEF Confirmed, Unconfirmed
<1>3. StillBroken(snapshot, broken) \subseteq Objects
  BY DEF TypeOK, StillBroken
<1>4. CASE WindowFails
  BY <1>2, <1>4 DEF WindowFails, Return, Window, Windows
<1>5. CASE WindowPasses
  BY <1>5 DEF WindowPasses, Return, Window, Windows
<1>6. CASE NeverFetched
  BY <1>6 DEF NeverFetched, Return, Unreadable, Window, Windows
<1>7. CASE WindowStalls
  BY <1>1, <1>2, <1>3, <1>7 DEF WindowStalls, Return, Window, Windows
<1>8. CASE PollAgain
  BY <1>8 DEF PollAgain, TypeOK
<1> QED BY <1>4, <1>5, <1>6, <1>7, <1>8 DEF Judge

(* What was first seen failing is an object, since a time on the clock.    *)
LEMMA FirstSeenType ==
  ASSUME TypeOK
  PROVE  /\ DOMAIN FirstSeen = Failures /\ Failures \subseteq Objects
         /\ \A o \in Failures : FirstSeen[o] \in Nat
         /\ StableSince \in Nat \cup {Unset}
<1>1. Failures \subseteq Objects
  BY NamesAreObjects DEF TypeOK, Failures
<1>2. \A o \in Failures : FirstSeen[o] \in Nat
  BY DEF TypeOK, FirstSeen
<1>3. StableSince \in Nat \cup {Unset}
  BY DEF TypeOK, StableSince
<1> QED BY <1>1, <1>2, <1>3 DEF FirstSeen

(* What the three judging actions that end a window, and the one that does *)
(* not, have in common.                                                    *)
LEMMA JudgeFrame ==
  ASSUME Judge
  PROVE  /\ Judged /\ pc = "judge" /\ pc' \in {"sleep", "done"}
         /\ UNCHANGED <<world, arguments, reading, deadline, firstSource, ghosts>>
         /\ stableSince' \in {stableSince, StableSince}
         /\ failingSince' = IF kind = "watch" /\ Fetched THEN FirstSeen
                                                         ELSE failingSince
BY DEF Judge, WindowFails, WindowPasses, NeverFetched, WindowStalls, PollAgain,
       Judged, Return

(* Every step keeps every variable in its type.                            *)
LEMMA NextType ==
  ASSUME TypeOK, readStarted <= now, [Next]_vars
  PROVE  TypeOK'
<1>1. CASE Environment
  <2>1. now' \in Nat /\ UNCHANGED <<arguments, pc, reading, judging, outcome, ghosts>>
    <3>1. now \in Nat
      BY DEF TypeOK
    <3> QED BY <1>1, <3>1, WindowIsItsOwn
  <2> QED BY <1>1, <2>1, EnvironmentType
          DEF TypeOK, arguments, reading, judging, ghosts
<1>2. CASE ReadRevision
  BY <1>2 DEF ReadRevision, TypeOK, world, arguments, ghosts
<1>3. CASE ReadFlux
  <2>1. fluxRead' \in Snapshots(FluxObjects)
    BY <1>3, RestrictionIsSnapshot DEF ReadFlux, TypeOK
  <2> QED BY <1>3, <2>1 DEF ReadFlux, TypeOK, world, arguments, judging, ghosts
<1>4. CASE ReadWorkloads
  <2>1. fluxRead' \in Snapshots(FluxObjects)
    BY <1>4, EmptyIsSnapshot DEF ReadWorkloads
  <2>2. snapshot' \in Snapshots(Objects)
    <3> DEFINE some == Restriction(cluster, Workloads)
    <3>1. some \in Snapshots(Workloads) /\ fluxRead \in Snapshots(FluxObjects)
      BY RestrictionIsSnapshot DEF TypeOK
    <3>2. /\ DOMAIN some \subseteq Workloads /\ some \in [DOMAIN some -> Health]
          /\ DOMAIN fluxRead \subseteq FluxObjects
          /\ fluxRead \in [DOMAIN fluxRead -> Health]
      BY <3>1, SnapshotIsPartial
    <3>3. snapshot' = [o \in DOMAIN fluxRead \cup DOMAIN some |->
                         IF o \in DOMAIN some THEN some[o] ELSE fluxRead[o]]
      BY <1>4 DEF ReadWorkloads
    <3>4. snapshot' \in [DOMAIN fluxRead \cup DOMAIN some -> Health]
      BY <3>2, <3>3
    <3>5. DOMAIN fluxRead \cup DOMAIN some \subseteq Objects
      BY <3>2 DEF Objects
    <3> QED BY <3>4, <3>5, PartialIsSnapshot
  <2>3. calmFrom' \in Nat \cup {Unset} /\ failedFrom' \in [Objects -> Nat \cup {Unset}]
    <3>1. now \in Nat /\ calmFrom \in Nat \cup {Unset}
          /\ failedFrom \in [Objects -> Nat \cup {Unset}]
      BY DEF TypeOK
    <3>2. /\ calmFrom' \in {Unset, now, calmFrom}
          /\ \E failing : failedFrom' =
               [o \in Objects |-> IF o \notin failing THEN Unset
                                  ELSE IF failedFrom[o] = Unset THEN now
                                  ELSE failedFrom[o]]
      BY <1>4 DEF ReadWorkloads, Observe
    <3> QED BY <3>1, <3>2
  <2>4. deadline' \in Nat
    <3>1. deadline' \in {deadline, deadline + (now - readStarted)}
      BY <1>4 DEF ReadWorkloads
    <3> QED BY <3>1 DEF TypeOK
  <2> QED BY <1>4, <2>1, <2>2, <2>3, <2>4 DEF ReadWorkloads, TypeOK, world, arguments
<1>5. CASE Judge
  <2>1. outcome' \in Windows(Objects)
    BY <1>5, ReturnType
  <2>2. /\ DOMAIN failingSince' \subseteq Objects
        /\ \A o \in DOMAIN failingSince' : failingSince'[o] \in Nat
    BY <1>5, JudgeFrame, FirstSeenType DEF TypeOK
  <2>3. stableSince' \in Nat \cup {Unset}
    BY <1>5, JudgeFrame, FirstSeenType DEF TypeOK
  <2> QED BY <1>5, <2>1, <2>2, <2>3, JudgeFrame
          DEF TypeOK, world, arguments, reading, ghosts
<1>6. CASE Sleep
  <2>1. snapshot' \in Snapshots(Objects)
    BY <1>6, EmptyIsSnapshot DEF Sleep
  <2>2. now' \in Nat /\ readStarted' \in Nat
    BY <1>6 DEF Sleep, TypeOK
  <2> QED BY <1>6, <2>1, <2>2 DEF Sleep, TypeOK, arguments, judging, ghosts
<1>7. CASE ReadFails \/ SleepCancelled
  <2>1. outcome' \in Windows(Objects)
    BY <1>7 DEF ReadFails, SleepCancelled, Return, Unreadable, Window, Windows
  <2> QED BY <1>7, <2>1
          DEF ReadFails, SleepCancelled, Return, TypeOK, world, arguments, reading,
              judging, ghosts
<1>8. CASE UNCHANGED vars
  BY <1>8 DEF vars, TypeOK, world, arguments, reading, judging, ghosts
<1> QED
  BY <1>1, <1>2, <1>3, <1>4, <1>5, <1>6, <1>7, <1>8 DEF Next, Poll, Finished

-----------------------------------------------------------------------------
(* The hold.                                                               *)

(* Unless the window fails here, no new failure is confirmed: the loop's   *)
(* condition for the hold is then that the poll was a calm one.            *)
LEMMA SteadyIsCalm ==
  ASSUME ~Fails
  PROVE  Steady <=> CalmPoll
<1>1. CASE kind = "watch" /\ Fetched
  <2>1. Unconfirmed = Failures
    BY <1>1 DEF Unconfirmed, Fails
  <2> QED BY <1>1, <2>1 DEF Steady, CalmPoll
<1>2. CASE ~(kind = "watch" /\ Fetched)
  BY <1>2 DEF Steady, CalmPoll
<1> QED BY <1>1, <1>2

(* ... so what the loop remembers of a poll is what was observed of it.    *)
LEMMA HoldAgrees ==
  ASSUME ~Fails, HoldIsCounted, pc = "judge"
  PROVE  StableSince = calmFrom /\ (Steady <=> CalmPoll)
BY SteadyIsCalm DEF HoldIsCounted, StableSince

(* A read that completes a poll observes it as the loop will judge it.     *)
LEMMA PollIsObserved ==
  ASSUME ReadWorkloads
  PROVE  /\ calmFrom' = IF ~CalmPoll' THEN Unset
                        ELSE IF calmFrom = Unset THEN now ELSE calmFrom
         /\ kind = "watch" =>
              \A o \in Objects :
                failedFrom'[o] = IF ~Fetched' \/ o \notin Failures' THEN Unset
                                 ELSE IF failedFrom[o] = Unset THEN now
                                 ELSE failedFrom[o]
<1>1. /\ UNCHANGED <<kind, want, baseline, broken, revision>>
      /\ Observe(snapshot')
  BY DEF ReadWorkloads, arguments
<1>2. (Fetched' <=> FetchedBy(revision)) /\ Failures' = NewFailures(snapshot', baseline)
  BY <1>1 DEF Fetched, FetchedBy, Failures
<1>3. CalmPoll' <=> IF kind = "watch"
                      THEN FetchedBy(revision) /\ SettledSince(snapshot', baseline)
                             /\ NewFailures(snapshot', baseline) = {}
                      ELSE StillBroken(snapshot', broken) = {}
  BY <1>1, <1>2 DEF CalmPoll
<1>4. CASE kind = "watch"
  BY <1>1, <1>2, <1>3, <1>4 DEF Observe
<1>5. CASE kind # "watch"
  BY <1>1, <1>3, <1>5 DEF Observe
<1> QED BY <1>4, <1>5

(* A window starts without a hold.                                         *)
LEMMA InitHold == Init => HoldIsCounted
BY DEF Init, HoldIsCounted

(* Every step keeps the two counts of the hold the same.                   *)
LEMMA NextHold ==
  ASSUME TypeOK, HoldIsCounted, [Next]_vars
  PROVE  HoldIsCounted'
<1>1. CASE Environment
  <2>1. /\ UNCHANGED <<pc, stableSince, calmFrom, kind, want, baseline, broken,
                       revision, snapshot>>
        /\ now' # now => pc # "judge"
    BY <1>1, WindowIsItsOwn DEF arguments, reading, judging, ghosts
  <2>2. CalmPoll' <=> CalmPoll
    BY <2>1 DEF CalmPoll, Fetched, FetchedBy, Failures
  <2> QED BY <2>1, <2>2 DEF HoldIsCounted
<1>2. CASE ReadRevision \/ ReadFlux
  BY <1>2 DEF ReadRevision, ReadFlux, HoldIsCounted, judging, ghosts
<1>3. CASE ReadWorkloads
  <2>1. pc' = "judge" /\ stableSince' = stableSince /\ now' = now
        /\ calmFrom = stableSince
    BY <1>3 DEF ReadWorkloads, world, HoldIsCounted
  <2> QED BY <1>3, <2>1, PollIsObserved DEF HoldIsCounted
<1>4. CASE PollAgain
  <2>1. ~Fails /\ pc = "judge" /\ pc' = "sleep" /\ stableSince' = StableSince
        /\ calmFrom' = calmFrom
    BY <1>4 DEF PollAgain, Judged, ghosts
  <2> QED BY <2>1, HoldAgrees DEF HoldIsCounted
<1>5. CASE WindowFails \/ WindowPasses \/ NeverFetched \/ WindowStalls \/ ReadFails
           \/ SleepCancelled
  BY <1>5 DEF WindowFails, WindowPasses, NeverFetched, WindowStalls, ReadFails,
              SleepCancelled, Return, HoldIsCounted
<1>6. CASE Sleep
  BY <1>6 DEF Sleep, HoldIsCounted, judging, ghosts
<1>7. CASE UNCHANGED vars
  <2>1. UNCHANGED <<pc, stableSince, calmFrom, kind, want, baseline, broken,
                    revision, snapshot, now>>
    BY <1>7 DEF vars, world, arguments, reading, judging, ghosts
  <2>2. CalmPoll' <=> CalmPoll
    BY <2>1 DEF CalmPoll, Fetched, FetchedBy, Failures
  <2> QED BY <2>1, <2>2 DEF HoldIsCounted
<1> QED BY <1>1, <1>2, <1>3, <1>4, <1>5, <1>6, <1>7 DEF Next, Poll, Judge, Finished

-----------------------------------------------------------------------------
(* Failures.                                                               *)

(* A window starts with nothing remembered.                                *)
LEMMA InitFailures == Init => FailuresAreCounted
<1> SUFFICES ASSUME Init PROVE FailuresAreCounted
  OBVIOUS
<1>1. DOMAIN failingSince = {} /\ pc \in {"revision", "flux"} /\ revision = Unset
      /\ \A o \in Objects : failedFrom[o] = Unset
  BY DEF Init
<1> QED BY <1>1 DEF FailuresAreCounted, Remembered, ReadBehind

(* Every step keeps what is remembered of each failure what was observed,  *)
(* until the merge is past.                                                *)
LEMMA NextFailures ==
  ASSUME TypeOK, ArgumentsOK, FailuresAreCounted, [Next]_vars
  PROVE  FailuresAreCounted'
<1>0. source \in Sources /\ revision \in Sources \cup {Unset, Any} /\ want \in {Any, Merge}
      /\ failedFrom \in [Objects -> Nat \cup {Unset}]
      /\ \A o \in DOMAIN failingSince : failingSince[o] \in Nat
  BY DEF TypeOK
<1>1. CASE Environment
  <2>1. /\ UNCHANGED <<pc, failingSince, failedFrom, kind, want, baseline,
                       revision, snapshot>>
        /\ now' # now => pc # "judge"
        /\ pc # "done"
        /\ \/ source' = source
           \/ source = Older
           \/ source = Before /\ source' \in {Merge, Descendant}
           \/ source = Merge /\ source' = Descendant
    BY <1>1, WindowIsItsOwn DEF arguments, reading, judging, ghosts
  <2>2. /\ (Fetched' <=> Fetched) /\ Failures' = Failures
        /\ pc = "judge" => FirstSeen' = FirstSeen
        /\ \A o \in Objects : Remembered(o)' = Remembered(o)
    BY <2>1 DEF Fetched, FetchedBy, Failures, FirstSeen, Remembered
  <2>3. MergeIsPast => MergeIsPast'
    BY <2>1 DEF MergeIsPast
  <2>4. DOMAIN failingSince # {} /\ want = Merge => source' \in {Merge, Descendant}
    BY <2>1 DEF FailuresAreCounted
  <2>5. pc \in {"flux", "workloads", "judge"} => ReadBehind'
    BY <2>1 DEF FailuresAreCounted, ReadBehind
  <2>6. kind = "watch" /\ pc = "judge" => UNCHANGED now
    BY <2>1
  <2> QED BY <2>1, <2>2, <2>3, <2>4, <2>5 DEF FailuresAreCounted
<1>2. CASE ReadRevision
  <2>1. /\ pc = "revision" /\ pc' = "flux" /\ revision' = IF want = Any THEN Any ELSE source
        /\ UNCHANGED <<source, want, kind, failingSince, failedFrom>>
    BY <1>2 DEF ReadRevision, world, arguments, ghosts
  <2>2. MergeIsPast => MergeIsPast'
    BY <2>1 DEF MergeIsPast
  <2>3. \A o \in Objects : Remembered(o)' = Remembered(o)
    BY <2>1 DEF Remembered
  <2>4. ReadBehind'
    BY <2>1 DEF ReadBehind
  <2>5. DOMAIN failingSince' # {} /\ want' = Merge => revision' \in {Merge, Descendant}
    BY <2>1 DEF FailuresAreCounted
  <2> QED BY <2>1, <2>2, <2>3, <2>4, <2>5 DEF FailuresAreCounted
<1>3. CASE ReadFlux
  <2>1. /\ pc = "flux" /\ pc' = "workloads"
        /\ UNCHANGED <<source, want, kind, failingSince, failedFrom, revision>>
    BY <1>3 DEF ReadFlux, world, arguments, judging, ghosts
  <2>2. MergeIsPast => MergeIsPast'
    BY <2>1 DEF MergeIsPast
  <2>3. \A o \in Objects : Remembered(o)' = Remembered(o)
    BY <2>1 DEF Remembered
  <2> QED BY <2>1, <2>2, <2>3 DEF FailuresAreCounted, ReadBehind
<1>4. CASE ReadWorkloads
  <2>1. /\ pc = "workloads" /\ pc' = "judge"
        /\ UNCHANGED <<source, want, kind, failingSince, revision, baseline, now>>
    BY <1>4 DEF ReadWorkloads, world, arguments
  <2>2. kind = "watch" =>
          \A o \in Objects :
            failedFrom'[o] = IF ~Fetched' \/ o \notin Failures' THEN Unset
                             ELSE IF failedFrom[o] = Unset THEN now ELSE failedFrom[o]
    BY <1>4, PollIsObserved
  <2>3. MergeIsPast => MergeIsPast' /\ ~Fetched'
    BY <2>1 DEF MergeIsPast, Fetched, FetchedBy
  <2>4. \A o \in Failures' :
          FirstSeen'[o] = IF o \in DOMAIN failingSince THEN failingSince[o] ELSE now
    BY <2>1 DEF FirstSeen
  <2>5. ~Fetched' => want = Merge /\ revision # Merge
    BY <1>0, <2>1 DEF Fetched, FetchedBy
  <2>6. ~Fetched' => MergeIsPast' \/ DOMAIN failingSince' = {}
    BY <2>1, <2>5 DEF FailuresAreCounted, MergeIsPast, ReadBehind
  <2>7. kind = "watch" /\ Fetched' =>
          \A o \in Objects :
            failedFrom'[o] = IF o \in Failures' THEN FirstSeen'[o] ELSE Unset
    <3> SUFFICES ASSUME kind = "watch", Fetched', NEW o \in Objects
                 PROVE  failedFrom'[o] = IF o \in Failures' THEN FirstSeen'[o] ELSE Unset
      OBVIOUS
    <3>1. failedFrom[o] = Remembered(o)
      BY <2>1, <2>3 DEF FailuresAreCounted
    <3> QED BY <1>0, <2>2, <2>4, <3>1 DEF Remembered
  <2>8. kind = "watch" /\ ~Fetched' => \A o \in Objects : failedFrom'[o] = Unset
    BY <2>2
  <2> QED BY <2>1, <2>6, <2>7, <2>8 DEF FailuresAreCounted, ReadBehind
<1>5. CASE Judge
  <2>1. /\ pc = "judge" /\ pc' \in {"sleep", "done"}
        /\ UNCHANGED <<source, want, kind, failedFrom, revision>>
        /\ failingSince' = IF kind = "watch" /\ Fetched THEN FirstSeen ELSE failingSince
    BY <1>5, JudgeFrame DEF world, arguments, reading, ghosts
  <2>2. CASE kind = "watch" /\ Fetched
    <3>1. \A o \in Objects : failedFrom'[o] = Remembered(o)'
      BY <2>1, <2>2, FirstSeenType DEF FailuresAreCounted, Remembered
    <3>2. want = Merge => source' \in {Merge, Descendant}
      <4>1. want = Merge => revision = Merge
        BY <2>2 DEF Fetched, FetchedBy
      <4> QED BY <2>1, <4>1 DEF FailuresAreCounted, ReadBehind
    <3> QED BY <2>1, <2>2, <3>1, <3>2 DEF FailuresAreCounted
  <2>3. CASE ~(kind = "watch" /\ Fetched)
    <3>1. kind = "watch" => MergeIsPast' \/ \A o \in Objects : failedFrom'[o] = Remembered(o)'
      BY <2>1, <2>3 DEF FailuresAreCounted, MergeIsPast, Remembered
    <3> QED BY <2>1, <2>3, <3>1 DEF FailuresAreCounted
  <2> QED BY <2>2, <2>3
<1>6. CASE Sleep
  <2>1. /\ pc = "sleep" /\ pc' \in {"revision", "flux"} /\ (pc' = "flux" => kind # "watch")
        /\ revision' = Unset
        /\ UNCHANGED <<source, want, kind, failingSince, failedFrom>>
    BY <1>6 DEF Sleep, arguments, judging, ghosts
  <2>2. \A o \in Objects : Remembered(o)' = Remembered(o)
    BY <2>1 DEF Remembered
  <2>3. kind = "watch" => (MergeIsPast => MergeIsPast')
    BY <2>1 DEF MergeIsPast
  <2>4. kind # "watch" => want = Any
    BY DEF ArgumentsOK, TypeOK
  <2> QED BY <2>1, <2>2, <2>3, <2>4 DEF FailuresAreCounted, ReadBehind
<1>7. CASE ReadFails \/ SleepCancelled
  <2>1. pc' = "done" /\ UNCHANGED <<source, want, failingSince>>
    BY <1>7 DEF ReadFails, SleepCancelled, Return, world, arguments, judging
  <2> QED BY <2>1 DEF FailuresAreCounted
<1>8. CASE UNCHANGED vars
  <2>1. UNCHANGED <<pc, source, failingSince, failedFrom, kind, want, baseline,
                    revision, snapshot, now>>
    BY <1>8 DEF vars, world, arguments, reading, judging, ghosts
  <2> QED BY <2>1 DEF FailuresAreCounted, MergeIsPast, Remembered, ReadBehind,
                      Fetched, FetchedBy, Failures, FirstSeen
<1> QED BY <1>1, <1>2, <1>3, <1>4, <1>5, <1>6, <1>7, <1>8 DEF Next, Poll, Finished

-----------------------------------------------------------------------------
(* The clock.                                                              *)

(* A window starts with all of its time.                                   *)
LEMMA InitTime == Init => TimeIsCounted
BY DEF Init, TimeIsCounted, GraceIsOneHold

(* No step lets a window last longer than its settle budget, one hold and  *)
(* the polls at both ends of it, but by what its reads took.               *)
LEMMA NextTime ==
  ASSUME TypeOK, TimeIsCounted, [Next]_vars
  PROVE  TimeIsCounted'
<1>0. now \in Nat /\ readStarted \in Nat /\ deadline \in Nat /\ delays \in Nat
      /\ stableSince \in Nat \cup {Unset}
  BY DEF TypeOK
<1>1. CASE Environment
  <2>1. /\ UNCHANGED <<pc, readStarted, deadline, stableSince>>
        /\ now' # now => pc \in {"revision", "flux", "workloads"}
        /\ pc # "done"
    BY <1>1, WindowIsItsOwn DEF reading, judging
  <2>2. PICK k \in Nat : now' = now + k /\ delays' = delays + k
    BY <1>1, WindowIsItsOwn
  <2>3. CASE now' = now
    <3>1. delays' = delays
      BY <1>0, <2>2, <2>3
    <3> QED BY <2>1, <2>3, <3>1 DEF TimeIsCounted, GraceIsOneHold
  <2>4. CASE pc \in {"revision", "flux", "workloads"}
    <3>1. /\ readStarted' <= now'
          /\ deadline' + (now' - readStarted') <= SettleTimeout + delays'
          /\ deadline' <= SettleTimeout + delays'
      BY <1>0, <2>1, <2>2, <2>4 DEF TimeIsCounted
    <3>2. /\ stableSince' # Unset => stableSince' <= SettleTimeout + PollInterval + delays'
          /\ stableSince' = Unset => now' <= SettleTimeout + PollInterval + delays'
      BY <1>0, <2>1, <2>2, <2>4 DEF TimeIsCounted
    <3>3. GraceIsOneHold'
      BY <1>0, <2>2 DEF TimeIsCounted, GraceIsOneHold
    <3> QED BY <2>1, <2>4, <3>1, <3>2, <3>3 DEF TimeIsCounted
  <2> QED BY <2>1, <2>3, <2>4
<1>2. CASE ReadRevision \/ ReadFlux
  <2>1. /\ UNCHANGED <<readStarted, deadline, stableSince, now, delays>>
        /\ pc \in {"revision", "flux"} /\ pc' \in {"flux", "workloads"}
    BY <1>2 DEF ReadRevision, ReadFlux, world, judging
  <2> QED BY <1>0, <2>1 DEF TimeIsCounted, GraceIsOneHold
<1>3. CASE ReadWorkloads
  <2>1. /\ UNCHANGED <<readStarted, stableSince, now, delays>>
        /\ pc = "workloads" /\ pc' = "judge"
        /\ deadline' \in {deadline, deadline + (now - readStarted)}
    BY <1>3 DEF ReadWorkloads, world
  <2> QED BY <1>0, <2>1 DEF TimeIsCounted, GraceIsOneHold
<1>4. CASE PollAgain
  <2>1. /\ UNCHANGED <<readStarted, deadline, now, delays>>
        /\ pc = "judge" /\ pc' = "sleep" /\ stableSince' = StableSince /\ ~Expired
    BY <1>4 DEF PollAgain, Judged, world, reading
  <2>2. /\ StableSince \in {Unset, now, stableSince}
        /\ StableSince = now => stableSince \in {Unset, now}
    BY <1>0 DEF StableSince
  <2>3. now < IF StableSince = Unset THEN deadline ELSE StableSince + StabilityHold
    BY <1>0, <2>1, <2>2 DEF Expired, Limit
  <2> QED BY <1>0, <2>1, <2>2, <2>3 DEF TimeIsCounted, GraceIsOneHold
<1>5. CASE WindowFails \/ WindowPasses \/ NeverFetched \/ WindowStalls
  <2>1. /\ UNCHANGED <<readStarted, deadline, now, delays>>
        /\ pc = "judge" /\ pc' = "done" /\ stableSince' \in {stableSince, StableSince}
    BY <1>5 DEF WindowFails, WindowPasses, NeverFetched, WindowStalls, Return, Judged,
                world, reading
  <2>2. /\ StableSince \in {Unset, now, stableSince}
        /\ StableSince = now => stableSince \in {Unset, now}
    BY <1>0 DEF StableSince
  <2> QED BY <1>0, <2>1, <2>2 DEF TimeIsCounted, GraceIsOneHold
<1>6. CASE Sleep
  <2>1. /\ UNCHANGED <<deadline, stableSince, delays>>
        /\ pc = "sleep" /\ pc' \in {"revision", "flux"}
        /\ now' = now + PollInterval /\ readStarted' = now + PollInterval
    BY <1>6 DEF Sleep, judging
  <2> QED BY <1>0, <2>1 DEF TimeIsCounted, GraceIsOneHold
<1>7. CASE ReadFails \/ SleepCancelled
  <2>1. /\ UNCHANGED <<readStarted, deadline, stableSince, now, delays>> /\ pc' = "done"
    BY <1>7 DEF ReadFails, SleepCancelled, Return, world, reading, judging
  <2> QED BY <1>0, <2>1 DEF TimeIsCounted, GraceIsOneHold
<1>8. CASE UNCHANGED vars
  BY <1>8 DEF vars, world, reading, judging, TimeIsCounted, GraceIsOneHold
<1> QED BY <1>1, <1>2, <1>3, <1>4, <1>5, <1>6, <1>7, <1>8
        DEF Next, Poll, Judge, Finished

-----------------------------------------------------------------------------
(* The verdict.                                                            *)

(* A window starts as Watch or Restored opens it.                          *)
LEMMA InitArguments == Init => ArgumentsOK
BY DEF Init, ArgumentsOK

(* Only the end of a window gives it an outcome.                           *)
LEMMA NextArguments ==
  ASSUME TypeOK, ArgumentsOK, [Next]_vars
  PROVE  ArgumentsOK'
<1>1. CASE Environment
  BY <1>1, WindowIsItsOwn DEF ArgumentsOK, arguments, reading
<1>2. CASE Poll
  BY <1>2 DEF Poll, ReadRevision, ReadFlux, ReadWorkloads, ArgumentsOK, TypeOK, arguments
<1>3. CASE Judge
  BY <1>3 DEF Judge, WindowFails, WindowPasses, NeverFetched, WindowStalls, PollAgain,
              Return, Judged, ArgumentsOK, arguments, reading
<1>4. CASE Sleep
  BY <1>4 DEF Sleep, ArgumentsOK, TypeOK, arguments
<1>5. CASE ReadFails \/ SleepCancelled
  BY <1>5 DEF ReadFails, SleepCancelled, Return, ArgumentsOK, arguments
<1>6. CASE UNCHANGED vars
  BY <1>6 DEF vars, ArgumentsOK, arguments, reading
<1> QED BY <1>1, <1>2, <1>3, <1>4, <1>5, <1>6 DEF Next, Finished

(* A pass, and an error, are within what either kind of window may return. *)
LEMMA SilentIsPromised ==
  ASSUME NEW all, NEW blind, NEW some,
         NEW w \in {Unreadable, Window("pass", {})}
  PROVE  /\ w \in WatchReturns(all, blind)
         /\ w \in RestoredReturns(all, some)
<1>1. \A any : w \in Windows(any)
  BY DEF Windows, Window, Unreadable
<1>2. Silent(w)
  BY DEF Silent, Window, Unreadable
<1> QED BY <1>1, <1>2 DEF WatchReturns, RestoredReturns

(* A window opens with nothing claimed.                                    *)
LEMMA InitVerdict == Init => VerdictIsKept
BY DEF Init, VerdictIsKept, PassHeldThroughout, FailPersisted, NeverBlamesThePast,
       NoStallInAHold, KeepsContract, ErrorMeansUnmoved, NoWindow, Unreadable, Window

(* A step that does not end the window claims nothing either.              *)
LEMMA OpenVerdict ==
  ASSUME pc' # "done", outcome' = NoWindow
  PROVE  VerdictIsKept'
BY DEF VerdictIsKept, PassHeldThroughout, FailPersisted, NeverBlamesThePast,
       NoStallInAHold, KeepsContract, ErrorMeansUnmoved, NoWindow, Unreadable, Window

(* A failure names what a whole hold of polls saw failing.                 *)
LEMMA FailVerdict ==
  ASSUME IInv, WindowFails
  PROVE  VerdictIsKept'
<1>1. /\ kind = "watch" /\ Fetched /\ Confirmed # {} /\ pc = "judge" /\ pc' = "done"
      /\ outcome' = Window("fail", Confirmed)
      /\ UNCHANGED <<kind, want, baseline, broken, now, failedFrom, calmFrom>>
  BY DEF WindowFails, Fails, Return, Judged, world, arguments, ghosts
<1>2. outcome'.result = "fail" /\ outcome'.objects = Confirmed
  BY <1>1 DEF Window
<1>3. \A o \in Confirmed : o \in Failures /\ now - FirstSeen[o] >= StabilityHold
  BY DEF Confirmed
<1>4. Failures \subseteq Objects /\ \A o \in Failures : Attributable(baseline, o)
  BY NamesAreObjects DEF IInv, TypeOK, Failures, NewFailures
<1>5. \A o \in Failures : failedFrom[o] = FirstSeen[o] /\ FirstSeen[o] \in Nat
  BY <1>1, <1>4, FirstSeenType DEF IInv, FailuresAreCounted
<1>6. FailPersisted'
  <2>1. \A o \in Confirmed :
          failedFrom[o] # Unset /\ now - failedFrom[o] >= StabilityHold
    <3> SUFFICES ASSUME NEW o \in Confirmed
                 PROVE  failedFrom[o] # Unset /\ now - failedFrom[o] >= StabilityHold
      OBVIOUS
    <3>1. failedFrom[o] = FirstSeen[o] /\ FirstSeen[o] \in Nat
          /\ now - FirstSeen[o] >= StabilityHold
      BY <1>3, <1>5
    <3> QED BY <3>1
  <2> QED BY <1>1, <1>2, <2>1 DEF FailPersisted
<1>7. NeverBlamesThePast'
  BY <1>1, <1>2, <1>3, <1>4 DEF NeverBlamesThePast, Attributable
<1>8. KeepsContract'
  <2>1. outcome' \in Windows(Objects)
    BY <1>1, <1>3, <1>4 DEF Window, Windows
  <2> QED BY <1>1, <1>2, <2>1 DEF KeepsContract, WatchReturns
<1>9. PassHeldThroughout' /\ NoStallInAHold' /\ ErrorMeansUnmoved'
  BY <1>2 DEF PassHeldThroughout, NoStallInAHold, ErrorMeansUnmoved, Unreadable, Window
<1> QED BY <1>6, <1>7, <1>8, <1>9 DEF VerdictIsKept

(* A pass follows a whole hold of calm polls.                              *)
LEMMA PassVerdict ==
  ASSUME IInv, WindowPasses
  PROVE  VerdictIsKept'
<1>1. /\ ~Fails /\ Passes /\ pc = "judge" /\ pc' = "done"
      /\ outcome' = Window("pass", {})
      /\ UNCHANGED <<kind, want, baseline, broken, now, calmFrom>>
  BY DEF WindowPasses, Return, Judged, world, arguments, ghosts
<1>2. outcome'.result = "pass" /\ outcome'.objects = {}
  BY <1>1 DEF Window
<1>3. StableSince = calmFrom
  BY <1>1, HoldAgrees DEF IInv
<1>4. /\ StableSince = stableSince /\ stableSince # Unset
      /\ now - stableSince >= StabilityHold
  BY <1>1 DEF Passes, StableSince
<1>5. PassHeldThroughout'
  BY <1>1, <1>3, <1>4 DEF PassHeldThroughout
<1>6. KeepsContract'
  BY <1>1, SilentIsPromised DEF KeepsContract
<1>7. FailPersisted' /\ NoStallInAHold' /\ ErrorMeansUnmoved' /\ NeverBlamesThePast'
  BY <1>2 DEF FailPersisted, NoStallInAHold, ErrorMeansUnmoved, NeverBlamesThePast,
              Unreadable, Window
<1> QED BY <1>5, <1>6, <1>7 DEF VerdictIsKept

(* A window that runs out of time was not in a hold.                       *)
LEMMA OutOfTime ==
  ASSUME IInv, pc = "judge", ~Fails, ~Passes, Expired
  PROVE  calmFrom = Unset /\ ~CalmPoll
<1>1. StableSince = calmFrom /\ (Steady <=> CalmPoll)
  BY HoldAgrees DEF IInv
<1>2. now \in Nat /\ stableSince \in Nat \cup {Unset}
  BY DEF IInv, TypeOK
<1>3. ~Steady
  <2> SUFFICES ASSUME Steady PROVE FALSE
    OBVIOUS
  <2>1. CASE stableSince = Unset
    <3>1. StableSince = now /\ Limit = now + StabilityHold
      BY <1>2, <2>1 DEF StableSince, Limit
    <3> QED BY <1>2, <3>1 DEF Expired
  <2>2. CASE stableSince # Unset
    <3>1. StableSince = stableSince /\ Limit = stableSince + StabilityHold
      BY <2>2 DEF StableSince, Limit
    <3>2. ~(now - stableSince >= StabilityHold)
      BY <2>2 DEF Passes
    <3> QED BY <1>2, <2>2, <3>1, <3>2 DEF Expired
  <2> QED BY <2>1, <2>2
<1> QED BY <1>1, <1>3 DEF StableSince

(* A stall names objects, unless it waited for a revision.                 *)
LEMMA StallVerdict ==
  ASSUME IInv, WindowStalls
  PROVE  VerdictIsKept'
<1> DEFINE named == IF kind = "watch"
                      THEN NewlyReconciling(snapshot, baseline) \cup Unconfirmed
                      ELSE StillBroken(snapshot, broken)
<1>1. /\ ~Fails /\ pc = "judge" /\ pc' = "done"
      /\ outcome' = Window("stalled", named)
      /\ UNCHANGED <<kind, want, baseline, broken, calmFrom>>
  BY DEF WindowStalls, Return, Judged, world, arguments, ghosts
<1>2. outcome'.result = "stalled" /\ outcome'.objects = named
  BY <1>1 DEF Window
<1>3. calmFrom = Unset /\ ~CalmPoll
  BY OutOfTime DEF WindowStalls, Judged
<1>4. /\ Failures \subseteq Objects /\ NewlyReconciling(snapshot, baseline) \subseteq Objects
      /\ \A o \in Failures \cup NewlyReconciling(snapshot, baseline) :
           Attributable(baseline, o)
  BY NamesAreObjects DEF IInv, TypeOK, Failures, NewFailures, NewlyReconciling
<1>5. Unconfirmed \subseteq Failures /\ (Fetched /\ kind = "watch" => Unconfirmed = Failures)
  BY <1>1 DEF Unconfirmed, Fails
<1>6. NeverBlamesThePast'
  BY <1>1, <1>2, <1>4, <1>5 DEF NeverBlamesThePast, Attributable
<1>7. KeepsContract'
  <2>1. CASE kind = "watch"
    <3>1. outcome' \in Windows(Objects)
      BY <1>1, <1>4, <1>5, <2>1 DEF Window, Windows
    <3>2. want = Any => named # {}
      <4> SUFFICES ASSUME want = Any, named = {} PROVE FALSE
        OBVIOUS
      <4>1. Fetched
        BY DEF Fetched, FetchedBy
      <4>2. NewlyReconciling(snapshot, baseline) = {} /\ Failures = {}
        BY <1>5, <2>1, <4>1
      <4>3. SettledSince(snapshot, baseline)
        BY <4>2 DEF NewlyReconciling, SettledSince
      <4> QED BY <1>3, <2>1, <4>1, <4>2, <4>3 DEF CalmPoll
    <3> QED BY <1>1, <1>2, <2>1, <3>1, <3>2 DEF KeepsContract, WatchReturns
  <2>2. CASE kind # "watch"
    <3>1. kind = "restored" /\ broken # {}
      BY <2>2 DEF IInv, TypeOK, ArgumentsOK
    <3>2. named # {} /\ named \subseteq broken
      BY <1>3, <2>2 DEF CalmPoll, StillBroken
    <3>3. outcome' \in Windows(broken)
      BY <1>1, <3>2 DEF Window, Windows
    <3> QED BY <1>1, <1>2, <2>2, <3>1, <3>2, <3>3 DEF KeepsContract, RestoredReturns
  <2> QED BY <2>1, <2>2
<1>8. PassHeldThroughout' /\ FailPersisted' /\ ErrorMeansUnmoved' /\ NoStallInAHold'
  BY <1>1, <1>2, <1>3
     DEF PassHeldThroughout, FailPersisted, ErrorMeansUnmoved, NoStallInAHold,
         Unreadable, Window
<1> QED BY <1>6, <1>7, <1>8 DEF VerdictIsKept

(* Without a failing read, an error tells of a source that never moved.    *)
LEMMA ErrorVerdict ==
  ASSUME IInv, NeverFetched \/ ReadFails \/ SleepCancelled
  PROVE  VerdictIsKept'
<1>1. /\ pc' = "done" /\ outcome' = Unreadable
      /\ UNCHANGED <<bounds, kind, want, broken, revision, firstSource>>
  BY DEF NeverFetched, ReadFails, SleepCancelled, Return, Judged, world, arguments,
         reading, judging
<1>2. outcome'.result = "error" /\ outcome'.objects = {}
  BY <1>1 DEF Unreadable, Window
<1>3. KeepsContract'
  BY <1>1, SilentIsPromised DEF KeepsContract
<1>4. ErrorMeansUnmoved'
  <2>1. CASE NeverFetched
    <3>1. want = Merge /\ revision = firstSource /\ revision # Merge
      BY <2>1 DEF NeverFetched, Fetched, FetchedBy, IInv, TypeOK
    <3> QED BY <1>1, <3>1 DEF ErrorMeansUnmoved
  <2>2. CASE ReadFails \/ SleepCancelled
    BY <1>1, <2>2 DEF ReadFails, SleepCancelled, ErrorMeansUnmoved
  <2> QED BY <2>1, <2>2
<1>5. PassHeldThroughout' /\ FailPersisted' /\ NoStallInAHold' /\ NeverBlamesThePast'
  BY <1>2 DEF PassHeldThroughout, FailPersisted, NoStallInAHold, NeverBlamesThePast
<1> QED BY <1>3, <1>4, <1>5 DEF VerdictIsKept

(* Every step keeps to what a window may claim.                            *)
LEMMA NextVerdict ==
  ASSUME IInv, [Next]_vars
  PROVE  VerdictIsKept'
<1>1. CASE Environment
  BY <1>1, WindowIsItsOwn, OpenVerdict DEF IInv, ArgumentsOK
<1>2. CASE Poll \/ Sleep \/ PollAgain
  <2>1. pc # "done" /\ pc' # "done" /\ outcome' = outcome
    BY <1>2 DEF Poll, ReadRevision, ReadFlux, ReadWorkloads, Sleep, PollAgain, Judged
  <2> QED BY <2>1, OpenVerdict DEF IInv, ArgumentsOK
<1>3. CASE UNCHANGED vars
  BY <1>3 DEF vars, world, arguments, reading, judging, ghosts, IInv, VerdictIsKept,
              PassHeldThroughout, FailPersisted, NeverBlamesThePast, NoStallInAHold,
              KeepsContract, ErrorMeansUnmoved, Attributable
<1> QED BY <1>1, <1>2, <1>3, FailVerdict, PassVerdict, StallVerdict, ErrorVerdict
        DEF Next, Judge, Finished

-----------------------------------------------------------------------------
(* The invariant holds throughout every window.                            *)
THEOREM Invariance == Spec => []IInv
<1>1. Init => IInv
  BY InitType, InitArguments, InitHold, InitFailures, InitTime, InitVerdict DEF IInv
<1>2. IInv /\ [Next]_vars => IInv'
  <2> SUFFICES ASSUME IInv, [Next]_vars PROVE IInv'
    OBVIOUS
  <2>1. TypeOK /\ ArgumentsOK /\ HoldIsCounted /\ FailuresAreCounted /\ TimeIsCounted
        /\ readStarted <= now
    BY DEF IInv, TimeIsCounted
  <2> QED BY <2>1, NextType, NextArguments, NextHold, NextFailures, NextTime, NextVerdict
          DEF IInv
<1> QED BY <1>1, <1>2, PTL DEF Spec

(* Every variable keeps its type.                                          *)
THEOREM TypeCorrect == Spec => []TypeOK
BY Invariance, PTL DEF IInv

(* A pass is only given after a hold of calm polls; the hold is never cut  *)
(* short by a reading that unsettled it, however the reads interleave.     *)
THEOREM PassIsEarned == Spec => []PassHeldThroughout
BY Invariance, PTL DEF IInv, VerdictIsKept

(* A failure is only given for objects every poll of a hold saw failing.   *)
THEOREM FailIsEarned == Spec => []FailPersisted
BY Invariance, PTL DEF IInv, VerdictIsKept

(* No watch blames a merge for what was broken or moving before it.        *)
THEOREM PastIsNotBlamed == Spec => []NeverBlamesThePast
BY Invariance, PTL DEF IInv, VerdictIsKept

(* The window code keeps the contract that MergeAndRepair relies on.       *)
THEOREM ContractIsKept == Spec => []KeepsContract
BY Invariance, PTL DEF IInv, VerdictIsKept

(* A hold under way is not cut off by the settle timeout, yet costs a      *)
(* window no more than that one hold.                                      *)
THEOREM GraceIsBounded == Spec => [](NoStallInAHold /\ GraceIsOneHold)
BY Invariance, PTL DEF IInv, VerdictIsKept, TimeIsCounted

(* The error that says a merge was never applied is only given when it was *)
(* not, unless a read failed.                                              *)
THEOREM ErrorIsEarned == Spec => []ErrorMeansUnmoved
BY Invariance, PTL DEF IInv, VerdictIsKept
=============================================================================
