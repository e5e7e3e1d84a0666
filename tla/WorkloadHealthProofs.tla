------------------------- MODULE WorkloadHealthProofs -------------------------
(***************************************************************************)
(* What Objects says of a workload, for any number of workloads and pods,  *)
(* any grace, and any order of the cluster's steps and the reads of a poll.*)
(*                                                                         *)
(* The argument: what a poll listed is current for whatever has not moved  *)
(* since (ListedIsCurrent), and what moved did so within this poll         *)
(* (MovedLately); a pod is at least as old as its workload has been quiet  *)
(* (AgesKeepUp), so only a workload that moved within the grace is thought *)
(* to be delivering pods (DeliveringLately).                               *)
(***************************************************************************)
EXTENDS WorkloadHealth, FiniteSetTheorems, TLAPS

(* Where a poll stands says which workloads it has listed. *)
Listing ==
  /\ pc = "Deployment" =>
       listed = <<>> /\ moved = {} /\ skew = 0 /\ slow = 0
  /\ pc \in Kinds \cup {"pods"} => delivering = {} /\ unread = {}
  /\ pc = "StatefulSet" => DOMAIN listed = OfKind("Deployment")
  /\ pc = "DaemonSet" =>
       DOMAIN listed = OfKind("Deployment") \cup OfKind("StatefulSet")
  /\ pc \in {"pods", "namespaces", "judge", "answered"} =>
       DOMAIN listed = Workloads
  /\ pc = "judge" => unread = {}
  /\ pc = "answered" =>
       /\ unread = {}
       /\ verdict = [w \in DOMAIN listed |->
                       Judgement(listed[w], w \in delivering)]
  /\ skew <= slow

MovedLately == \A w \in moved : quiet[w] <= slow

ListedIsCurrent == \A w \in DOMAIN listed \ moved : listed[w] = RolloutOf(w)

AgesKeepUp ==
  \A p \in Pods :
    pods[p].state # "absent" /\ OwnerOf[p] \in Consulting =>
      pods[p].age >= quiet[OwnerOf[p]]

DeliveringLately ==
  \A w \in delivering : w \in Consulting /\ quiet[w] < RolloutGrace + skew

DeadlineKept ==
  \A w \in Workloads :
    status[w].condition = "progressing" =>
      w \in WithDeadline /\ quiet[w] <= ProgressDeadline

(* The pods of w have been read by this poll. *)
PodsRead(w) ==
  \/ pc \in {"judge", "answered"}
  \/ pc = "namespaces" /\ NamespaceOf[w] \notin unread

(* No pod of w is within its grace by the clock of this poll. *)
NonePlaced(w) ==
  \A p \in PodsOf(w) :
    pods[p].state \in {"unready", "leaving"} =>
      pods[p].age >= RolloutGrace + skew

NotDelivering ==
  \A w \in Consulting \ (delivering \cup moved) : PodsRead(w) => NonePlaced(w)

(* What was judged broken is still as it was. *)
NamedIsBroken ==
  \A w \in named :
    /\ w \notin moved /\ w \notin delivering
    /\ IsBroken(Judgement(RolloutOf(w), FALSE))
    /\ w \in Consulting => NonePlaced(w)

IInv ==
  /\ TypeOK /\ Listing /\ MovedLately /\ ListedIsCurrent /\ AgesKeepUp
  /\ DeliveringLately /\ DeadlineKept /\ NotDelivering /\ NamedIsBroken

USE HealthAssumption

-----------------------------------------------------------------------------
(* The counts a controller publishes are numbers. *)
LEMMA CountsType ==
  ASSUME TypeOK, NEW w \in Workloads
  PROVE  CountsNow(w) \in Counts /\ CountsNow(w).desired <= Size(w)
<1>1. IsFiniteSet(PodsOf(w))
  BY FS_Subset DEF PodsOf
<1>2. \A S \in SUBSET PodsOf(w) : Cardinality(S) \in Nat
  BY <1>1, FS_Subset, FS_CardinalityType
<1>3. Cardinality({p \in PodsOf(w) : pods[p].state = "ready"}) \in Nat
  BY <1>2
<1>4. Cardinality({p \in PodsOf(w) :
         pods[p].state \in {"unready", "ready"} /\ pods[p].updated}) \in Nat
  BY <1>2
<1> QED
  BY <1>3, <1>4 DEF TypeOK, CountsNow, Counts

(* The rollout read off a status is one. *)
LEMMA RolloutType ==
  ASSUME TypeOK, NEW w \in Workloads
  PROVE  RolloutOf(w) \in Rollouts
BY DEF TypeOK, Status, Counts, Condition, RolloutOf, Rollouts, Phases,
       DeploymentPhase, StatefulSetPhase, Kinds

(* A judgement is the health of an object. *)
LEMMA JudgementType ==
  ASSUME NEW r \in Rollouts, NEW starting \in BOOLEAN
  PROVE  Judgement(r, starting) \in Health
BY DEF Judgement, Health, Rollouts, Progressing

(* The poll that has listed nothing: the empty sequence is a function. *)
LEMMA EmptyFunction ==
  ASSUME NEW S
  PROVE  DOMAIN <<>> = {} /\ <<>> \in [{} -> S]
OBVIOUS

(* Init leads into the invariant: all is well and nothing was read. *)
LEMMA InitIInv == Init => IInv
<1> SUFFICES ASSUME Init PROVE IInv
  OBVIOUS
<1> USE DEF Init
<1>1. \A w \in Workloads : Size(w) \in Nat
  BY FS_Subset, FS_CardinalityType DEF PodsOf, Size
<1>2. \A w \in Workloads : Patience(w) \in Nat
  BY DEF Patience
<1>3. TypeOK
  <2>1. /\ desired \in [Workloads -> Nat] /\ status \in [Workloads -> Status]
        /\ quiet \in [Workloads -> Nat] /\ budget \in [Workloads -> Nat]
        /\ \A w \in Workloads : desired[w] <= Size(w) /\ quiet[w] <= Patience(w)
    BY <1>1, <1>2 DEF Status, Counts, Condition
  <2>2. pods \in [Pods -> Pod]
    BY DEF Pod, OldestAge
  <2>3. verdict \in Snapshots(Workloads)
    <3>1. verdict \in [{} -> Health]
      BY EmptyFunction
    <3> QED
      BY <3>1 DEF Snapshots
  <2>4. DOMAIN listed \subseteq Workloads /\ listed \in [DOMAIN listed -> Rollouts]
    <3>1. DOMAIN listed = {}
      BY EmptyFunction
    <3>2. listed \in [{} -> Rollouts]
      BY EmptyFunction
    <3> QED
      BY <3>1, <3>2
  <2>5. /\ pc = "Deployment" /\ delivering = {} /\ unread = {}
        /\ skew = 0 /\ slow = 0 /\ moved = {} /\ named = {}
    OBVIOUS
  <2> HIDE DEF Init
  <2> QED
    BY <2>1, <2>2, <2>3, <2>4, <2>5 DEF TypeOK, Kinds
<1>4. Listing /\ MovedLately /\ ListedIsCurrent /\ DeliveringLately
        /\ NotDelivering /\ NamedIsBroken
  BY DEF Listing, MovedLately, ListedIsCurrent, DeliveringLately,
         NotDelivering, NamedIsBroken, PodsRead
<1>5. AgesKeepUp
  BY DEF AgesKeepUp, Consulting, OfKind, OldestAge, Patience
<1>6. DeadlineKept
  BY DEF DeadlineKept
<1> QED
  BY <1>3, <1>4, <1>5, <1>6 DEF IInv

-----------------------------------------------------------------------------
(* A step of the cluster that concerns w alone. *)
OnlyTouches(w) ==
  /\ Moves(w)
  /\ \A v \in Workloads \ {w} :
       desired'[v] = desired[v] /\ status'[v] = status[v]
  /\ \A p \in Pods : OwnerOf[p] # w => pods'[p] = pods[p]

(* A step that touches w alone keeps the invariant: w has just moved. *)
LEMMA TouchKeeps ==
  ASSUME IInv, TypeOK', NEW w \in Workloads, OnlyTouches(w),
         status'[w].condition = "progressing" => w \in WithDeadline
  PROVE  IInv'
<1> USE DEF IInv, OnlyTouches, Moves
<1>1. /\ quiet'[w] = 0 /\ \A v \in Workloads \ {w} : quiet'[v] = quiet[v]
      /\ UNCHANGED <<pc, listed, delivering, unread, verdict, skew, slow>>
      /\ skew \in Nat /\ slow \in Nat
  BY DEF TypeOK, locals, clocks
<1>2. Listing'
  BY <1>1 DEF Listing
<1>3. MovedLately'
  BY <1>1 DEF MovedLately, TypeOK
<1>4. ListedIsCurrent'
  <2> SUFFICES ASSUME NEW v \in DOMAIN listed \ moved' PROVE listed[v] = RolloutOf(v)'
    BY <1>1 DEF ListedIsCurrent
  <2>1. v \in DOMAIN listed \ moved /\ v # w /\ v \in Workloads
    BY DEF TypeOK
  <2> QED
    BY <2>1 DEF ListedIsCurrent, RolloutOf
<1>5. AgesKeepUp'
  <2> SUFFICES ASSUME NEW p \in Pods, pods'[p].state # "absent",
                      OwnerOf[p] \in Consulting
               PROVE  pods'[p].age >= quiet'[OwnerOf[p]]
    BY DEF AgesKeepUp
  <2>1. CASE OwnerOf[p] = w
    BY <2>1, <1>1 DEF TypeOK, Pod, OldestAge
  <2>2. CASE OwnerOf[p] # w
    BY <2>2, <1>1 DEF AgesKeepUp
  <2> QED
    BY <2>1, <2>2
<1>6. DeliveringLately'
  BY <1>1 DEF DeliveringLately, TypeOK
<1>7. DeadlineKept'
  BY <1>1 DEF DeadlineKept
<1>8. \A v \in Workloads \ {w} : NonePlaced(v) => NonePlaced(v)'
  BY <1>1 DEF NonePlaced, PodsOf
<1>9. NotDelivering'
  <2> SUFFICES ASSUME NEW v \in Consulting \ (delivering \cup moved'), PodsRead(v)'
               PROVE  NonePlaced(v)'
    BY <1>1 DEF NotDelivering
  <2>1. PodsRead(v) /\ v \in Workloads
    BY <1>1 DEF PodsRead, Consulting, OfKind
  <2>2. DOMAIN listed = Workloads
    BY <2>1 DEF PodsRead, Listing
  <2>3. v # w /\ v \notin moved
    BY <2>1, <2>2
  <2> QED
    BY <2>1, <2>3, <1>8 DEF NotDelivering
<1>10. NamedIsBroken'
  <2> SUFFICES ASSUME NEW v \in named \ {w}
               PROVE  /\ v \notin moved' /\ v \notin delivering'
                      /\ IsBroken(Judgement(RolloutOf(v), FALSE))'
                      /\ v \in Consulting => NonePlaced(v)'
    BY DEF NamedIsBroken
  <2>1. v \in Workloads
    BY DEF TypeOK
  <2>2. RolloutOf(v)' = RolloutOf(v)
    BY <2>1 DEF RolloutOf
  <2>3. IsBroken(Judgement(RolloutOf(v), FALSE))'
    BY <2>2 DEF NamedIsBroken, IsBroken, Judgement, Progressing
  <2> QED
    BY <2>1, <2>3, <1>1, <1>8 DEF NamedIsBroken
<1> QED
  BY <1>2, <1>3, <1>4, <1>5, <1>6, <1>7, <1>9, <1>10

(* What Moves leaves well typed, whatever it is that moves. *)
LEMMA MovesType ==
  ASSUME TypeOK, NEW w \in Workloads, Moves(w),
         desired' \in [Workloads -> Nat], \A v \in Workloads : desired'[v] <= Size(v),
         status' \in [Workloads -> Status], pods' \in [Pods -> Pod],
         budget' \in [Workloads -> Nat]
  PROVE  TypeOK'
<1>1. \A v \in Workloads : Patience(v) \in Nat
  BY DEF Patience
<1>2. /\ quiet' \in [Workloads -> Nat]
      /\ \A v \in Workloads : quiet'[v] <= Patience(v)
  BY <1>1 DEF TypeOK, Moves
<1>3. moved' \subseteq Workloads /\ named' \subseteq Workloads
  BY DEF TypeOK, Moves
<1> QED
  BY <1>2, <1>3 DEF TypeOK, Moves, locals, clocks

(* A budget that was spent from is still one. *)
LEMMA SpendType ==
  ASSUME TypeOK, NEW w \in Workloads, Spend(w)
  PROVE  budget' \in [Workloads -> Nat]
BY DEF TypeOK, Spend

(* A pod created, ready, failing, leaving or gone. *)
LEMMA PodStep ==
  ASSUME IInv, NEW p \in Pods, NEW pod \in Pod, PodBecomes(p, pod),
         budget' \in [Workloads -> Nat]
  PROVE  IInv'
<1>1. TypeOK /\ OwnerOf[p] \in Workloads
  BY DEF IInv
<1>2. pods' \in [Pods -> Pod] /\ UNCHANGED <<desired, status>> /\ Moves(OwnerOf[p])
  BY <1>1 DEF PodBecomes, TypeOK
<1>3. TypeOK'
  BY <1>1, <1>2, MovesType DEF TypeOK
<1>4. OnlyTouches(OwnerOf[p])
  BY <1>1, <1>2 DEF OnlyTouches, PodBecomes, TypeOK
<1>5. status'[OwnerOf[p]].condition = "progressing" => OwnerOf[p] \in WithDeadline
  BY <1>1, <1>2 DEF IInv, DeadlineKept
<1> QED
  BY <1>1, <1>3, <1>4, <1>5, TouchKeeps

(* A new generation of w, which its controller has not seen yet. *)
LEMMA UnobservedKeeps ==
  ASSUME IInv, NEW w \in Workloads, Spend(w), Moves(w),
         status' = [status EXCEPT ![w].observed = FALSE],
         pods' \in [Pods -> Pod], \A p \in Pods : OwnerOf[p] # w => pods'[p] = pods[p],
         desired' \in [Workloads -> Nat],
         \A v \in Workloads : desired'[v] <= Size(v),
         \A v \in Workloads \ {w} : desired'[v] = desired[v]
  PROVE  IInv'
<1>1. TypeOK
  BY DEF IInv
<1>2. /\ status[w] \in Status
      /\ status' = [status EXCEPT ![w] = [status[w] EXCEPT !.observed = FALSE]]
  BY <1>1 DEF TypeOK
<1>3. /\ [status[w] EXCEPT !.observed = FALSE] \in Status
      /\ [status[w] EXCEPT !.observed = FALSE].condition = status[w].condition
  BY <1>2 DEF Status
<1>4. /\ status' \in [Workloads -> Status]
      /\ status'[w].condition = status[w].condition
      /\ \A v \in Workloads \ {w} : status'[v] = status[v]
  BY <1>1, <1>2, <1>3 DEF TypeOK
<1>5. TypeOK'
  BY <1>1, <1>4, SpendType, MovesType
<1>6. OnlyTouches(w)
  BY <1>4 DEF OnlyTouches
<1> QED
  BY <1>4, <1>5, <1>6, TouchKeeps DEF IInv, DeadlineKept

(* Every step of the cluster keeps the invariant. *)
LEMMA ControllersKeep ==
  ASSUME IInv, Controllers
  PROVE  IInv'
<1> USE DEF IInv
<1>1. ASSUME NEW w \in Workloads, Rollout(w) PROVE IInv'
  <2>1. /\ Spend(w) /\ Moves(w) /\ UNCHANGED desired
        /\ status' = [status EXCEPT ![w].observed = FALSE]
        /\ pods' = [p \in Pods |-> IF OwnerOf[p] = w
                                     THEN [pods[p] EXCEPT !.updated = FALSE]
                                     ELSE pods[p]]
    BY <1>1 DEF Rollout
  <2>2. ASSUME NEW p \in Pods PROVE [pods[p] EXCEPT !.updated = FALSE] \in Pod
    <3>1. pods[p] \in Pod
      BY DEF TypeOK
    <3> QED
      BY <3>1 DEF Pod
  <2>3. pods' \in [Pods -> Pod]
    BY <2>1, <2>2 DEF TypeOK
  <2> QED
    BY <2>1, <2>3, UnobservedKeeps DEF TypeOK
<1>2. ASSUME NEW w \in Workloads, Scale(w) PROVE IInv'
  <2>1. /\ Spend(w) /\ Moves(w) /\ UNCHANGED pods
        /\ status' = [status EXCEPT ![w].observed = FALSE]
        /\ \E n \in 0..Size(w) : desired' = [desired EXCEPT ![w] = n]
    BY <1>2 DEF Scale
  <2>2. Size(w) \in Nat
    BY FS_Subset, FS_CardinalityType DEF PodsOf, Size
  <2>3. /\ desired' \in [Workloads -> Nat]
        /\ \A v \in Workloads : desired'[v] <= Size(v)
        /\ \A v \in Workloads \ {w} : desired'[v] = desired[v]
    BY <2>1, <2>2 DEF TypeOK
  <2> QED
    BY <2>1, <2>3, UnobservedKeeps DEF TypeOK
<1>3. ASSUME NEW w \in Workloads, Publish(w) PROVE IInv'
  <2> DEFINE new == [observed |-> TRUE, counts |-> CountsNow(w),
                     converged |-> KindOf[w] = "StatefulSet" =>
                       \/ Complete(w)
                       \/ status[w].converged /\ \A p \in Alive(w) : pods[p].updated,
                     condition |-> ConditionNow(w)]
  <2>1. status' = [status EXCEPT ![w] = new] /\ Moves(w)
        /\ UNCHANGED <<desired, pods, budget>>
    BY <1>3 DEF Publish
  <2>2. ConditionNow(w) \in Condition
        /\ (ConditionNow(w) = "progressing" => w \in WithDeadline)
    BY DEF ConditionNow, Condition
  <2>3. new \in Status /\ new.condition = ConditionNow(w)
    BY <2>2, CountsType DEF Status
  <2> HIDE DEF new
  <2>4. status' \in [Workloads -> Status] /\ status'[w] = new
    BY <2>1, <2>3 DEF TypeOK
  <2>5. TypeOK'
    BY <2>1, <2>4, MovesType DEF TypeOK
  <2>6. OnlyTouches(w)
    BY <2>1 DEF OnlyTouches, TypeOK
  <2> QED
    BY <2>2, <2>3, <2>4, <2>5, <2>6, TouchKeeps
<1>4. ASSUME NEW w \in Workloads, GiveUp(w) PROVE IInv'
  <2> USE <1>4 DEF GiveUp
  <2>1. status' \in [Workloads -> Status] /\ UNCHANGED <<desired, pods, budget>>
        /\ status'[w].condition = "exceeded"
    BY DEF TypeOK, Status, Condition
  <2>2. TypeOK'
    BY <2>1, MovesType DEF TypeOK
  <2>3. OnlyTouches(w)
    BY DEF OnlyTouches, TypeOK
  <2> QED
    BY <2>1, <2>2, <2>3, TouchKeeps
<1>5. ASSUME NEW p \in Pods, CreatePod(p) PROVE IInv'
  <2>1. [state |-> "unready", age |-> 0, updated |-> TRUE] \in Pod
    BY DEF Pod, OldestAge
  <2> QED
    BY <1>5, <2>1, PodStep DEF CreatePod, TypeOK
<1>6. ASSUME NEW p \in Pods, BecomeReady(p) PROVE IInv'
  <2>1. [pods[p] EXCEPT !.state = "ready"] \in Pod
    BY DEF TypeOK, Pod
  <2> QED
    BY <1>6, <2>1, PodStep DEF BecomeReady, TypeOK
<1>7. ASSUME NEW p \in Pods, BecomeUnready(p) PROVE IInv'
  <2>1. [pods[p] EXCEPT !.state = "unready"] \in Pod
    BY DEF TypeOK, Pod
  <2> QED
    BY <1>7, <2>1, PodStep, SpendType DEF BecomeUnready
<1>8. ASSUME NEW p \in Pods, DeletePod(p) PROVE IInv'
  <2>1. pods[p] \in Pod /\ 0 \in 0..OldestAge
    BY DEF TypeOK, OldestAge
  <2>2. [pods[p] EXCEPT !.state = "leaving", !.age = 0] \in Pod
    BY <2>1 DEF Pod
  <2> QED
    BY <1>8, <2>2, PodStep DEF DeletePod, TypeOK
<1>9. ASSUME NEW p \in Pods, PodGone(p) PROVE IInv'
  <2>1. [state |-> "absent", age |-> 0, updated |-> FALSE] \in Pod
    BY DEF Pod, OldestAge
  <2> QED
    BY <1>9, <2>1, PodStep DEF PodGone, TypeOK
<1> QED
  BY <1>1, <1>2, <1>3, <1>4, <1>5, <1>6, <1>7, <1>8, <1>9 DEF Controllers

-----------------------------------------------------------------------------
(* Time makes pods older and workloads quieter, at the same rate. *)
LEMMA TickKeeps ==
  ASSUME IInv, Tick
  PROVE  IInv'
<1> USE DEF IInv, Tick
<1>1. /\ UNCHANGED <<desired, status, budget, pc, listed, delivering, unread,
                     verdict, moved, named>>
      /\ pc \in {"Deployment", "StatefulSet", "DaemonSet", "pods", "namespaces"}
      /\ skew \in Nat /\ slow \in Nat /\ skew <= slow
  BY DEF TypeOK, Listing, Reading, locals
<1>2. /\ pc = "Deployment" => slow' = slow /\ skew' = skew
      /\ pc # "Deployment" => slow' = slow + 1 /\ slow' <= MaxSlow
      /\ pc \in {"pods", "namespaces"} => skew' = skew + 1
      /\ pc \notin {"pods", "namespaces"} => skew' = skew
  BY <1>1 DEF Reading
<1>3. skew' \in 0..MaxSlow /\ slow' \in 0..MaxSlow /\ skew' <= slow'
  BY <1>1, <1>2 DEF TypeOK
<1>4. \A w \in Workloads :
        /\ quiet[w] \in Nat /\ quiet[w] <= Patience(w) /\ Patience(w) \in Nat
        /\ quiet'[w] = IF quiet[w] < Patience(w) THEN quiet[w] + 1 ELSE Patience(w)
  BY DEF TypeOK, Capped, Patience
<1>5. \A p \in Pods :
        /\ pods'[p].state = pods[p].state /\ pods'[p].updated = pods[p].updated
        /\ pods[p].age \in 0..OldestAge
        /\ pods[p].state # "absent" /\ OwnerOf[p] \in Consulting =>
             pods'[p].age = IF pods[p].age < OldestAge THEN pods[p].age + 1
                                                       ELSE OldestAge
  BY DEF TypeOK, Capped, Pod
<1>6. OldestAge \in Nat
  BY DEF OldestAge
<1>7. pods' \in [Pods -> Pod]
  <2> SUFFICES ASSUME NEW p \in Pods
               PROVE  IF pods[p].state = "absent" \/ OwnerOf[p] \notin Consulting
                        THEN pods[p] \in Pod
                        ELSE [pods[p] EXCEPT !.age = Capped(@, OldestAge)] \in Pod
    OBVIOUS
  <2> QED
    BY <1>6 DEF TypeOK, Pod, Capped
<1>8. TypeOK'
  BY <1>1, <1>3, <1>4, <1>7 DEF TypeOK
<1>9. Listing'
  BY <1>1, <1>2, <1>3 DEF Listing
<1>10. MovedLately'
  BY <1>1, <1>2, <1>4 DEF MovedLately, Listing, TypeOK
<1>11. ListedIsCurrent'
  BY <1>1 DEF ListedIsCurrent, RolloutOf
<1>12. AgesKeepUp'
  <2> SUFFICES ASSUME NEW p \in Pods, pods[p].state # "absent",
                      OwnerOf[p] \in Consulting
               PROVE  pods'[p].age >= quiet'[OwnerOf[p]]
    BY <1>5 DEF AgesKeepUp
  <2>1. Patience(OwnerOf[p]) = OldestAge /\ OwnerOf[p] \in Workloads
    BY DEF Patience, OldestAge, Consulting, OfKind
  <2> QED
    BY <2>1, <1>4, <1>5, <1>6 DEF AgesKeepUp
<1>13. DeliveringLately'
  BY <1>1, <1>2, <1>4 DEF DeliveringLately, Listing, Kinds, TypeOK
<1>14. DeadlineKept'
  BY <1>1, <1>4 DEF DeadlineKept, DeadlinePassed
<1>15. \A w \in Consulting : NonePlaced(w) => NonePlaced(w)'
  <2> SUFFICES ASSUME NEW w \in Consulting, NonePlaced(w), NEW p \in PodsOf(w),
                      pods[p].state \in {"unready", "leaving"}
               PROVE  pods'[p].age >= RolloutGrace + skew'
    BY <1>5 DEF NonePlaced, PodsOf
  <2>1. p \in Pods /\ OwnerOf[p] = w /\ pods[p].age >= RolloutGrace + skew
    BY DEF NonePlaced, PodsOf
  <2> QED
    BY <2>1, <1>1, <1>2, <1>3, <1>5 DEF OldestAge
<1>16. NotDelivering'
  BY <1>1, <1>15 DEF NotDelivering, PodsRead
<1>17. NamedIsBroken'
  <2>1. \A w \in Workloads : RolloutOf(w)' = RolloutOf(w)
    BY <1>1 DEF RolloutOf
  <2>2. \A w \in named : IsBroken(Judgement(RolloutOf(w), FALSE))'
    BY <2>1 DEF NamedIsBroken, TypeOK, IsBroken, Judgement, Progressing
  <2> QED
    BY <2>2, <1>1, <1>15 DEF NamedIsBroken
<1> QED
  BY <1>8, <1>9, <1>10, <1>11, <1>12, <1>13, <1>14, <1>16, <1>17

-----------------------------------------------------------------------------
(* A poll leaves the world alone, so what is said of the world still holds. *)
LEMMA WorldKept ==
  ASSUME IInv, UNCHANGED <<world, quiet>>, skew' \in Nat
  PROVE  /\ AgesKeepUp' /\ DeadlineKept'
         /\ \A w \in Workloads : RolloutOf(w)' = RolloutOf(w)
         /\ \A w \in Workloads :
              IsBroken(Judgement(RolloutOf(w), FALSE))' =
              IsBroken(Judgement(RolloutOf(w), FALSE))
         /\ \A w \in Workloads :
              skew' <= skew => (NonePlaced(w) => NonePlaced(w)')
<1> USE DEF IInv, world
<1>1. AgesKeepUp' /\ DeadlineKept'
  BY DEF AgesKeepUp, DeadlineKept
<1>2. \A w \in Workloads : RolloutOf(w)' = RolloutOf(w)
  BY DEF RolloutOf
<1>3. \A w \in Workloads :
        IsBroken(Judgement(RolloutOf(w), FALSE))' =
        IsBroken(Judgement(RolloutOf(w), FALSE))
  BY <1>2 DEF IsBroken, Judgement, Progressing
<1>4. ASSUME NEW w \in Workloads, skew' <= skew, NonePlaced(w)
      PROVE  NonePlaced(w)'
  <2> SUFFICES ASSUME NEW p \in PodsOf(w), pods[p].state \in {"unready", "leaving"}
               PROVE  pods[p].age >= RolloutGrace + skew'
    BY DEF NonePlaced, PodsOf
  <2>1. p \in Pods /\ pods[p].age >= RolloutGrace + skew
    BY <1>4 DEF NonePlaced, PodsOf
  <2>2. pods[p].age \in Int /\ skew \in Int
    BY <2>1 DEF TypeOK, Pod, OldestAge
  <2> QED
    BY <1>4, <2>1, <2>2
<1> QED
  BY <1>1, <1>2, <1>3, <1>4

(* The three lists of workloads, one kind after the other. *)
LEMMA ListKeeps ==
  ASSUME IInv, NEW kind \in Kinds, List(kind), pc' # "answered",
         pc' \in Kinds \cup {"pods", "judge"}, pc' # "Deployment",
         pc' = "StatefulSet" => kind = "Deployment",
         pc' = "DaemonSet" => kind = "StatefulSet",
         pc' \in {"pods", "judge"} => kind = "DaemonSet",
         pc' = "judge" => Consulting = {}
  PROVE  IInv'
<1>1. /\ pc = kind
      /\ listed' = [w \in DOMAIN listed \cup OfKind(kind) |->
                      IF w \in OfKind(kind) THEN RolloutOf(w) ELSE listed[w]]
      /\ UNCHANGED <<desired, pods, status, budget, delivering, unread, verdict,
                     skew, slow, quiet, moved, named>>
  BY DEF List, world, clocks, ghosts
<1>2. delivering = {} /\ unread = {} /\ skew \in Nat
  BY <1>1 DEF IInv, Listing, TypeOK
<1>3. OfKind(kind) \subseteq Workloads /\ DOMAIN listed \subseteq Workloads
  BY DEF OfKind, IInv, TypeOK
<1>4. /\ AgesKeepUp' /\ DeadlineKept'
      /\ \A w \in Workloads : RolloutOf(w)' = RolloutOf(w)
      /\ \A w \in Workloads :
           IsBroken(Judgement(RolloutOf(w), FALSE))' =
           IsBroken(Judgement(RolloutOf(w), FALSE))
      /\ \A w \in Workloads : NonePlaced(w) => NonePlaced(w)'
  <2>1. UNCHANGED <<world, quiet>> /\ skew' \in Nat /\ skew' <= skew
    BY <1>1, <1>2 DEF world
  <2> QED
    BY <2>1, WorldKept
<1> USE DEF IInv
<1>5. TypeOK'
  <2>1. listed' \in [DOMAIN listed' -> Rollouts] /\ DOMAIN listed' \subseteq Workloads
    BY <1>1, <1>3, RolloutType DEF TypeOK
  <2>2. pc' \in Kinds \cup {"pods", "namespaces", "judge", "answered", "failed"}
    OBVIOUS
  <2> QED
    BY <1>1, <2>1, <2>2 DEF TypeOK
<1>6. Listing'
  <2>1. Workloads = OfKind("Deployment") \cup OfKind("StatefulSet")
                      \cup OfKind("DaemonSet")
    BY DEF OfKind, Kinds
  <2>2. DOMAIN listed' = DOMAIN listed \cup OfKind(kind)
    BY <1>1
  <2>3. /\ kind = "Deployment" => DOMAIN listed = {}
        /\ kind = "StatefulSet" => DOMAIN listed = OfKind("Deployment")
        /\ kind = "DaemonSet" =>
             DOMAIN listed = OfKind("Deployment") \cup OfKind("StatefulSet")
    BY <1>1, EmptyFunction DEF Listing
  <2>4. skew <= slow
    BY DEF Listing
  <2> QED
    BY <1>1, <1>2, <2>1, <2>2, <2>3, <2>4 DEF Listing, Kinds
<1>7. MovedLately' /\ DeliveringLately'
  BY <1>1, <1>2 DEF MovedLately, DeliveringLately
<1>8. ListedIsCurrent'
  BY <1>1, <1>3, <1>4 DEF ListedIsCurrent
<1>9. NotDelivering'
  BY DEF NotDelivering, PodsRead, Kinds, Consulting, OfKind
<1>10. NamedIsBroken'
  <2>1. named \subseteq Workloads
    BY DEF TypeOK
  <2> QED
    BY <1>1, <1>4, <2>1 DEF NamedIsBroken
<1> QED
  BY <1>4, <1>5, <1>6, <1>7, <1>8, <1>9, <1>10

(* Reading pods marks only what is within its grace, and clears the rest. *)
LEMMA ReadKeeps ==
  ASSUME IInv, NEW read \in SUBSET Pods,
         delivering' = delivering \cup DeliveringOwners(read),
         pc \in {"pods", "namespaces"}, pc' \in {"namespaces", "judge"},
         unread' \subseteq Namespaces, pc' = "judge" => unread' = {},
         \A w \in Consulting :
           NamespaceOf[w] \notin unread' => PodsRead(w) \/ PodsOf(w) \subseteq read,
         UNCHANGED <<world, listed, verdict, clocks, ghosts>>
  PROVE  IInv'
<1>1. UNCHANGED <<desired, pods, status, budget, listed, verdict, skew, slow,
                  quiet, moved, named>>
  BY DEF world, clocks, ghosts
<1>2. skew \in Nat
  BY DEF IInv, TypeOK
<1>3. /\ AgesKeepUp' /\ DeadlineKept'
      /\ \A w \in Workloads : RolloutOf(w)' = RolloutOf(w)
      /\ \A w \in Workloads :
           IsBroken(Judgement(RolloutOf(w), FALSE))' =
           IsBroken(Judgement(RolloutOf(w), FALSE))
      /\ \A w \in Workloads : NonePlaced(w) => NonePlaced(w)'
  <2>1. UNCHANGED <<world, quiet>> /\ skew' \in Nat /\ skew' <= skew
    BY <1>1, <1>2 DEF world
  <2> QED
    BY <2>1, WorldKept
<1> USE DEF IInv
<1>4. Consulting \subseteq Workloads
  BY DEF Consulting, OfKind
<1>5. \A w \in DeliveringOwners(read) : w \in Consulting /\ ~NonePlaced(w)
  <2> SUFFICES ASSUME NEW w \in DeliveringOwners(read), NonePlaced(w) PROVE FALSE
    BY DEF DeliveringOwners
  <2>1. PICK p \in read : OwnerOf[p] = w /\ BeingPlaced(p)
    BY DEF DeliveringOwners
  <2>2. /\ p \in PodsOf(w) /\ pods[p].age \in Int
        /\ pods[p].state \in {"unready", "leaving"}
        /\ pods[p].age - skew < RolloutGrace
    BY <2>1 DEF PodsOf, BeingPlaced, AgeWhenAsked, TypeOK, Pod, OldestAge
  <2> QED
    BY <1>2, <2>2 DEF NonePlaced
<1>6. \A w \in DeliveringOwners(read) : quiet[w] < RolloutGrace + skew
  <2> SUFFICES ASSUME NEW w \in DeliveringOwners(read)
               PROVE  quiet[w] < RolloutGrace + skew
    OBVIOUS
  <2>1. PICK p \in read : OwnerOf[p] = w /\ BeingPlaced(p)
    BY DEF DeliveringOwners
  <2>2. /\ p \in Pods /\ pods[p].age \in Int /\ quiet[w] \in Int
        /\ pods[p].state # "absent"
        /\ pods[p].age - skew < RolloutGrace
    BY <1>4, <1>5, <2>1 DEF BeingPlaced, AgeWhenAsked, TypeOK, Pod, OldestAge
  <2>3. pods[p].age >= quiet[w]
    BY <1>5, <2>1, <2>2 DEF AgesKeepUp
  <2> QED
    BY <1>2, <2>2, <2>3
<1>7. ASSUME NEW w \in Consulting \ DeliveringOwners(read), PodsOf(w) \subseteq read
      PROVE  NonePlaced(w)
  <2> SUFFICES ASSUME NEW p \in PodsOf(w), pods[p].state \in {"unready", "leaving"}
               PROVE  pods[p].age >= RolloutGrace + skew
    BY DEF NonePlaced
  <2>1. p \in read /\ OwnerOf[p] = w /\ pods[p].age \in Int
    BY <1>7 DEF PodsOf, TypeOK, Pod, OldestAge
  <2>2. ~BeingPlaced(p)
    BY <1>7, <2>1 DEF DeliveringOwners
  <2> QED
    BY <1>2, <2>1, <2>2 DEF BeingPlaced, AgeWhenAsked
<1>8. TypeOK'
  <2>1. delivering' \subseteq Workloads
    BY <1>4, <1>5 DEF TypeOK
  <2> QED
    BY <1>1, <2>1 DEF TypeOK
<1>9. Listing'
  BY <1>1 DEF Listing, Kinds
<1>10. MovedLately' /\ ListedIsCurrent'
  BY <1>1, <1>3 DEF MovedLately, ListedIsCurrent, TypeOK
<1>11. DeliveringLately'
  BY <1>1, <1>5, <1>6 DEF DeliveringLately
<1>12. NotDelivering'
  <2> SUFFICES ASSUME NEW w \in Consulting \ (delivering' \cup moved), PodsRead(w)'
               PROVE  NonePlaced(w)
    BY <1>1, <1>3, <1>4 DEF NotDelivering
  <2>1. NamespaceOf[w] \notin unread'
    BY DEF PodsRead
  <2> QED
    BY <1>7, <2>1 DEF NotDelivering
<1>13. NamedIsBroken'
  <2>1. named \subseteq Workloads
    BY DEF TypeOK
  <2> QED
    BY <1>1, <1>3, <1>5, <2>1 DEF NamedIsBroken
<1> QED
  BY <1>3, <1>8, <1>9, <1>10, <1>11, <1>12, <1>13

(* A verdict of broken is reached without the benefit of the doubt. *)
LEMMA BrokenWithoutDoubt ==
  ASSUME TypeOK, NEW w \in Workloads, NEW starting \in BOOLEAN,
         starting => w \in Consulting,
         IsBroken(Judgement(RolloutOf(w), starting))
  PROVE  ~starting
<1>1. RolloutOf(w).phase \in {"unknown", "rolling"} \/ w \notin Consulting
  BY DEF RolloutOf, StatefulSetPhase, Consulting, OfKind
<1> QED
  BY <1>1 DEF IsBroken, Judgement, Progressing

(* ... and of a rollout that is short of ready pods, not of pods up to date. *)
LEMMA BrokenIsShort ==
  ASSUME NEW r \in Rollouts, NEW starting \in BOOLEAN,
         IsBroken(Judgement(r, starting)), r.phase \in {"unknown", "rolling"}
  PROVE  ~(r.ready >= r.desired) /\ ~(r.updated < r.desired)
<1> DEFINE short == r.desired # 0 /\ r.ready < r.desired
           rolling == ~r.observed \/ (short /\ Progressing(r, starting))
<1>1. Judgement(r, starting).healthy <=> rolling \/ ~short
  BY DEF Judgement
<1>2. short /\ ~Progressing(r, starting)
  BY <1>1 DEF IsBroken
<1>3. r.ready < r.desired /\ ~(r.updated < r.desired)
  BY <1>2 DEF Progressing
<1> QED
  BY <1>3 DEF Rollouts

(* An observed rollout with every pod up to date and none on its way is not *)
(* given the benefit of the doubt.                                          *)
LEMMA UndoubtedIsSettled ==
  ASSUME NEW r \in Rollouts, r.observed, r.phase # "running",
         r.updated >= r.desired
  PROVE  ~Judgement(r, FALSE).reconciling
<1> DEFINE short == r.desired # 0 /\ r.ready < r.desired
           rolling == ~r.observed \/ (short /\ Progressing(r, FALSE))
<1>1. Judgement(r, FALSE).reconciling <=> rolling
  BY DEF Judgement
<1>2. ~(r.updated < r.desired)
  BY DEF Rollouts
<1>3. ~Progressing(r, FALSE)
  BY <1>2 DEF Progressing
<1> QED
  BY <1>1, <1>3

(* The judgement is made of what was listed, and names what is broken. *)
LEMMA JudgeKeeps ==
  ASSUME IInv, Judge
  PROVE  IInv'
<1>1. /\ pc = "judge" /\ pc' = "answered"
      /\ verdict' = [w \in DOMAIN listed |-> Judgement(listed[w], w \in delivering)]
      /\ named' = {w \in DOMAIN listed \ moved : IsBroken(verdict'[w])}
      /\ UNCHANGED <<desired, pods, status, budget, listed, delivering, unread,
                     skew, slow, quiet, moved>>
  BY DEF Judge, world, clocks
<1>2. skew \in Nat
  BY DEF IInv, TypeOK
<1>3. /\ AgesKeepUp' /\ DeadlineKept'
      /\ \A w \in Workloads : RolloutOf(w)' = RolloutOf(w)
      /\ \A w \in Workloads :
           IsBroken(Judgement(RolloutOf(w), FALSE))' =
           IsBroken(Judgement(RolloutOf(w), FALSE))
      /\ \A w \in Workloads : NonePlaced(w) => NonePlaced(w)'
  <2>1. UNCHANGED <<world, quiet>> /\ skew' \in Nat /\ skew' <= skew
    BY <1>1, <1>2 DEF world
  <2> QED
    BY <2>1, WorldKept
<1> USE DEF IInv
<1>4. DOMAIN listed = Workloads /\ unread = {}
  BY <1>1 DEF Listing
<1>5. ASSUME NEW w \in Workloads
      PROVE  Judgement(listed[w], w \in delivering) \in Health
  <2>1. listed[w] \in Rollouts
    BY <1>4 DEF TypeOK
  <2>2. (w \in delivering) \in BOOLEAN
    OBVIOUS
  <2> QED
    BY <2>1, <2>2, JudgementType
<1>6. TypeOK'
  <2>1. verdict' \in [Workloads -> Health]
    BY <1>1, <1>4, <1>5
  <2>2. verdict' \in Snapshots(Workloads)
    BY <2>1 DEF Snapshots
  <2>3. named' \subseteq Workloads
    BY <1>1, <1>4
  <2> QED
    BY <1>1, <2>2, <2>3 DEF TypeOK
<1>7. Listing'
  <2>1. verdict' = [w \in DOMAIN listed' |->
                      Judgement(listed[w], w \in delivering)']
    BY <1>1 DEF Judgement, Progressing
  <2> QED
    BY <1>1, <1>4, <2>1 DEF Listing, Kinds
<1>8. MovedLately' /\ DeliveringLately'
  BY <1>1 DEF MovedLately, DeliveringLately
<1>9. ListedIsCurrent'
  BY <1>1, <1>3, <1>4 DEF ListedIsCurrent
<1>10. NotDelivering'
  BY <1>1, <1>3 DEF NotDelivering, PodsRead, Consulting, OfKind
<1>11. NamedIsBroken'
  <2> SUFFICES ASSUME NEW w \in named'
               PROVE  /\ w \notin moved /\ w \notin delivering
                      /\ IsBroken(Judgement(RolloutOf(w), FALSE))
                      /\ w \in Consulting => NonePlaced(w)
    BY <1>1, <1>3, <1>4 DEF NamedIsBroken
  <2>1. /\ w \in Workloads /\ w \notin moved
        /\ listed[w] = RolloutOf(w)
        /\ IsBroken(Judgement(listed[w], w \in delivering))
    BY <1>1, <1>4 DEF ListedIsCurrent
  <2>2. w \in delivering => w \in Consulting
    BY DEF DeliveringLately
  <2>3. w \notin delivering
    BY <2>1, <2>2, BrokenWithoutDoubt
  <2>4. IsBroken(Judgement(RolloutOf(w), FALSE))
    BY <2>1, <2>3 DEF IsBroken, Judgement, Progressing
  <2>5. w \in Consulting => NonePlaced(w)
    BY <1>1, <2>1, <2>3 DEF NotDelivering, PodsRead
  <2> QED
    BY <2>1, <2>3, <2>4, <2>5
<1> QED
  BY <1>3, <1>6, <1>7, <1>8, <1>9, <1>10, <1>11

(* A new poll has read nothing and starts both clocks over. *)
LEMMA PollAgainKeeps ==
  ASSUME IInv, PollAgain
  PROVE  IInv'
<1>1. /\ pc' = "Deployment" /\ listed' = <<>> /\ delivering' = {}
      /\ unread' = {} /\ verdict' = <<>> /\ skew' = 0 /\ slow' = 0 /\ moved' = {}
      /\ UNCHANGED <<desired, pods, status, budget, quiet, named>>
  BY DEF PollAgain, world
<1>2. skew \in Nat
  BY DEF IInv, TypeOK
<1>3. /\ AgesKeepUp' /\ DeadlineKept'
      /\ \A w \in Workloads :
           IsBroken(Judgement(RolloutOf(w), FALSE))' =
           IsBroken(Judgement(RolloutOf(w), FALSE))
      /\ \A w \in Workloads : NonePlaced(w) => NonePlaced(w)'
  <2>1. UNCHANGED <<world, quiet>> /\ skew' \in Nat /\ skew' <= skew
    BY <1>1, <1>2 DEF world
  <2> QED
    BY <2>1, WorldKept
<1> USE DEF IInv
<1>4. DOMAIN listed' = {}
  BY <1>1, EmptyFunction
<1>5. TypeOK'
  <2>1. listed' \in [DOMAIN listed' -> Rollouts]
    <3>1. listed' \in [{} -> Rollouts]
      BY <1>1, EmptyFunction
    <3> QED
      BY <1>4, <3>1
  <2>2. verdict' \in Snapshots(Workloads)
    <3>1. verdict' \in [{} -> Health]
      BY <1>1, EmptyFunction
    <3> QED
      BY <3>1 DEF Snapshots
  <2>3. DOMAIN listed' \subseteq Workloads
    BY <1>4
  <2>4. pc' \in Kinds
    BY <1>1 DEF Kinds
  <2>5. skew' \in 0..MaxSlow /\ slow' \in 0..MaxSlow
    BY <1>1
  <2>6. delivering' \subseteq Workloads /\ unread' \subseteq Namespaces
          /\ moved' \subseteq Workloads
    BY <1>1
  <2>7. UNCHANGED <<desired, pods, status, budget, quiet, named>>
    BY <1>1
  <2> QED
    BY <2>1, <2>2, <2>3, <2>4, <2>5, <2>6, <2>7 DEF TypeOK
<1>6. Listing'
  BY <1>1 DEF Listing
<1>7. MovedLately' /\ DeliveringLately'
  BY <1>1 DEF MovedLately, DeliveringLately
<1>8. ListedIsCurrent'
  BY <1>4 DEF ListedIsCurrent
<1>9. NotDelivering'
  BY <1>1 DEF NotDelivering, PodsRead
<1>10. NamedIsBroken'
  <2>1. named \subseteq Workloads
    BY DEF TypeOK
  <2> QED
    BY <1>1, <1>3, <2>1 DEF NamedIsBroken
<1> QED
  BY <1>3, <1>5, <1>6, <1>7, <1>8, <1>9, <1>10

(* A list that fails: nothing is judged, or the namespaces are still to come. *)
LEMMA FailsKeeps ==
  ASSUME IInv, ReadFails \/ ListPodsFails
  PROVE  IInv'
<1>1. /\ UNCHANGED <<desired, pods, status, budget, listed, delivering, verdict,
                     skew, slow, quiet, moved, named>>
      /\ \/ pc' = "failed" /\ UNCHANGED unread
         \/ pc = "pods" /\ pc' = "namespaces" /\ unread' = Namespaces
  BY DEF ReadFails, ListPodsFails, world, locals, clocks, ghosts
<1>2. skew \in Nat
  BY DEF IInv, TypeOK
<1>3. /\ AgesKeepUp' /\ DeadlineKept'
      /\ \A w \in Workloads : RolloutOf(w)' = RolloutOf(w)
      /\ \A w \in Workloads :
           IsBroken(Judgement(RolloutOf(w), FALSE))' =
           IsBroken(Judgement(RolloutOf(w), FALSE))
      /\ \A w \in Workloads : NonePlaced(w) => NonePlaced(w)'
  <2>1. UNCHANGED <<world, quiet>> /\ skew' \in Nat /\ skew' <= skew
    BY <1>1, <1>2 DEF world
  <2> QED
    BY <2>1, WorldKept
<1> USE DEF IInv
<1>4. TypeOK'
  BY <1>1 DEF TypeOK
<1>5. Listing'
  BY <1>1 DEF Listing, Kinds
<1>6. MovedLately' /\ DeliveringLately'
  BY <1>1 DEF MovedLately, DeliveringLately
<1>7. ListedIsCurrent'
  BY <1>1, <1>3 DEF ListedIsCurrent, TypeOK
<1>8. NotDelivering'
  BY <1>1 DEF NotDelivering, PodsRead, Namespaces
<1>9. NamedIsBroken'
  <2>1. named \subseteq Workloads
    BY DEF TypeOK
  <2> QED
    BY <1>1, <1>3, <2>1 DEF NamedIsBroken
<1> QED
  BY <1>3, <1>4, <1>5, <1>6, <1>7, <1>8, <1>9

(* Every step of a poll keeps the invariant. *)
LEMMA ObjectsKeep ==
  ASSUME IInv, Objects
  PROVE  IInv'
<1>1. CASE ListDeployments
  BY <1>1, ListKeeps DEF ListDeployments, Kinds
<1>2. CASE ListStatefulSets
  BY <1>2, ListKeeps DEF ListStatefulSets, Kinds
<1>3. CASE ListDaemonSets
  <2>1. List("DaemonSet") /\ pc' = IF Namespaces = {} THEN "judge" ELSE "pods"
    BY <1>3 DEF ListDaemonSets
  <2>2. Namespaces = {} => Consulting = {}
    BY DEF Namespaces
  <2> QED
    BY <2>1, <2>2, ListKeeps DEF Kinds
<1>4. CASE ListPods
  <2>1. /\ pc = "pods" /\ pc' = "judge" /\ delivering' = DeliveringOwners(Pods)
        /\ UNCHANGED <<world, listed, unread, verdict, clocks, ghosts>>
    BY <1>4 DEF ListPods
  <2>2. delivering = {} /\ unread = {}
    BY <2>1 DEF IInv, Listing
  <2>3. \A w \in Consulting : PodsOf(w) \subseteq Pods
    BY DEF PodsOf
  <2>4. delivering' = delivering \cup DeliveringOwners(Pods)
    BY <2>1, <2>2
  <2> QED
    BY <2>1, <2>2, <2>3, <2>4, ReadKeeps
<1>5. ASSUME NEW ns \in Namespaces, ListPodsIn(ns) PROVE IInv'
  <2> DEFINE read == {p \in Pods : NamespaceOf[OwnerOf[p]] = ns}
  <2>1. /\ pc = "namespaces" /\ ns \in unread /\ unread' = unread \ {ns}
        /\ delivering' = delivering \cup DeliveringOwners(read)
        /\ pc' = IF unread' = {} THEN "judge" ELSE "namespaces"
        /\ UNCHANGED <<world, listed, verdict, clocks, ghosts>>
    BY <1>5 DEF ListPodsIn
  <2>2. unread' \subseteq Namespaces
    BY <2>1 DEF IInv, TypeOK
  <2>3. ASSUME NEW w \in Consulting, NamespaceOf[w] \notin unread'
        PROVE  PodsRead(w) \/ PodsOf(w) \subseteq read
    BY <2>1, <2>3 DEF PodsRead, PodsOf
  <2>4. read \subseteq Pods
    OBVIOUS
  <2> HIDE DEF read
  <2> QED
    BY <2>1, <2>2, <2>3, <2>4, ReadKeeps
<1>6. CASE ListPodsFails \/ ReadFails
  BY <1>6, FailsKeeps
<1>7. CASE Judge
  BY <1>7, JudgeKeeps
<1>8. CASE PollAgain
  BY <1>8, PollAgainKeeps
<1> QED
  BY <1>1, <1>2, <1>3, <1>4, <1>5, <1>6, <1>7, <1>8 DEF Objects

(* A step that changes nothing keeps the invariant. *)
LEMMA StutterKeeps ==
  ASSUME IInv, UNCHANGED vars
  PROVE  IInv'
<1>1. UNCHANGED <<world, quiet>> /\ skew' \in Nat /\ skew' <= skew
  BY DEF vars, ghosts, clocks, IInv, TypeOK
<1>2. /\ AgesKeepUp' /\ DeadlineKept'
      /\ \A w \in Workloads : RolloutOf(w)' = RolloutOf(w)
      /\ \A w \in Workloads :
           IsBroken(Judgement(RolloutOf(w), FALSE))' =
           IsBroken(Judgement(RolloutOf(w), FALSE))
      /\ \A w \in Workloads : NonePlaced(w) => NonePlaced(w)'
  BY <1>1, WorldKept
<1> USE DEF IInv, vars, world, locals, clocks, ghosts
<1>3. TypeOK' /\ MovedLately' /\ DeliveringLately'
  BY DEF TypeOK, MovedLately, DeliveringLately
<1>4. Listing'
  <2>1. \A w \in DOMAIN listed : Judgement(listed[w], w \in delivering)' =
                                 Judgement(listed[w], w \in delivering)
    BY DEF Judgement, Progressing
  <2> QED
    BY <2>1 DEF Listing
<1>5. ListedIsCurrent'
  BY <1>2 DEF ListedIsCurrent, TypeOK
<1>6. NotDelivering'
  BY <1>2 DEF NotDelivering, PodsRead, Consulting, OfKind
<1>7. NamedIsBroken'
  BY <1>2 DEF NamedIsBroken, TypeOK
<1> QED
  BY <1>2, <1>3, <1>4, <1>5, <1>6, <1>7

(* The invariant is inductive. *)
LEMMA NextIInv == IInv /\ [Next]_vars => IInv'
BY ControllersKeep, TickKeeps, ObjectsKeep, StutterKeeps DEF Next

-----------------------------------------------------------------------------
(* The inductive invariant of a poll holds in every reachable state. *)
THEOREM Invariance == Spec => []IInv
BY InitIInv, NextIInv, PTL DEF Spec

(* Every reachable state is well typed. *)
THEOREM TypeCorrect == Spec => []TypeOK
<1>1. IInv => TypeOK
  BY DEF IInv
<1> QED
  BY <1>1, Invariance, PTL

(* What is quiet for its patience has not moved within the poll. *)
LEMMA QuietIsUnmoved ==
  ASSUME IInv, NEW w \in Workloads, quiet[w] >= Patience(w)
  PROVE  w \notin moved
<1>1. quiet[w] \in Nat /\ slow \in 0..MaxSlow
  BY DEF IInv, TypeOK
<1> QED
  BY <1>1 DEF IInv, MovedLately, Patience

(* The benefit of the doubt runs out for a rollout whose pods are all up to *)
(* date, whatever the grace, the deadline and the length of a poll.         *)
THEOREM DoubtEnds == Spec => []DoubtRunsOut
<1>1. IInv => DoubtRunsOut
  <2> SUFFICES ASSUME IInv, pc = "answered", NEW w \in DOMAIN verdict,
                      Published(w), quiet[w] >= Patience(w),
                      status[w].counts.updated >= desired[w]
               PROVE  ~verdict[w].reconciling
    BY DEF DoubtRunsOut
  <2> USE DEF IInv
  <2>1. /\ w \in Workloads
        /\ verdict[w] = Judgement(listed[w], w \in delivering)
    BY DEF Listing
  <2>2. listed[w] = RolloutOf(w)
    BY <2>1, QuietIsUnmoved DEF ListedIsCurrent, Listing
  <2>3. /\ RolloutOf(w).observed /\ RolloutOf(w).desired = desired[w]
        /\ RolloutOf(w).updated >= RolloutOf(w).desired
    BY DEF Published, CountsNow, RolloutOf
  <2>4. w \notin delivering
    <3> SUFFICES ASSUME w \in delivering PROVE FALSE
      OBVIOUS
    <3>1. w \in Consulting /\ quiet[w] < RolloutGrace + skew
      BY DEF DeliveringLately
    <3>2. Patience(w) = MaxSlow + RolloutGrace
      BY <3>1 DEF Patience, Consulting, OfKind
    <3>3. quiet[w] \in Nat /\ skew \in 0..MaxSlow
      BY <2>1 DEF TypeOK
    <3> QED
      BY <3>1, <3>2, <3>3
  <2>5. RolloutOf(w).phase # "running"
    <3> SUFFICES ASSUME RolloutOf(w).phase = "running" PROVE FALSE
      OBVIOUS
    <3>1. KindOf[w] = "Deployment" /\ status[w].condition = "progressing"
      BY <2>1 DEF RolloutOf, DeploymentPhase, StatefulSetPhase, Kinds, TypeOK,
                  Status, Condition
    <3>2. quiet[w] <= ProgressDeadline /\ quiet[w] \in Nat
      BY <2>1, <3>1 DEF DeadlineKept, TypeOK
    <3> QED
      BY <3>1, <3>2 DEF Patience
  <2>6. TypeOK
    OBVIOUS
  <2> HIDE DEF IInv
  <2>7. RolloutOf(w) \in Rollouts
    BY <2>1, <2>6, RolloutType
  <2>8. verdict[w] = Judgement(RolloutOf(w), FALSE)
    BY <2>1, <2>2, <2>4 DEF Judgement, Progressing
  <2> QED
    BY <2>3, <2>5, <2>7, <2>8, UndoubtedIsSettled
<1> QED
  BY <1>1, Invariance, PTL

(* A workload with as many pods up to date as ready ones it lacks has one    *)
(* that is not ready.                                                       *)
LEMMA ShortHasUnready ==
  ASSUME TypeOK, NEW w \in Workloads, CountsNow(w).ready < CountsNow(w).updated
  PROVE  \E p \in PodsOf(w) : pods[p].state = "unready"
<1> DEFINE Ready == {p \in PodsOf(w) : pods[p].state = "ready"}
           Current == {p \in PodsOf(w) :
                         pods[p].state \in {"unready", "ready"} /\ pods[p].updated}
<1>1. CountsNow(w).ready = Cardinality(Ready)
        /\ CountsNow(w).updated = Cardinality(Current)
  BY DEF CountsNow
<1>2. IsFiniteSet(PodsOf(w))
  BY FS_Subset DEF PodsOf
<1>3. IsFiniteSet(Ready)
  BY <1>2, FS_Subset
<1>4. SUFFICES ASSUME Current \subseteq Ready PROVE FALSE
  OBVIOUS
<1>5. Cardinality(Current) <= Cardinality(Ready)
        /\ Cardinality(Current) \in Nat /\ Cardinality(Ready) \in Nat
  BY <1>3, <1>4, FS_Subset, FS_CardinalityType
<1> QED
  BY <1>1, <1>5

(* Nothing but an overdue pod makes a quiescent workload read as broken, in  *)
(* whichever lists its pods were read.                                      *)
THEOREM BlameFounded == Spec => []BlameIsFounded
<1>1. IInv => BlameIsFounded
  <2> SUFFICES ASSUME IInv, pc = "answered", NEW w \in DOMAIN verdict, w \in Consulting,
                      IsBroken(verdict[w]), w \notin moved, Published(w)
               PROVE  \E p \in PodsOf(w) : Overdue(p)
    BY DEF BlameIsFounded
  <2> USE DEF IInv
  <2>1. /\ w \in Workloads
        /\ verdict[w] = Judgement(listed[w], w \in delivering)
        /\ listed[w] = RolloutOf(w)
    BY DEF Listing, ListedIsCurrent
  <2>2. w \notin delivering
    BY <2>1, BrokenWithoutDoubt
  <2>3. NonePlaced(w)
    BY <2>1, <2>2 DEF NotDelivering, PodsRead
  <2>4. RolloutOf(w).phase \in {"unknown", "rolling"}
    BY DEF RolloutOf, StatefulSetPhase, Consulting, OfKind
  <2>5. /\ RolloutOf(w).desired = desired[w]
        /\ RolloutOf(w).ready = CountsNow(w).ready
        /\ RolloutOf(w).updated = CountsNow(w).updated
    BY DEF Published, CountsNow, RolloutOf
  <2>6. /\ CountsNow(w) \in Counts /\ desired[w] \in Nat
    BY <2>1, CountsType DEF TypeOK
  <2>7. CountsNow(w).ready < CountsNow(w).updated
    <3>1. /\ ~(RolloutOf(w).ready >= RolloutOf(w).desired)
          /\ ~(RolloutOf(w).updated < RolloutOf(w).desired)
      <4>1. RolloutOf(w) \in Rollouts
        BY <2>1, RolloutType
      <4>2. verdict[w] = Judgement(RolloutOf(w), FALSE)
        BY <2>1, <2>2 DEF Judgement, Progressing
      <4>3. IsBroken(Judgement(RolloutOf(w), FALSE))
        BY <4>2
      <4> QED
        BY <2>4, <4>1, <4>3, BrokenIsShort
    <3>2. CountsNow(w).ready \in Nat /\ CountsNow(w).updated \in Nat
      BY <2>6 DEF Counts
    <3> QED
      BY <2>5, <2>6, <3>1, <3>2
  <2>8. PICK p \in PodsOf(w) : pods[p].state = "unready"
    BY <2>1, <2>7, ShortHasUnready
  <2>9. pods[p].age >= RolloutGrace + skew /\ pods[p].age \in Int /\ skew \in Nat
    BY <2>3, <2>8 DEF NonePlaced, PodsOf, TypeOK, Pod, OldestAge
  <2> QED
    BY <2>8, <2>9 DEF Overdue
<1> QED
  BY <1>1, Invariance, PTL

(* A workload read as broken is read so by every poll until it moves. *)
THEOREM NamedStays == Spec => NamedStaysNamed
<1>1. IInv /\ IInv' /\ [Next]_vars =>
        [\A w \in named : pc' = "answered" /\ pc # "answered" =>
           IsBroken(verdict'[w])]_vars
  <2> SUFFICES ASSUME IInv, IInv', [Next]_vars, NEW w \in named,
                      pc' = "answered", pc # "answered"
               PROVE  IsBroken(verdict'[w])
    OBVIOUS
  <2>1. Judge
    BY DEF Next, Controllers, Objects, Rollout, Scale, Publish, GiveUp, CreatePod,
           BecomeReady, BecomeUnready, DeletePod, PodGone, PodBecomes, Moves, Tick,
           ListDeployments, ListStatefulSets, ListDaemonSets, ListPods,
           ListPodsFails, ListPodsIn, ReadFails, PollAgain, vars
  <2>2. /\ pc = "judge"
        /\ verdict' = [v \in DOMAIN listed |-> Judgement(listed[v], v \in delivering)]
    BY <2>1 DEF Judge
  <2>3. /\ w \in Workloads /\ w \notin moved /\ w \notin delivering
        /\ IsBroken(Judgement(RolloutOf(w), FALSE))
    BY DEF IInv, NamedIsBroken, TypeOK
  <2>4. DOMAIN listed = Workloads /\ listed[w] = RolloutOf(w)
    BY <2>2, <2>3 DEF IInv, Listing, ListedIsCurrent
  <2>5. verdict'[w] = Judgement(RolloutOf(w), FALSE)
    BY <2>2, <2>3, <2>4 DEF Judgement, Progressing
  <2> QED
    BY <2>3, <2>5 DEF IsBroken
<1> QED
  BY <1>1, Invariance, PTL DEF Spec, NamedStaysNamed
=============================================================================
