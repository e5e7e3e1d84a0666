---------------------------- MODULE WorkloadHealth ----------------------------
(***************************************************************************)
(* internal/adapters/kubernetes/health.go, Objects: how replica counts,    *)
(* conditions and pods become the two booleans per workload that a window  *)
(* decides on.  The workloads are listed first and the pods after them, in *)
(* one list or, when that fails, namespace by namespace; controllers, pods *)
(* and the clock move in between.  Times are ages, which saturate where    *)
(* nothing looks any further.                                              *)
(***************************************************************************)
EXTENDS Integers, FiniteSets, HealthSnapshot

CONSTANTS
  Workloads, Pods,
  KindOf,            \* the kind of each workload
  NamespaceOf,       \* the namespace of each workload
  OwnerOf,           \* the workload that controls each pod
  WithDeadline,      \* the Deployments that publish a Progressing condition
  RolloutGrace,      \* health.go: how long a pod may be on its way
  ProgressDeadline,  \* of a Deployment's controller
  Budgets,           \* bound: rollouts, scalings and failures per workload
  MaxSlow,           \* bound: time one poll's reads may take
  Faulty             \* TRUE when a list may fail or be cut off

Kinds == {"Deployment", "StatefulSet", "DaemonSet"}

ASSUME HealthAssumption ==
  /\ KindOf \in [Workloads -> Kinds] /\ OwnerOf \in [Pods -> Workloads]
  /\ DOMAIN NamespaceOf = Workloads
  /\ IsFiniteSet(Pods)
  /\ WithDeadline \subseteq {w \in Workloads : KindOf[w] = "Deployment"}
  /\ RolloutGrace \in Nat \ {0} /\ ProgressDeadline \in Nat \ {0}
  /\ Budgets \subseteq [Workloads -> Nat] /\ MaxSlow \in Nat /\ Faulty \in BOOLEAN

OfKind(kind) == {w \in Workloads : KindOf[w] = kind}
PodsOf(w) == {p \in Pods : OwnerOf[p] = w}
Size(w) == Cardinality(PodsOf(w))

(* The kinds whose pods are consulted, and the namespaces those are in. *)
Consulting == OfKind("StatefulSet") \cup OfKind("DaemonSet")
Namespaces == {NamespaceOf[w] : w \in Consulting}

VARIABLES
  desired,     \* replicas asked for, or nodes a DaemonSet is to run on
  pods,        \* each pod: where it is in its life, how long, which template
  status,      \* what each controller last published
  budget,      \* rollouts, scalings and failures still to come
  pc, listed, delivering, unread, verdict,   \* one poll: Objects
  skew, slow,  \* time since time.Now() was taken, and since the poll began
  quiet,       \* per workload, how long since anything about it moved
  moved,       \* workloads that moved after this poll listed them
  named        \* workloads judged broken that have not moved since

world == <<desired, pods, status, budget>>
locals == <<listed, delivering, unread, verdict>>
clocks == <<skew, slow>>
ghosts == <<quiet, moved, named>>
vars == <<world, pc, locals, clocks, ghosts>>

OldestAge == RolloutGrace + MaxSlow

(* How long a workload may be quiet before the benefit of the doubt is over. *)
Patience(w) ==
  MaxSlow + IF KindOf[w] = "Deployment" THEN ProgressDeadline + 1
                                        ELSE RolloutGrace

Pod == [state : {"absent", "unready", "ready", "leaving"},
        age : 0..OldestAge, updated : BOOLEAN]
Condition == {"absent", "progressing", "complete", "exceeded"}
Counts == [desired : Nat, ready : Nat, updated : Nat]
Status == [observed : BOOLEAN, counts : Counts, converged : BOOLEAN,
           condition : Condition]
Phases == {"unknown", "running", "rolling", "finished", "stopped"}
Rollouts == [observed : BOOLEAN, desired : Nat, ready : Nat, updated : Nat,
             phase : Phases]

TypeOK ==
  /\ desired \in [Workloads -> Nat] /\ status \in [Workloads -> Status]
  /\ budget \in [Workloads -> Nat] /\ quiet \in [Workloads -> Nat]
  /\ \A w \in Workloads : desired[w] <= Size(w) /\ quiet[w] <= Patience(w)
  /\ pods \in [Pods -> Pod]
  /\ pc \in Kinds \cup {"pods", "namespaces", "judge", "answered", "failed"}
  /\ DOMAIN listed \subseteq Workloads /\ listed \in [DOMAIN listed -> Rollouts]
  /\ delivering \subseteq Workloads /\ unread \subseteq Namespaces
  /\ verdict \in Snapshots(Workloads)
  /\ skew \in 0..MaxSlow /\ slow \in 0..MaxSlow
  /\ moved \subseteq Workloads /\ named \subseteq Workloads

-----------------------------------------------------------------------------
(* The cluster.  Controllers replace pods, publish status and give up.      *)

(* What the controller of w would publish now. *)
CountsNow(w) ==
  [desired |-> desired[w],
   ready |-> Cardinality({p \in PodsOf(w) : pods[p].state = "ready"}),
   updated |-> Cardinality({p \in PodsOf(w) :
                 pods[p].state \in {"unready", "ready"} /\ pods[p].updated})]

Complete(w) ==
  /\ CountsNow(w).updated = desired[w]
  /\ CountsNow(w).ready = desired[w]

(* w is seen to move: it is no longer quiet, nor what a poll said of it. *)
Moves(w) ==
  /\ quiet' = [quiet EXCEPT ![w] = 0]
  /\ moved' = IF w \in DOMAIN listed THEN moved \cup {w} ELSE moved
  /\ named' = named \ {w}
  /\ UNCHANGED <<pc, locals, clocks>>

PodBecomes(p, pod) ==
  /\ pods' = [pods EXCEPT ![p] = pod]
  /\ Moves(OwnerOf[p])
  /\ UNCHANGED <<desired, status>>

(* One more of the things that may happen to w in this behaviour. *)
Spend(w) ==
  /\ budget[w] > 0
  /\ budget' = [budget EXCEPT ![w] = @ - 1]

(* A merge reaches w: a new template, so none of its pods is up to date. *)
Rollout(w) ==
  /\ Spend(w)
  /\ pods' = [p \in Pods |-> IF OwnerOf[p] = w
                               THEN [pods[p] EXCEPT !.updated = FALSE]
                               ELSE pods[p]]
  /\ status' = [status EXCEPT ![w].observed = FALSE]
  /\ Moves(w)
  /\ UNCHANGED desired

(* w is scaled, or a node joins or leaves. *)
Scale(w) ==
  /\ Spend(w)
  /\ \E n \in 0..Size(w) : n # desired[w] /\ desired' = [desired EXCEPT ![w] = n]
  /\ status' = [status EXCEPT ![w].observed = FALSE]
  /\ Moves(w)
  /\ UNCHANGED pods

Alive(w) == {p \in PodsOf(w) : pods[p].state # "absent"}

CreatePod(p) ==
  /\ pods[p].state = "absent"
  /\ Cardinality(Alive(OwnerOf[p])) < desired[OwnerOf[p]]
  /\ PodBecomes(p, [state |-> "unready", age |-> 0, updated |-> TRUE])
  /\ UNCHANGED budget

BecomeReady(p) ==
  /\ pods[p].state = "unready"
  /\ PodBecomes(p, [pods[p] EXCEPT !.state = "ready"])
  /\ UNCHANGED budget

(* A probe that passed fails again: the pod keeps its age. *)
BecomeUnready(p) ==
  /\ pods[p].state = "ready"
  /\ Spend(OwnerOf[p])
  /\ PodBecomes(p, [pods[p] EXCEPT !.state = "unready"])

(* The controller deletes a pod that is out of date, or one too many. *)
DeletePod(p) ==
  /\ pods[p].state \in {"unready", "ready"}
  /\ \/ ~pods[p].updated
     \/ Cardinality(Alive(OwnerOf[p])) > desired[OwnerOf[p]]
  /\ PodBecomes(p, [pods[p] EXCEPT !.state = "leaving", !.age = 0])
  /\ UNCHANGED budget

PodGone(p) ==
  /\ pods[p].state = "leaving"
  /\ PodBecomes(p, [state |-> "absent", age |-> 0, updated |-> FALSE])
  /\ UNCHANGED budget

(* A Deployment's Progressing condition, once its controller looks.  It is *)
(* True with NewReplicaSetAvailable when complete, and keeps that reason    *)
(* until the next rollout; scaling does not take it back.                   *)
ConditionNow(w) ==
  IF w \notin WithDeadline THEN "absent"
  ELSE IF Complete(w) THEN "complete"
  ELSE IF status[w].condition = "complete"
            /\ \A p \in Alive(w) : pods[p].updated THEN "complete"
  ELSE "progressing"

Publish(w) ==
  LET new == [observed |-> TRUE, counts |-> CountsNow(w),
              converged |-> KindOf[w] = "StatefulSet" =>
                \/ Complete(w)
                \/ status[w].converged /\ \A p \in Alive(w) : pods[p].updated,
              condition |-> ConditionNow(w)]
  IN  /\ new # status[w]
      /\ status[w].condition = "exceeded" /\ ConditionNow(w) = "progressing" =>
           new.counts # status[w].counts \/ ~status[w].observed
      /\ status' = [status EXCEPT ![w] = new]
      /\ Moves(w)
      /\ UNCHANGED <<desired, pods, budget>>

(* A Deployment that made no progress for its deadline is given up. *)
DeadlinePassed(w) ==
  /\ w \in WithDeadline /\ status[w].condition = "progressing"
  /\ quiet[w] >= ProgressDeadline

GiveUp(w) ==
  /\ DeadlinePassed(w)
  /\ status' = [status EXCEPT ![w].condition = "exceeded"]
  /\ Moves(w)
  /\ UNCHANGED <<desired, pods, budget>>

Capped(age, cap) == IF age < cap THEN age + 1 ELSE cap
(* A poll stands at "Deployment" until its first list: between two polls.   *)
Reading == pc \in {"StatefulSet", "DaemonSet", "pods", "namespaces"}

(* Time passes; not past a deadline that a controller is about to act on.   *)
(* Nothing looks at the age of a Deployment's pods.                         *)
Tick ==
  /\ Reading \/ pc = "Deployment"
  /\ \A w \in Workloads : ~DeadlinePassed(w)
  /\ pods' = [p \in Pods |->
                IF pods[p].state = "absent" \/ OwnerOf[p] \notin Consulting
                  THEN pods[p]
                  ELSE [pods[p] EXCEPT !.age = Capped(@, OldestAge)]]
  /\ quiet' = [w \in Workloads |-> Capped(quiet[w], Patience(w))]
  /\ IF Reading THEN slow < MaxSlow /\ slow' = slow + 1 ELSE UNCHANGED slow
  /\ skew' = IF pc \in {"pods", "namespaces"} THEN skew + 1 ELSE skew
  /\ UNCHANGED <<desired, status, budget, pc, locals, moved, named>>

-----------------------------------------------------------------------------
(* One poll.  A rollout is what one workload's status says of itself.       *)

(* deploymentPhase: False means the controller gave up; True means pods are *)
(* on their way, unless the reason says that the rollout is complete.       *)
DeploymentPhase(condition) ==
  CASE condition = "absent" -> "unknown"
    [] condition = "exceeded" -> "stopped"
    [] condition = "complete" -> "finished"
    [] condition = "progressing" -> "running"

(* statefulSetPhase: current and update revision differ, or do not. *)
StatefulSetPhase(converged) == IF converged THEN "unknown" ELSE "rolling"

RolloutOf(w) ==
  [observed |-> status[w].observed,
   desired |-> IF KindOf[w] = "DaemonSet" THEN status[w].counts.desired
                                          ELSE desired[w],
   ready |-> status[w].counts.ready,
   updated |-> status[w].counts.updated,
   phase |-> CASE KindOf[w] = "Deployment" ->
                    DeploymentPhase(status[w].condition)
               [] KindOf[w] = "StatefulSet" ->
                    StatefulSetPhase(status[w].converged)
               [] KindOf[w] = "DaemonSet" -> "unknown"]

List(kind) ==
  /\ pc = kind
  /\ listed' = [w \in DOMAIN listed \cup OfKind(kind) |->
                  IF w \in OfKind(kind) THEN RolloutOf(w) ELSE listed[w]]
  /\ UNCHANGED <<world, delivering, unread, verdict, clocks, ghosts>>

ListDeployments == List("Deployment") /\ pc' = "StatefulSet"
ListStatefulSets == List("StatefulSet") /\ pc' = "DaemonSet"
ListDaemonSets ==
  List("DaemonSet") /\ pc' = IF Namespaces = {} THEN "judge" ELSE "pods"

(* A pod's age by the clock that deliveringPods read before its first list. *)
AgeWhenAsked(p) == pods[p].age - skew

BeingPlaced(p) ==
  \/ pods[p].state = "leaving" /\ AgeWhenAsked(p) < RolloutGrace
  \/ pods[p].state = "unready" /\ AgeWhenAsked(p) < RolloutGrace

(* The pods of a Deployment are controlled by its ReplicaSet: no workload.  *)
DeliveringOwners(read) ==
  {w \in Consulting : \E p \in read : OwnerOf[p] = w /\ BeingPlaced(p)}

(* The cluster-wide list answers every namespace at once. *)
ListPods ==
  /\ pc = "pods"
  /\ delivering' = DeliveringOwners(Pods)
  /\ pc' = "judge"
  /\ UNCHANGED <<world, listed, unread, verdict, clocks, ghosts>>

(* Mutant of ListPodsFails: the truncated page is used as it came. *)
MutListPodsTruncated ==
  /\ Faulty /\ pc = "pods"
  /\ \E page \in SUBSET Pods : delivering' = DeliveringOwners(page)
  /\ pc' = "judge"
  /\ UNCHANGED <<world, listed, unread, verdict, clocks, ghosts>>

(* It failed, was forbidden, or was cut off at the collection limit: the    *)
(* page is dropped and each namespace that matters is read by itself.       *)
ListPodsFails ==
  /\ Faulty /\ pc = "pods"
  /\ unread' = Namespaces
  /\ pc' = "namespaces"
  /\ UNCHANGED <<world, listed, delivering, verdict, clocks, ghosts>>

ListPodsIn(ns) ==
  /\ pc = "namespaces" /\ ns \in unread
  /\ delivering' = delivering \cup
       DeliveringOwners({p \in Pods : NamespaceOf[OwnerOf[p]] = ns})
  /\ unread' = unread \ {ns}
  /\ pc' = IF unread' = {} THEN "judge" ELSE "namespaces"
  /\ UNCHANGED <<world, listed, verdict, clocks, ghosts>>

(* Mutant of ReadFails: a namespace that cannot be read is passed over. *)
MutReadFailsPassedOver ==
  /\ Faulty /\ pc = "namespaces"
  /\ \E ns \in unread : unread' = unread \ {ns}
  /\ pc' = IF unread' = {} THEN "judge" ELSE "namespaces"
  /\ UNCHANGED <<world, listed, delivering, verdict, clocks, ghosts>>

(* Every other failed list fails the snapshot. *)
ReadFails ==
  /\ Faulty /\ pc \in Kinds \cup {"namespaces"}
  /\ pc' = "failed"
  /\ UNCHANGED <<world, locals, clocks, ghosts>>

(* Mutant of Progressing: the revisions are taken for a verdict. *)
MutProgressingRolling(r, starting) ==
  \/ r.phase \in {"running", "rolling"}
  \/ r.phase = "unknown" /\ (starting \/ r.updated < r.desired)

(* progressing: the controller's verdict, or the pods and the counts. *)
Progressing(r, starting) ==
  \/ r.phase = "running"
  \/ r.phase \in {"unknown", "rolling"} /\ (starting \/ r.updated < r.desired)

(* workloadHealth. *)
Judgement(r, starting) ==
  LET short == r.desired # 0 /\ r.ready < r.desired
      rolling == ~r.observed \/ (short /\ Progressing(r, starting))
  IN  [healthy |-> rolling \/ ~short, reconciling |-> rolling]

IsBroken(health) == ~health.healthy

Judge ==
  /\ pc = "judge"
  /\ verdict' = [w \in DOMAIN listed |-> Judgement(listed[w], w \in delivering)]
  /\ named' = {w \in DOMAIN listed \ moved : IsBroken(verdict'[w])}
  /\ pc' = "answered"
  /\ UNCHANGED <<world, listed, delivering, unread, clocks, quiet, moved>>

(* The next poll of the window, or the next window. *)
PollAgain ==
  /\ pc \in {"answered", "failed"}
  /\ pc' = "Deployment"
  /\ listed' = <<>> /\ delivering' = {} /\ unread' = {} /\ verdict' = <<>>
  /\ skew' = 0 /\ slow' = 0 /\ moved' = {}
  /\ UNCHANGED <<world, quiet, named>>

-----------------------------------------------------------------------------
(* A converged cluster, before the first poll. *)
Init ==
  /\ desired = [w \in Workloads |-> Size(w)]
  /\ pods = [p \in Pods |->
               [state |-> "ready", age |-> OldestAge, updated |-> TRUE]]
  /\ status = [w \in Workloads |->
       [observed |-> TRUE, converged |-> TRUE,
        counts |-> [desired |-> Size(w), ready |-> Size(w), updated |-> Size(w)],
        condition |-> IF w \in WithDeadline THEN "complete" ELSE "absent"]]
  /\ budget \in Budgets
  /\ pc = "Deployment" /\ listed = <<>> /\ delivering = {} /\ unread = {}
  /\ verdict = <<>> /\ skew = 0 /\ slow = 0
  /\ quiet = [w \in Workloads |-> Patience(w)]
  /\ moved = {} /\ named = {}

Controllers ==
  \/ \E w \in Workloads : Rollout(w) \/ Scale(w) \/ Publish(w) \/ GiveUp(w)
  \/ \E p \in Pods : \/ CreatePod(p) \/ BecomeReady(p) \/ BecomeUnready(p)
                     \/ DeletePod(p) \/ PodGone(p)

Objects ==
  \/ ListDeployments \/ ListStatefulSets \/ ListDaemonSets
  \/ ListPods \/ ListPodsFails \/ (\E ns \in Namespaces : ListPodsIn(ns))
  \/ ReadFails \/ Judge \/ PollAgain

Next == Controllers \/ Tick \/ Objects
Spec == Init /\ [][Next]_vars

-----------------------------------------------------------------------------
(* The controller has seen and published all there is to say about w. *)
Published(w) == status[w].observed /\ status[w].counts = CountsNow(w)

(* The benefit of the doubt runs out: a workload about which nothing moved  *)
(* for its grace, or its controller's deadline, is not read as reconciling  *)
(* when every pod it asks for is there and up to date.                      *)
DoubtRunsOut ==
  pc = "answered" =>
    \A w \in DOMAIN verdict :
      Published(w) /\ quiet[w] >= Patience(w)
        /\ status[w].counts.updated >= desired[w] => ~verdict[w].reconciling

(* A pod that is not where it should be and is past its grace. *)
Overdue(p) ==
  pods[p].state \in {"unready", "leaving"} /\ pods[p].age >= RolloutGrace

(* A workload whose pods are consulted is only read as broken when one of   *)
(* them is overdue, unless it moved between the two lists or its status was *)
(* behind: no ordinary restart is blamed, whichever way the pods were read. *)
BlameIsFounded ==
  pc = "answered" =>
    \A w \in DOMAIN verdict \cap Consulting :
      IsBroken(verdict[w]) /\ w \notin moved /\ Published(w) =>
        \E p \in PodsOf(w) : Overdue(p)

(* Breakage does not turn back into progress by itself: a workload a poll   *)
(* read as broken is not read as reconciling by a later poll before         *)
(* something about it has moved.  A window counts on it: persistence starts *)
(* over with every poll that reads otherwise.                               *)
NamedStaysNamed ==
  [][\A w \in named : pc' = "answered" /\ pc # "answered" =>
       IsBroken(verdict'[w])]_vars

(* progressing's comment: "the benefit of the doubt has to run out, because *)
(* an object that reconciles forever denies every later merge the pass      *)
(* path".  Of a rollout with all its pods in place, the first of which to   *)
(* be replaced never passes its probe.                                      *)
StuckRolloutIsNamed ==
  pc = "answered" =>
    \A w \in DOMAIN verdict :
      /\ Published(w) /\ quiet[w] >= Patience(w)
      /\ Cardinality(Alive(w)) = desired[w]
      /\ \E p \in Alive(w) :
           pods[p].state = "unready" /\ pods[p].updated /\ Overdue(p)
      => ~verdict[w].reconciling
=============================================================================
