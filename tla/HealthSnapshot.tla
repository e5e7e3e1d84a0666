--------------------------- MODULE HealthSnapshot ---------------------------
(***************************************************************************)
(* One reading of the cluster (internal/domain/model.go, HealthSnapshot)   *)
(* and the questions the watch asks of it.  A snapshot is a function whose *)
(* domain is the set of objects present; an object carries the two booleans*)
(* every judgement is made from.  Reasons, names and messages are left out.*)
(***************************************************************************)

(* ObjectHealth, reduced to what a window decides on. *)
Health == [healthy : BOOLEAN, reconciling : BOOLEAN]

(* Every snapshot over a set of objects: any of them may be absent. *)
Snapshots(objects) == UNION {[present -> Health] : present \in SUBSET objects}

(* A merge answers for an object that is new, or was healthy and settled. *)
Attributable(baseline, o) ==
  o \in DOMAIN baseline => baseline[o].healthy /\ ~baseline[o].reconciling

(* Mutant of NewlyReconciling: churn that predates the merge is named too. *)
MutNewlyReconcilingAll(snapshot, baseline) ==
  {o \in DOMAIN snapshot : snapshot[o].reconciling}

(* Attributable objects that are unhealthy now, or that vanished. *)
NewFailures(snapshot, baseline) ==
  {o \in DOMAIN snapshot : ~snapshot[o].healthy /\ Attributable(baseline, o)}
    \cup {o \in DOMAIN baseline \ DOMAIN snapshot : Attributable(baseline, o)}

(* cluster.newlyReconciling: what a stalled window names. *)
NewlyReconciling(snapshot, baseline) ==
  {o \in DOMAIN snapshot : snapshot[o].reconciling /\ Attributable(baseline, o)}

SettledSince(snapshot, baseline) ==
  \A o \in DOMAIN snapshot :
    snapshot[o].reconciling => ~Attributable(baseline, o)

(* cluster.stillBroken: the named objects not yet healthy and settled. *)
StillBroken(snapshot, broken) ==
  {o \in broken : o \in DOMAIN snapshot =>
                    ~snapshot[o].healthy \/ snapshot[o].reconciling}
=============================================================================
