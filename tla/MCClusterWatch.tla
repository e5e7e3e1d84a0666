--------------------------- MODULE MCClusterWatch ---------------------------
(* Instances of ClusterWatch: one object that flaps, and a Flux object     *)
(* beside a workload.                                                      *)
EXTENDS ClusterWatch
CONSTANTS app, kustomization

MCApp == {app}
MCKustomization == {kustomization}

(* Both well, one of them already broken or rolling, one of them absent.   *)
Well == [healthy |-> TRUE, reconciling |-> FALSE]
Ill == [healthy |-> FALSE, reconciling |-> FALSE]
Rolling == [healthy |-> TRUE, reconciling |-> TRUE]
Pairs ==
  {[o \in {app, kustomization} |-> IF o = app THEN a ELSE Well] :
     a \in {Well, Ill, Rolling}}
    \cup {[o \in {kustomization} |-> Well]}

(* One workload that flaps: fails, recovers, fails and recovers again.     *)
Alone ==
  [before : Snapshots({app}), moving : {{app}}, changes : {4},
   delays : {1}, faulty : {FALSE}]

(* A Flux object beside a workload, read by two calls that may fail.       *)
Paired ==
  [before : Pairs, moving : {{app, kustomization}}, changes : {2},
   delays : {0}, faulty : {TRUE}]

MCWorlds == Alone \cup Paired
=============================================================================
