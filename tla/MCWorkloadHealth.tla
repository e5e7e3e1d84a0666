--------------------------- MODULE MCWorkloadHealth ---------------------------
(* A StatefulSet of two pods, which can be caught in the middle of its     *)
(* update, and a DaemonSet and a Deployment of one pod each.               *)
EXTENDS WorkloadHealth
CONSTANTS sts, ds, deploy, p1, p2, p3, p4, data, system

MCWorkloads == {sts, ds, deploy}
MCPods == {p1, p2, p3, p4}
MCKindOf == [w \in MCWorkloads |-> CASE w = sts -> "StatefulSet"
                                     [] w = ds -> "DaemonSet"
                                     [] w = deploy -> "Deployment"]
MCNamespaceOf == [w \in MCWorkloads |-> IF w = ds THEN system ELSE data]
MCOwnerOf == [p \in MCPods |-> CASE p \in {p1, p2} -> sts
                                 [] p = p3 -> ds
                                 [] p = p4 -> deploy]
MCWithDeadline == {deploy}

Budget(s, d, p) ==
  [w \in MCWorkloads |-> CASE w = sts -> s [] w = ds -> d [] w = deploy -> p]
MCBudgets == {Budget(1, 0, 0), Budget(0, 2, 0), Budget(0, 0, 2)}
=============================================================================
