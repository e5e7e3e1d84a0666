\* One workload moves in a behaviour, once or twice; the others are read beside it.
SPECIFICATION Spec
CONSTANTS
  sts = sts
  ds = ds
  deploy = deploy
  p1 = p1
  p2 = p2
  p3 = p3
  p4 = p4
  data = data
  system = system
  Workloads <- MCWorkloads
  Pods <- MCPods
  KindOf <- MCKindOf
  NamespaceOf <- MCNamespaceOf
  OwnerOf <- MCOwnerOf
  WithDeadline <- MCWithDeadline
  Budgets <- MCBudgets
  RolloutGrace = 2
  ProgressDeadline = 2
  MaxSlow = 1
  Faulty = TRUE
INVARIANTS
  DoubtRunsOut
  BlameIsFounded
PROPERTY
  NamedStaysNamed
