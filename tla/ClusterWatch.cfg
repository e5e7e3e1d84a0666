\* A workload alone, four changes; a Flux object and a workload, failing reads.
SPECIFICATION Spec
CONSTANTS
  app = app
  kustomization = kustomization
  FluxObjects <- MCKustomization
  Workloads <- MCApp
  Worlds <- MCWorlds
  SettleTimeout = 3
  StabilityHold = 2
  PollInterval = 1
INVARIANTS
  PassHeldThroughout
  FailPersisted
  NeverBlamesThePast
  KeepsContract
PROPERTY
  WindowEnds
