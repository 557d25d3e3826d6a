SPECIFICATION Spec
CONSTANTS
  NThread = 3
  NBlock = 4
INVARIANTS
  BlocksPartitioned
  NoWorkerOutlivesPool
PROPERTIES
  NoClaimAfterFailure
  ImplementsJob
  Termination
