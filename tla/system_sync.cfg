SPECIFICATION System
CONSTANTS
  None = None
  r1 = r1
  r2 = r2
  r3 = r3
  Req = {r1, r2}
  Block = {1, 2, 3, 4, 5}
  BlockSize = 2
  Budget = 2
  Recompute = 1
  MinOutput = 2
  Prompt <- PromptThree
  MaxTokens <- Outputs
  Async = FALSE
  Depth = 1
  APC = TRUE
  Shared = 2
  MaxBatch = 4
  MayAbort = {r1}
  LowestFirst = TRUE
INVARIANTS
  TypeOK
  PendingSourceStable
  WorkerTypeOK
PROPERTIES
  CacheIsLogical
