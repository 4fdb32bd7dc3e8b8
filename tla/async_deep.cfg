SPECIFICATION FairSpec
CONSTANTS
  None = None
  r1 = r1
  r2 = r2
  r3 = r3
  Req = {r1, r2}
  Block = {1, 2, 3, 4, 5}
  BlockSize = 1
  Budget = 1
  Recompute = 1
  MinOutput = 2
  Prompt <- Prompts
  MaxTokens <- Outputs
  Async = TRUE
  Depth = 3
  APC = TRUE
  Shared = 1
  MaxBatch = 3
  MayAbort = {r1}
  LowestFirst = TRUE
INVARIANTS
  SourceOutlivesQueue
  RefExact
PROPERTIES
  Progress
