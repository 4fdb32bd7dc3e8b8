SPECIFICATION FairSpec
CONSTANTS
  None = None
  r1 = r1
  r2 = r2
  r3 = r3
  Req = {r1}
  Block = {1, 2, 3, 4, 5}
  BlockSize = 1
  Budget = 2
  Recompute = 1
  MinOutput = 2
  Prompt <- PromptThree
  MaxTokens <- OutputTwo
  Async = TRUE
  Depth = 2
  APC = FALSE
  Shared = 0
  MaxBatch = 3
  MayAbort = {}
  LowestFirst = TRUE
PROPERTIES
  ContinuesAfterCommit
