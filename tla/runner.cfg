SPECIFICATION Spec
CONSTANTS
  None = None
  r1 = r1
  r2 = r2
  l1 = l1
  l2 = l2
  Req = {r1, r2}
  Layer = {l1, l2}
  Prompt <- Prompts
  Limit <- Limits
  MaxChunk = 2
  MaxHit = 2
  MaxResets = 1
  Threshold = 3
  Budget = 2
  Recompute = 2
  Window = 2
  LayerLengths <- AnyLengths
  Declared = TRUE
  MayBypass = TRUE
INVARIANTS
  TypeOK
  RowsCurrent
  LengthsOnce
  BypassFails
  FailsOnlyIfBypassed
PROPERTIES
  WindowComplete
