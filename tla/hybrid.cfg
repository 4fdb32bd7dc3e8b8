CONSTANTS
  r1 = r1
  r2 = r2
  attention = attention
  state = state
  Req = {r1, r2}
  None = None
  Group = {attention, state}
  Attention = attention
  Page <- Pages
  PoolSize = 10
  Budget = 2
  Recompute = 1
  Prompt <- Prompts
  MaxTokens <- Outputs
  MinOutput = 1
  Drafts = 2
  MayAbort = {r1}
SPECIFICATION Spec
INVARIANTS TypeOK PoolExact AnchorsAccepted GroupsFit
