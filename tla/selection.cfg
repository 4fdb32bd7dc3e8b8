SPECIFICATION Spec
CONSTANTS
  MaxWindow = 2
  MaxSegments = 3
  Configs <- AllConfigs
  Budget = 4
  Threshold = 5
  Score = {0, 1}
  MaxPrompt = 7
  MaxTokens = 7
INVARIANTS
  TypeOK
  InOrder
  WindowsStay
  BatchedAgrees
  Proportional
