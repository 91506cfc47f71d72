SPECIFICATION Spec
CONSTANTS
  a = a
  b = b
  c = c
  Images <- OnlyB
  Chunks <- SizeOf
  Blocks <- OneBlock
  Packed = {}
  Unloadable <- OnlyB
  Rejected = {}
  Retries = 0
  IdenMod = 8
  ResendPeriod = 1
  ResetPeriod = 7
  Cap = 3
  Metered = TRUE
  LossBudget = 0
  Prompt = TRUE
  MaxRuns = 1
  MaxReboots = 0
INVARIANT BootsOnlyVerified
CHECK_DEADLOCK FALSE
