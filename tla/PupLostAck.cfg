SPECIFICATION FairSpec
CONSTANTS
  a = a
  b = b
  c = c
  Images <- OnlyB
  Chunks <- SizeOf
  Blocks <- OneBlock
  Packed = {}
  Unloadable = {}
  Rejected = {}
  Retries = 0
  IdenMod = 8
  ResendPeriod = 1
  ResetPeriod = 7
  Cap = 3
  Metered = TRUE
  LossBudget = 1
  Prompt = TRUE
  MaxRuns = 1
  MaxReboots = 0
PROPERTY OkMeansBooted
CHECK_DEADLOCK FALSE
