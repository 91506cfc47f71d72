SPECIFICATION FairSpec
CONSTANTS
  a = a
  b = b
  c = c
  Images <- FullAndEmpty
  Chunks <- SizeOf
  Blocks <- OneBlock
  Packed = {}
  Unloadable = {}
  Rejected = {}
  Retries = 2
  IdenMod = 8
  ResendPeriod = 1
  ResetPeriod = 7
  Cap = 3
  Metered = TRUE
  LossBudget = 2
  Prompt = TRUE
  MaxRuns = 1
  MaxReboots = 0
PROPERTY Succeeds
CHECK_DEADLOCK FALSE
