SPECIFICATION FairSpec
CONSTANTS
  a = a
  b = b
  c = c
  Images <- ThreeImages
  Chunks <- SizeOf
  Blocks <- OneBlock
  Packed <- OneImage
  Unloadable <- OneImage
  Rejected <- OnlyC
  Retries = 0
  IdenMod = 8
  ResendPeriod = 1
  ResetPeriod = 2
  Cap = 3
  Metered = FALSE
  LossBudget = 0
  Prompt = FALSE
  MaxRuns = 2
  MaxReboots = 1
INVARIANTS
  TypeOK
  FedInOrder
  OkMeansVerified
  BootedMeansTold
PROPERTIES
  DownloadSpec
  HostTerminates
  DeviceReturns
CHECK_DEADLOCK FALSE
