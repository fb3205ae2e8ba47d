CONSTANTS
  main = main
  display = display
  j1 = j1
  j2 = j2
  j3 = j3
  Parser = parser
  NoThread = NoThread
  NoJob = NoJob
  Clients <- MainAndDisplay
  Jobs = {j1, j2, j3}
  JobsOf <- BothJobs
  KindsOf <- BothInline
  MinUrls = 1
  MaxUrls = 1
  SpuriousWakeups = FALSE
SPECIFICATION AnyKindsSpec
CHECK_DEADLOCK FALSE
PROPERTIES
  SendReturns
