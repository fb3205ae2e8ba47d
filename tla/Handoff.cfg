CONSTANTS
  main = main
  display = display
  j1 = j1
  j2 = j2
  j3 = j3
  Parser = parser
  NoThread = NoThread
  NoJob = NoJob
  Clients <- MainAndDisplay
  Jobs = {j1, j2, j3}
  JobsOf <- BothJobs
  KindsOf <- BothKinds
  MinUrls = 0
  MaxUrls = 1
  SpuriousWakeups = TRUE
SPECIFICATION MCSpec
CHECK_DEADLOCK FALSE
INVARIANTS
  TypeOK
  NewWorldShown
PROPERTIES
  ResultIsFinal
  ImplementsService
  SendReturnsAlone
  ListDrains
