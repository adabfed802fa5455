SPECIFICATION FairSpec
CONSTANTS
  NumDevices = 2
  Jobs = {j1, j2}
  NoJob = NoJob
INVARIANTS
  ShareOfOneJob
  ThreadsOnlyWhileEnabled
PROPERTIES
  JobFrozenWhileMining
  NoThreadAbandoned
  StopWindsDown
  CallsReturn
  ImplementsEngine
