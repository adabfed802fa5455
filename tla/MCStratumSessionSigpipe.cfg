SPECIFICATION Spec
CONSTANTS
  Devices = {d1}
  SendBuffer = 1
  MaxJobs = 2
  MaxWaiting = 1
  MaxConns = 2
  MaxMessages = 4
INVARIANT
  SurvivesLoss
