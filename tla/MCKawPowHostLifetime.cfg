SPECIFICATION Spec
CONSTANTS
  NumDevices = 1
  Jobs = {j1}
  NoJob = NoJob
INVARIANT
  SubmitOnLiveStratum
