SPECIFICATION FairSpec
CONSTANTS
  Devices = {d1, d2}
  SendBuffer = 1
  MaxJobs = 2
  MaxWaiting = 1
  MaxConns = 2
  MaxMessages = 4
INVARIANTS
  HandshakeFirst
PROPERTIES
  NewestJobOnly
  LossNoticed
  JobTaken
  UsesEngine
