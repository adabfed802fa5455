SPECIFICATION FairSpec
CONSTANTS
  t1 = t1
  t2 = t2
  t3 = t3
  gpu0 = gpu0
  gpu1 = gpu1
  None = None
  Threads = {t1, t2, t3}
  DeviceOf <- TwoGpus
  Epochs = {e1, e2}
  a1 = a1
  a2 = a2
  Addresses = {a1, a2}
  Room <- RoomOfGpus
  MaxFailures = 1
INVARIANTS
  SearchHasItsDag
  NoDagLeaked
  NoMutexLeftBehind
  TypeOK
PROPERTIES
  GeneratedOnce
  GetDagReturns
