SPECIFICATION FairSpec
CONSTANTS
  WorkerN = 2
  Execs <- MCExecs
  Coros <- MCCoros
  Queues <- MCQueues
  Clients = {1}
  Groups = {1}
  Helpers = {1}
  NoExec = NoExec
  MsgUnits <- MCUnits
  MaxChunks = 1
INVARIANTS
  OneResumption
  OneSender
  SessionOutlivesChildren
  DroppedStreamIsClosed
PROPERTIES
  SessionTerminates
CHECK_DEADLOCK FALSE
