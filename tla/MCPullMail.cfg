CONSTANTS
  Workers = {w1, w2}
  m1 = m1
  m2 = m2
  Messages = {m1, m2}
  Kind <- MCKind
  QueueSize = 1
  MaxBatch = 2
  MaxDeliver = 2
  MaxMails = 3
  Faults = {"handler", "ack", "fetch", "slow", "crash", "publish"}
  NoJob = NoJob
  NoMessage = NoMessage
SPECIFICATION SteadyMailSpec
INVARIANTS
  MailTypeOK
  OneWorkerPerMessage
  MailsWithinDeliveries
PROPERTIES
  OutcomesSpec
  EachDeliveryRunsOnce
  StopCompletes
  EventuallySettled
