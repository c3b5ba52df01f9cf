CONSTANTS
  w1 = w1
  w2 = w2
  e1 = e1
  e2 = e2
  e3 = e3
  Workers <- MCWorkers
  Events <- MCEvents
  Kind <- MCKind
  Mode <- MCMode
  NoEvent = NoEvent
  Faults = {"smtp", "reply", "breaker", "publish", "exit"}
  MaxMails = 2
SPECIFICATION SenderSpec
INVARIANTS
  SenderTypeOK
  SuccessMeansMailed
  DefectIsReported
  NoConnectionLeft
  SecretsEncrypted
PROPERTIES
  HandlerSpec
