CONSTANTS
  Processes = {c1, c2}
  Partitions = {p1}
  Events = {e1, e2}
  BadEnvelope = {}
  Undecodable = {e2}
  Invalid = {}
  Kind <- MCKind
  MaxAttempts = 2
  Faults = {"commit", "publish", "requeue", "bury", "redis", "ttl", "exit", "reply"}
  MaxProduced = 1
  MaxLog = 2
  MaxCopies = 1
  MaxMails = 2
  MaxExpired = 1
  NoOwner = NoOwner
  NoRecord = NoRecord
  NoEvent = NoEvent
SPECIFICATION Spec
SYMMETRY Symmetric
INVARIANTS
  TypeOK
  LostOnlyIfGivenUp
PROPERTIES
  OutcomesSpec
