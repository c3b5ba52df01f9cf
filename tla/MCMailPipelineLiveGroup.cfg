CONSTANTS
  Processes = {c1, c2}
  Partitions = {p1}
  Events = {e1, e2}
  BadEnvelope = {}
  Undecodable = {}
  Invalid = {e2}
  Kind <- MCKind
  MaxAttempts = 2
  Faults = {"fetch", "commit", "smtp", "reply", "breaker"}
  MaxProduced = 3
  MaxLog = 3
  MaxCopies = 1
  MaxMails = 2
  MaxExpired = 1
  NoOwner = NoOwner
  NoRecord = NoRecord
  NoEvent = NoEvent
SPECIFICATION QuietSpec
INVARIANTS
  HandledOnce
PROPERTIES
  ServiceSpec
  EventuallyAnswered
