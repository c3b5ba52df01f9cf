CONSTANTS
  Processes = {c1}
  Partitions = {p1, p2}
  Events = {e1}
  BadEnvelope = {}
  Undecodable = {}
  Invalid = {}
  Kind <- MCKind
  MaxAttempts = 2
  Faults = {"fetch", "commit", "publish", "requeue", "bury"}
  MaxProduced = 1
  MaxLog = 2
  MaxCopies = 1
  MaxMails = 1
  MaxExpired = 1
  NoOwner = NoOwner
  NoRecord = NoRecord
  NoEvent = NoEvent
SPECIFICATION QuietSpec
INVARIANTS
  NoSilentLoss
PROPERTIES
  EventuallyAnswered
