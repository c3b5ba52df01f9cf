CONSTANTS
  Processes = {c1}
  Partitions = {p1}
  Events = {e1}
  BadEnvelope = {}
  Undecodable = {}
  Invalid = {}
  Kind <- MCKind
  MaxAttempts = 2
  Faults = {"exit"}
  MaxProduced = 1
  MaxLog = 1
  MaxCopies = 1
  MaxMails = 1
  MaxExpired = 1
  NoOwner = NoOwner
  NoRecord = NoRecord
  NoEvent = NoEvent
SPECIFICATION Spec
INVARIANTS
  NoSilentLoss
