CONSTANTS
  Processes = {c1}
  Partitions = {p1}
  Events = {e1, e2}
  BadEnvelope = {e2}
  Undecodable = {}
  Invalid = {}
  Kind <- MCKind
  MaxAttempts = 2
  Faults = {}
  MaxProduced = 2
  MaxLog = 2
  MaxCopies = 1
  MaxMails = 1
  MaxExpired = 1
  NoOwner = NoOwner
  NoRecord = NoRecord
  NoEvent = NoEvent
SPECIFICATION QuietSpec
PROPERTIES
  EventuallyAnswered
