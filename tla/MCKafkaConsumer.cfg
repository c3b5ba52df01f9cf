CONSTANTS
  Consumers = {c1, c2}
  Partitions = {p1}
  Events = {e1, bad}
  BadEnvelope = {bad}
  MaxAttempts = 2
  Outcomes = {"ok", "transient", "permanent"}
  NoOwner = NoOwner
  NoRecord = NoRecord
  Faults = {"fetch", "commit", "requeue", "bury", "exit"}
  MaxProduced = 2
  MaxLog = 3
  MaxCopies = 1
SPECIFICATION QuietSpec
INVARIANTS
  TypeOK
  CommittedAccounted
PROPERTIES
  EventuallyHandled
