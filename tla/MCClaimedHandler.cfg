CONSTANTS
  Workers = {w1, w2, w3}
  Events = {e1, e2}
  NoEvent = NoEvent
  Faults = {"redis", "ttl", "exit"}
  MaxExpired = 2
SPECIFICATION Spec
INVARIANTS
  TypeOK
  ExclusiveHolder
PROPERTIES
  DoneIsFinal
  ProcessingSpec
