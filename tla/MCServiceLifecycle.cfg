CONSTANTS
  Definitions <- Templates
  Faults = {"redis", "config", "template", "queue"}
  MaxReaders = 11
SPECIFICATION FairSpec
INVARIANTS
  TypeOK
  OneReader
  LateReader
  OwnTemplate
PROPERTIES
  StopEnds
  KeepsServing
CHECK_DEADLOCK FALSE
