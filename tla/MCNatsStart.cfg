CONSTANTS
  Configs <- MCConfigs
  MaxBacklog = 2
  Faults = {"jetstream"}
SPECIFICATION StartSpec
INVARIANTS
  StartTypeOK
  PlanUsable
  SetUp
