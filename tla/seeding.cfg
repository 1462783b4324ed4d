SPECIFICATION SeedingSpec
CONSTANTS
  Replicas = {r1, r2}
  MaxCrashes = 2
  MaxWork = 2
INVARIANTS
  SeedingTypeOK
  RestartsKeepWork
  ServingHasAdmin
  FixtureIsWhole
PROPERTIES
  ReplicasServe
CHECK_DEADLOCK FALSE
