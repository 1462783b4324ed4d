SPECIFICATION FairSpec
CONSTANTS
  Events = {orphaned}
  Teams = {core}
  Quiet = {orphaned}
  Replicas = {b1, b2}
  NoReplica = NoReplica
  Attempts = 2
  MaxStalled = 1
  MaxDue = 1
  MaxFaults = 1
INVARIANTS
  TypeOK
  CompletedWasSent
  DuplicatesAreCounted
  OneDigestPerTeam
PROPERTIES
  EveryJobSettles
  WritesAreAnswered
CHECK_DEADLOCK FALSE
