SPECIFICATION FairSpec
CONSTANTS
  Events = {orphaned}
  Teams = {core}
  Quiet = {orphaned}
  Replicas = {b1, b2}
  NoReplica = NoReplica
  Attempts = 2
  MaxStalled = 1
  MaxDue = 1
  MaxFaults = 1
PROPERTIES
  ScheduleComesBack
CHECK_DEADLOCK FALSE
