SPECIFICATION Spec
CONSTANTS
  Titles = {a, b}
  LoadedWith = {"soon"}
  MaxForms = 2
  MaxCalls = 2
  MaxEvents = 1
PROPERTIES
  RefusalResyncs
CHECK_DEADLOCK FALSE
