SPECIFICATION Spec
CONSTANTS
  Titles = {a, b}
  LoadedWith = {"soon"}
  MaxForms = 2
  MaxCalls = 2
  MaxEvents = 1
SYMMETRY Alike
INVARIANTS
  TypeOK
  OneTaskPerForm
PROPERTIES
  NeverReverts
  PastIsConfirmed
CHECK_DEADLOCK FALSE
