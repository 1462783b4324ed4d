SPECIFICATION Spec
CONSTANTS
  an = an
  binh = binh
  People = {an, binh}
  Teams = {"core"}
  Screens = {"tasks"}
  Start <- MCStart
  Filters <- MCFilters
  MaxRows = 4
  Limit = 1
  MaxMoves = 2
  MaxEvents = 0
INVARIANTS
  NeverStranded
CHECK_DEADLOCK FALSE
