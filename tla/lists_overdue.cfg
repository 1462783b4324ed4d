SPECIFICATION Spec
CONSTANTS
  an = an
  binh = binh
  People = {an, binh}
  Teams = {"core"}
  Screens = {"dashboard"}
  Start <- MCStart
  Filters <- MCFilters
  MaxRows = 4
  Limit = 1
  MaxMoves = 2
  MaxEvents = 1
INVARIANTS
  OverdueAmongOpen
CHECK_DEADLOCK FALSE
