SPECIFICATION Spec
CONSTANTS
  an = an
  binh = binh
  People = {an, binh}
  Teams = {"core"}
  Screens = {"tasks", "users", "dashboard"}
  Start <- MCStart
  Filters <- MCFilters
  MaxRows = 4
  Limit = 1
  MaxMoves = 2
  MaxEvents = 2
INVARIANTS
  RowsAsFiltered
  StrandedOnlyByHaste
  StatsAddUp
CHECK_DEADLOCK FALSE
