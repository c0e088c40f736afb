SPECIFICATION Spec
CONSTANTS
  App = {a1}
  Interview = {i1, i2}
  Tx = {t1, t2}
  None = None
CHECK_DEADLOCK FALSE
SYMMETRY Symmetry
INVARIANTS
  NothingSilentlyUnnotified
PROPERTIES
  HistoryStands
  RefusalStopsScheduling
