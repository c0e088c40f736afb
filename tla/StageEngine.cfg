SPECIFICATION Spec
CONSTANTS
  App = {a1, a2}
  Req = {r1}
  Stage = {new, signed, onboard}
  Entry = new
  HiredStages = {signed, onboard}
  Seats <- OneSeatEach
  Tx = {t1, t2}
  Free = Free
  NoJob = NoJob
CHECK_DEADLOCK FALSE
SYMMETRY Symmetry
INVARIANTS
  IInv
  SeatsCounted
  NoOverfill
  ClosedMatchesPipeline
  NoLockCycle
PROPERTIES
  RefusalSticky
  TurnedAwayOnlyWhenFull
  KeepsVacancyPromise
