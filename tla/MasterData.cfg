SPECIFICATION MasterSpec
CONSTANTS
  App = {a1, a2}
  Req = {r1}
  Stage = {new, signed}
  Entry = new
  HiredStages = {signed}
  Seats <- OneSeatEach
  Tx = {t1}
  Clerk = {c1}
  MaxHeadcount = 2
  NoForm = NoForm
  Free = Free
  NoJob = NoJob
CHECK_DEADLOCK FALSE
SYMMETRY Symmetry
INVARIANTS
  SeatsCounted
