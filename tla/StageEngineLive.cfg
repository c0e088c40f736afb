SPECIFICATION FairSpec
CONSTANTS
  App = {a1, a2}
  Req = {r1}
  Stage = {new, signed}
  Entry = new
  HiredStages = {signed}
  Seats <- OneSeatEach
  Tx = {t1, t2}
  Free = Free
  NoJob = NoJob
CHECK_DEADLOCK FALSE
PROPERTIES
  EveryRequestAnswered
