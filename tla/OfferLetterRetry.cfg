SPECIFICATION PatientSpec
CONSTANTS
  App = {a1}
  Offered = {a1}
  Req = {r1}
  Seats <- OneSeatEach
  ReqOf <- SameRequisition
  Offer = {o1}
  Tx = {t1}
  Free = Free
  NoJob = NoJob
CHECK_DEADLOCK FALSE
PROPERTIES
  FailedLettersAreResent
