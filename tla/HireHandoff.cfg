SPECIFICATION HandoffSpec
CONSTANTS
  App = {a1, a2}
  Offered = {a1}
  Req = {r1}
  Seats <- OneSeatEach
  ReqOf <- SameRequisition
  Offer = {o1}
  Tx = {t1, t2}
  Free = Free
  NoJob = NoJob
CHECK_DEADLOCK FALSE
VIEW View
INVARIANTS
  AcceptedWithOneEvent
  ExtendedOnlyApproved
  OneLetterAtMost
  DraftsAreFiled
  NothingSilentlyUnsent
  EmployeesComeFromAcceptedOffers
PROPERTIES
  KeepsHiringPromise
  SettledOffersStay
  OffersFollowTheirApplications
  AcceptedBecomesEmployee
