SPECIFICATION Spec
CONSTANTS
  Req = {r1, r2}
  Request = {q1, q2}
  Tx = {t1, t2}
  Elsewhere = Elsewhere
  None = None
CHECK_DEADLOCK FALSE
SYMMETRY Symmetry
VIEW View
PROPERTIES
  KeepsOpeningPromise
  OpenedOnlyOnApproval
  SettledStatusStays
