SPECIFICATION Spec
CONSTANTS
  ada = ada
  adaCapital = adaCapital
  adaBlank = adaBlank
  bob = bob
  Candidate = {c1, c2}
  Application = {a1, a2}
  Address <- Addresses
  Norm <- Normal
  Lower <- LowerCase
  Tx = {t1, t2}
  None = None
CHECK_DEADLOCK FALSE
SYMMETRY Symmetry
VIEW View
PROPERTIES
  AppliedForOneself
  MintsNeedOverlap
  NobodyComesAfterClosing
