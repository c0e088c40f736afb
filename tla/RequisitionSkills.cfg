SPECIFICATION Spec
CONSTANTS
  Req = {r1}
  Skill = {s1, s2}
  Level = {novice, expert}
  Tx = {t1, t2}
  None = None
CHECK_DEADLOCK FALSE
SYMMETRY Symmetry
INVARIANTS
  OneConsistentList
PROPERTIES
  RequirementsFrozen
