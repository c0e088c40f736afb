SPECIFICATION Spec
CONSTANTS
  Tx = {t1, t2}
  None = None
SYMMETRY Symmetry
INVARIANTS
  TypeOK
  BrokenValuesAreInherited
  FormsAgree
PROPERTIES
  LifecycleMovesByVerbs
CHECK_DEADLOCK FALSE
