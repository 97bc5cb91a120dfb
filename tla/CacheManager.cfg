SPECIFICATION Spec
CONSTANTS
  Manager = {m1, m2}
  Saver = {m1}
  Deleter = {m2}
  Key = {k1, k2}
  Limits = {1, 2}
  Legacy = {}
  Flat = {k1}
  MaxTime = 1
  None = None
INVARIANTS MissingOnlyInReplacement DeletedStaysDeleted
PROPERTIES CapacityHeld
