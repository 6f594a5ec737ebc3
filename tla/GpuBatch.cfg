SPECIFICATION Spec
CONSTANTS
  RequestSlots = 2
  MaximumTokens = 3
  BlockTableStride = 2
  PageSize = 2
  PhysicalPages = 3
INVARIANTS
  StepSound
PROPERTIES
  StoredWhereRead
