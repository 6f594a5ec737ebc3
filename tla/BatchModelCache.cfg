SPECIFICATION CacheSpec
CONSTANTS
  Page = {p1, p2, p3, p4, p5}
  PageSize = 2
  NoPage = NoPage
  RadixBudget = 2
  NoCheckpoint = NoCheckpoint
  Slot = {s1, s2}
  PagesPerSlot = 4
  Checkpoint = {c1, c2}
  Token = {1, 2}
  Prompt <- MCPrompt
  NewTokenLimit = {1, 2}
SYMMETRY MCSymmetry
INVARIANTS
  RefsExact
  FreeIffUnreferenced
  GrowthCovered
  KvMatchesTokens
  ConvMatchesTokens
  ChecksHold
  CacheInv
PROPERTIES
  SharedPagesImmutable
  RadixIsStable
