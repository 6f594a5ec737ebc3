SPECIFICATION OwnerSpec
CONSTANTS
  Page = {p1, p2, p3, p4}
  PageSize = 2
  NoPage = NoPage
  RadixBudget = 1
  NoCheckpoint = NoCheckpoint
  Slot = {s1, s2}
  PagesPerSlot = 3
  Checkpoint = {c1}
  Token = {1, 2}
  Prompt <- MCPrompt
  NewTokenLimit = {1, 4}
  Request <- MCRequest
  PromptOf <- MCPromptOf
  LimitOf <- MCLimitOf
  Streaming = {"c"}
  IgnoreEos = {"b"}
  EosToken = 2
  Greedy <- MCRequest
  MaxUsize = 6
  QueueCapacity = 2
  Chunk = {1, 2, 3}
  NoRequest = NoRequest
SYMMETRY MCSymmetry
CONSTRAINT ThreeSubmitted
CHECK_DEADLOCK FALSE
INVARIANTS
  ReleaseAssertionHolds
