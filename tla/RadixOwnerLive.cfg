SPECIFICATION FairOwnerSpec
CONSTANTS
  Page = {p1, p2, p3, p4}
  PageSize = 2
  NoPage = NoPage
  RadixBudget = 1
  NoCheckpoint = NoCheckpoint
  Slot = {s1, s2}
  PagesPerSlot = 2
  Checkpoint = {c1}
  Token = {1}
  Prompt <- MCThreePrompt
  NewTokenLimit = {1, 2}
  Request <- MCThree
  PromptOf <- MCThreePromptOf
  LimitOf <- MCThreeLimitOf
  Streaming = {}
  IgnoreEos = {"b", "c"}
  EosToken = 1
  Greedy <- MCThree
  MaxUsize = 4
  QueueCapacity = 1
  Chunk = {1, 2}
  NoRequest = NoRequest
CHECK_DEADLOCK FALSE
PROPERTIES
  EveryRequestAnswered
  OwnerStops
