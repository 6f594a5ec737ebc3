CONSTANTS
  Slot = {s1, s2, s3}
  PageSize = 2
  StepBudget = 6
  TtftSlo = 3
  TpotSlo = 5
  MaxPrefillTokens = 3
  MaxBatchTokens = 6
  Chunk = {1, 2, 4}
  TailContext = 4
  TailQueue = 2
  DecodeCurve <- MCDecodeCurve
  PrefillCurve <- MCPrefillCurve
  Shape <- MCShape
  CachedArrivals = 2
  Milliseconds = {1, 2, 5}
  GridBatches = {1, 3}
  GridContexts = {2, 6}
  MaxBatch = 4
  MaxContext = 8
SPECIFICATION PlannerSpec
INVARIANTS
  PlanSound
  CurvesSound
PROPERTIES
  OldestFirst
  EveryPromptComputed
