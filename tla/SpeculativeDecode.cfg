\* Every model of two tokens, every prompt of three or four tokens.
SPECIFICATION SpeculativeSpec
CONSTANTS
  MinNgram = 2
  MaxNgram = 3
  DraftLength = 3
  Token = {1, 2}
  EosToken = 2
  PromptLengths = {3, 4}
  Prompt <- AllPrompts
  MaxNewTokens = 7
  Fp8Decode = FALSE
  MaxFp8Batch = 1
  Depth = 3
INVARIANTS
  SpeculativeInv
  GreedyOutput
  StateExact
  FitsCapacity
\* The request ends.
CHECK_DEADLOCK FALSE
