\* An FP8 policy as fp8_policy installs it: batches of one token.
SPECIFICATION SpeculativeSpec
CONSTANTS
  MinNgram = 2
  MaxNgram = 3
  DraftLength = 3
  Token = {1, 2}
  EosToken = 2
  PromptLengths = {3, 4}
  Prompt <- AllPrompts
  MaxNewTokens = 6
  Fp8Decode = TRUE
  MaxFp8Batch = 1
  Depth = 1
INVARIANT DivergenceNeedsRejection
\* The request ends.
CHECK_DEADLOCK FALSE
