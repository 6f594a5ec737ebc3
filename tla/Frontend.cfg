SPECIFICATION FrontendSpec
CONSTANTS
  EosToken = "eos"
  Limits <- MCLimits
  Absent = Absent
  DefaultLimit = 1
  Token <- MCToken
  BytesOf <- MCBytesOf
  Requests <- MCRequests
INVARIANTS
  TextSound
  SameAsWhole
  AnswerSound
  JsonRecovered
PROPERTY
  EveryConnectionCloses
CHECK_DEADLOCK FALSE
