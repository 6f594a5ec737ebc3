SPECIFICATION FrontendSpec
CONSTANTS
  EosToken = "eos"
  Limits <- MCLimits
  Absent = Absent
  DefaultLimit = 1
  Token <- MCToken
  BytesOf <- MCBytesOf
  Requests <- MCRequests
INVARIANT
  StreamEndsWithDone
CHECK_DEADLOCK FALSE
