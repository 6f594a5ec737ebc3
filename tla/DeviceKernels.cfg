SPECIFICATION KernelsSpec
CONSTANTS
  Slots = {0, 1}
  Starts = {0, 15, 31, 63, 511, 1023}
  Lengths = {1, 2, 17}
  PageSizes = {16, 32}
  Callers = {"single", "verify", "append", "batch", "executor"}
  MaxAppended = 2
  Passes = 1
  RequestSlots = {r1, r2}
  Tokens = {a, b}
  MaxLength = 3
  MaxSegment = 2
  MaxClass = 4
  Sizes = {1, 2, 3}
  ClassCapacity = 2
  max_available_elements = 5
  MaxTensors = 4
  MaxQueue = 3
INVARIANTS
  AttentionSound
  ConvolutionSound
  PoolSound
CHECK_DEADLOCK FALSE
