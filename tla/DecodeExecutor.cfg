SPECIFICATION Spec
CONSTANTS
  MaximumTokens = 3
  Contexts = {1, 16, 64, 65, 127, 128, 511, 512, 1023, 1024, 4095, 4096, 4116, 4117}
  Layers <- MCLayers
  Fp8Sites <- MCFp8Sites
  page_size = 16
  graphs_enabled = TRUE
  splitk_attention_enabled = TRUE
INVARIANTS
  ExecutorSound
  ReplayIsDirect
