SPECIFICATION MixerSpec
CONSTANTS
  Voices = {v1, v2, v3}
  Max16 = 3
  Patterns <- MCPatterns
  Unit = 16
  Floats <- MCFloats
  Gains = {0, 9, 16}
  Increments <- MCIncrements
  NoSamples = NoSamples
INVARIANTS
  MixedThenClipped
CHECK_DEADLOCK FALSE
