SPECIFICATION Spec
CONSTANTS
  ByteBits = 2
  SizeMod = 16
  WordLen = 2
  ShortLen = 2
  LongLen = 3
  HashLen = 1
  MaxPath = 2
  Inputs <- MCInputs
  Calls <- MCCalls
  Seeks <- MCSeeks
INVARIANT OffsetInside
PROPERTY ReadsTheStream
