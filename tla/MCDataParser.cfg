SPECIFICATION Spec
CONSTANTS
  ByteBits = 4
  ShortLen = 2
  WordLen = 1
  LongLen = 1
  HashLen = 1
  SizeMod = 256
  MaxPath = 2
  LengthBits = 2
  Capacity = 6
  Requests <- MCRequests
  Ascii = {6, 7, 8}
  Dot = 6
  Plaintext = 3
  AppData = 4
  CellBits = 23
  MaxPlaintext = 8
  MaxDomain = 4
INVARIANTS LinesDescribeCell CellsFit RequestInCell ClientsCellIsSigned
CHECK_DEADLOCK FALSE
