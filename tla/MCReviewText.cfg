SPECIFICATION Spec
CONSTANTS
  NUL = NUL
  ByteBits = 8
  ShortLen = 2
  WordLen = 4
  LongLen = 8
  HashLen = 32
  SizeMod = 65536
  MaxPath = 10
  LengthBits = 4
  Capacity = 128
  Digest <- MCDigest
  Requests <- MCRequests
  Leftovers = {NUL, 88}
INVARIANTS LinesReadBack TransferReadsBack AddressOfWallet ProofShowsWhatItSigns
CHECK_DEADLOCK FALSE
