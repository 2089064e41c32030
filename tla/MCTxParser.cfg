SPECIFICATION Spec
CONSTANTS
  ByteBits = 3
  ShortLen = 2
  WordLen = 1
  LongLen = 1
  HashLen = 1
  SizeMod = 256
  MaxPath = 2
  LengthBits = 2
  Capacity = 16
  Requests <- MCRequests
  Ascii = {2, 3, 4, 5, 6}
  MaxLen = 40
  MaxMemo = 3
  MaxValueBytes = 3
  Wallet = 5
  JettonOp = 6
INVARIANTS OrderReadsBack DepthAboveReferences LinesDescribePayload WholeRequestRead RequestInv FieldsInForm ClientsOrderIsSigned
CHECK_DEADLOCK FALSE
