SPECIFICATION Spec
CONSTANTS
  Paths <- MCPaths
  NoPath = "no path"
  Field <- MCField
  Commands <- MCTxCommands
  NoCommand = NoCommand
  MaxRawLen = 5
  MaxHints = 8
  HashMayFail = FALSE
  MaxPlaintext = 3
  MaxInline = 1
  Nbgl = FALSE
INVARIANTS
  PayloadDescribed
