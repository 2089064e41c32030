SPECIFICATION Spec
CONSTANTS
  Paths <- MCPaths
  NoPath = "no path"
  Field <- MCField
  Commands <- MCDataCommands
  NoCommand = NoCommand
  MaxRawLen = 8
  MaxHints = 8
  HashMayFail = FALSE
  MaxPlaintext = 3
  MaxInline = 1
  Nbgl = FALSE
INVARIANTS
  HintsFit
