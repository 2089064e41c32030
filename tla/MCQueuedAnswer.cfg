SPECIFICATION Spec
CONSTANTS
  Paths <- MCPaths
  NoPath = "no path"
  Field <- MCField
  Commands <- MCAllCommands
  NoCommand = NoCommand
  MaxRawLen = 5
  MaxHints = 8
  HashMayFail = TRUE
  MaxPlaintext = 3
  MaxInline = 1
  Nbgl = FALSE
INVARIANTS
  QueuedAnswerKept
