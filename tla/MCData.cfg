SPECIFICATION Spec
CONSTANTS
  Paths <- MCPaths
  NoPath = "no path"
  Field <- MCField
  Commands <- MCDataCommands
  NoCommand = NoCommand
  MaxRawLen = 6
  MaxHints = 8
  HashMayFail = FALSE
  MaxPlaintext = 3
  MaxInline = 1
  Nbgl = FALSE
INVARIANTS
  ContextOfOneRequest
  SignedDataShown
  UploadInv
