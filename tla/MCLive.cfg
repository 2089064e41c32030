SPECIFICATION FairSpec
CONSTANTS
  Paths <- MCPaths
  NoPath = "no path"
  Field <- MCField
  Commands <- MCLiveCommands
  NoCommand = NoCommand
  MaxRawLen = 5
  MaxHints = 8
  HashMayFail = TRUE
  MaxPlaintext = 3
  MaxInline = 1
  Nbgl = TRUE
PROPERTIES
  EveryCommandAnswered
