SPECIFICATION Spec
CONSTANTS
  Paths <- MCPaths
  NoPath = "no path"
  Field <- MCField
  Commands <- MCTxCommands
  NoCommand = NoCommand
  MaxRawLen = 5
  MaxHints = 8
  HashMayFail = FALSE
  MaxPlaintext = 3
  MaxInline = 1
  Nbgl = TRUE
INVARIANTS
  AppMainNeverReturns
  ReviewIffWaiting
  ReviewMatchesContext
  ContextOfOneRequest
  TxReviewFaithful
  UploadInv
PROPERTIES
  SignsWithConsent
  SettingKept
