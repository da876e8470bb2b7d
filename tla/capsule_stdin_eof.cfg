CONSTANTS
  ExtSigs <- MCExtSigs
  MaxExt <- MCMaxExt
SPECIFICATION Spec
INVARIANT KillOnlyAfterExitOrIoError
CHECK_DEADLOCK FALSE
