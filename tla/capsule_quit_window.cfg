CONSTANTS
  ExtSigs <- MCExtSigs
  MaxExt <- MCMaxExt
SPECIFICATION Spec
INVARIANT ForwardedVerbatim
CHECK_DEADLOCK FALSE
