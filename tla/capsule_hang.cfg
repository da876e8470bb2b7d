CONSTANTS
  ExtSigs <- MCExtSigs
  MaxExt <- MCMaxExt
SPECIFICATION Spec
PROPERTY ChildExitEndsLaunch
CHECK_DEADLOCK FALSE
