CONSTANTS
  Args <- MCArgs
  TargetDir <- MCTargetDir
  InitFs <- MCInitFs
  MaxMounts <- MCMaxMounts
SPECIFICATION Spec
PROPERTY NoSpuriousFailure
CHECK_DEADLOCK FALSE
