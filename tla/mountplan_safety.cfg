CONSTANTS
  Args <- MCArgs
  TargetDir <- MCTargetDir
  InitFs <- MCInitFs
  MaxMounts <- MCMaxMounts
SPECIFICATION Spec
INVARIANT TypeOK
PROPERTY RejectsWhatSpecRejects
CHECK_DEADLOCK FALSE
