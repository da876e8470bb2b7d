CONSTANTS
  Files <- MCFiles
  Relative <- MCRelative
  Exes <- MCExes
  EnvInputs <- MCEnvInputsSmall
  DevOrder <- MCDevOrder
  HostDevs <- MCHostDevs
  MaxRuns <- MCMaxRuns
SPECIFICATION Spec
PROPERTY NoMountOverExisting
CHECK_DEADLOCK FALSE
