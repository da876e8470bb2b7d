CONSTANTS
  Files <- MCFiles
  Relative <- MCRelative
  Exes <- MCExes
  EnvInputs <- MCEnvInputs
  DevOrder <- MCDevOrder
  HostDevs <- MCHostDevs
  MaxRuns <- MCMaxRuns
SPECIFICATION Spec
INVARIANT LoadEnvMatchesFormat
PROPERTY DiagTerminates
CHECK_DEADLOCK FALSE
