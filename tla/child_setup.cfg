CONSTANTS
  CapNames <- MCCapNames
  DefaultKept <- MCDefaultKept
  SysAdmin = "sys_admin"
  NsNames <- MCNsNames
  DefaultNs <- MCDefaultNs
  Fold <- MCFold
  Argvs <- MCArgvs
SPECIFICATION Spec
INVARIANT MasksAsSpecified
INVARIANT ExecFiltered
INVARIANT ChildEnvAsSpecified
CHECK_DEADLOCK FALSE
PROPERTY SetupOrderRefined
