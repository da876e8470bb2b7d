CONSTANTS
  Configs <- MCConfigs
  Rlims <- MCRlims
  OpenSets <- MCOpenSets
  ListenPids <- MCListenPids
  ListenFdss <- MCListenFdss
SPECIFICATION Spec
INVARIANT ChildInheritsActivationFds
INVARIANT ParentKeepsOnlyItsFds
CHECK_DEADLOCK FALSE
