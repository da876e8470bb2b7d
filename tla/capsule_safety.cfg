\* The launcher's signal protocol and terminal handling, both modes.
\* CHECK_DEADLOCK FALSE: the launcher process ends (main returns or exits).
CONSTANTS
  ExtSigs <- MCExtSigs
  MaxExt <- MCMaxExt
SPECIFICATION Spec
INVARIANT TypeOK
INVARIANT ExitFlagNotLost
INVARIANT TermIntForwarded
INVARIANT NoKillAll
INVARIANT TerminalRestored
PROPERTY TermIntDelivered
CHECK_DEADLOCK FALSE
PROPERTY LifetimeRefined
