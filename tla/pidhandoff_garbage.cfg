\* The byte after the datagram is uninitialized: a digit there is read as
\* part of the leader's pid.
CONSTANTS
  Msg <- MCMsg
  SockKinds = {"dgram"}
  Garbage <- MCGarbage
  Leader <- MCLeader
  Procs <- MCProcs
SPECIFICATION Spec
INVARIANT EnterJoinsLeader
CHECK_DEADLOCK FALSE
