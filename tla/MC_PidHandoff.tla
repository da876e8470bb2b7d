--------------------------- MODULE MC_PidHandoff ---------------------------
(* systemd-nspawn's notification: READY=1, a newline and                  *)
(* X_NSPAWN_LEADER_PID=12.  Live processes: pid 1 (the host's init), the  *)
(* leader, and pids that a truncated or extended number would name.       *)
EXTENDS PidHandoff

MCMsg == <<"R", "=", "1", "nl", "X", "=", "1", "2">>
MCLeader == 12
MCProcs == {1, 12, 120, 123}
\* the byte after the message: a terminator, a letter or a digit
MCGarbage == {"NUL", "g", "0", "3"}
=============================================================================
