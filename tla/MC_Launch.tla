----------------------------- MODULE MC_Launch -----------------------------
(* Command lines with and without --no-pty, --pid-file and --keep-fd (an  *)
(* fd that is open, one that is not, one inside the listen range) and up  *)
(* to one --bind; launchers started with extra descriptors open; every    *)
(* LISTEN_PID/LISTEN_FDS case.                                             *)
EXTENDS Launch

MCConfigs == [no_pty : BOOLEAN, pid_file : BOOLEAN, kept_fd : {-1, 3, 5, 7},
              binds : 0..1]
\* small limits, so that the descriptor sets are checked one by one
MCRlims == {8, 9}
MCOpenSets == {{0, 1, 2}, {0, 1, 2, 3, 4}, {0, 1, 2, 3, 5, 7}}
MCListenPids == {"unset", "match", "other"}
MCListenFdss == {-1, 0, 1, 2}
=============================================================================
