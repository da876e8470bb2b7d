------------------------------- MODULE Launch -------------------------------
(***************************************************************************)
(* The sequential path of capsule's main() in the parent, from argument    *)
(* handling to supervision (src/stage1/rootfs/capsule/capsule.c, fds.c,    *)
(* pty.c, args.c), with the two things it hands on: the exit status, which *)
(* exit_if() of fatal.h takes from the global counter exit_err that every  *)
(* check reached increments, and the file descriptors the parent keeps and *)
(* the child carries into execve().                                        *)
(*                                                                         *)
(* Each action is one function of main() taken whole: it adds to exit_err  *)
(* the number of checks it reaches, and may stop at any check whose call   *)
(* can fail.  What the parent does once it supervises is Capsule.tla.      *)
(***************************************************************************)
EXTENDS Integers, FiniteSets

CONSTANTS
  Configs,     \* parsed arguments: [no_pty, pid_file, kept_fd, binds]
  Rlims,       \* hard RLIMIT_NOFILE values
  OpenSets,    \* descriptor sets the launcher may be started with
  ListenPids,  \* LISTEN_PID: "unset", "match" (our pid), "other"
  ListenFdss   \* LISTEN_FDS: a count, or -1 when it is not set

SYSD_LISTEN_START == 3

VARIABLES
  pc,          \* the function of main() about to run, or how it ended
  cfg, euid, listenPid, listenFds, rlim, open0,   \* the inputs
  exitErr,     \* exit_err
  status,      \* the exit status, once the process has ended
  site,        \* the function in which the process exited
  nListen,     \* n_listen_fds
  pfds,        \* the parent's open descriptors
  cloexec,     \* those of them with FD_CLOEXEC set
  cfds,        \* the descriptors the child takes into execve()
  ptm          \* the pty master, -1 until pty_alloc()

inputs == <<cfg, euid, listenPid, listenFds, rlim, open0>>
vars == <<pc, inputs, exitErr, status, site, nListen, pfds, cloexec, cfds, ptm>>

ListenRange == SYSD_LISTEN_START..(SYSD_LISTEN_START + nListen - 1)

\* the function reaches n checks and main() goes on with the next one
Reach(n, to) ==
  /\ exitErr' = exitErr + n
  /\ pc' = to
  /\ UNCHANGED <<status, site>>

\* the k-th check the function reaches fails: exit(exit_err), and the
\* status the parent's parent sees is its low eight bits
Fatal(k) ==
  /\ exitErr' = exitErr + k
  /\ status' = (exitErr + k) % 256
  /\ site' = pc
  /\ pc' = "exited"
  /\ UNCHANGED <<nListen, pfds, cloexec, cfds, ptm>>

-----------------------------------------------------------------------------

\* the checks args_handle() reaches for a valid command line: --directory
\* (parameter, canonicalize, "/", once), "--" (parameter, once), each
\* --bind (parameter, realloc, strdup, absolute), --no-pty (once),
\* --pid-file and --keep-fd (parameter, once), and the two required ones
ArgChecks(c) ==
  8 + 4 * c.binds + (IF c.no_pty THEN 1 ELSE 0)
    + (IF c.pid_file THEN 2 ELSE 0) + (IF c.kept_fd # -1 THEN 2 ELSE 0)

\* args_handle(): any check may fail
ArgsHandle ==
  /\ pc = "args"
  /\ \/ Reach(ArgChecks(cfg), "euid") /\ UNCHANGED <<nListen, pfds, cloexec, cfds, ptm>>
     \/ \E k \in 1..ArgChecks(cfg) : Fatal(k)
  /\ UNCHANGED inputs

\* --help, --help-caps, --help-namespaces, --help-blacklist and the
\* unimplemented --blacklist print (their text is not modelled) and return
\* ARGS_EXIT, on which args_handle() calls exit(0): before the root check,
\* so also for a caller that is not root
ArgsExit ==
  /\ pc = "args"
  /\ pc' = "helped" /\ status' = 0
  /\ UNCHANGED <<exitErr, site, nListen, pfds, cloexec, cfds, ptm>>
  /\ UNCHANGED inputs

\* exit_if(geteuid(), ...)
Geteuid ==
  /\ pc = "euid"
  /\ IF euid = 0 THEN Reach(1, "listen") /\ UNCHANGED <<nListen, pfds, cloexec, cfds, ptm>>
     ELSE Fatal(1)
  /\ UNCHANGED inputs

\* fds_get_listen_fds(): LISTEN_FDS is read only when LISTEN_PID is ours;
\* strtoul() of a missing LISTEN_FDS dereferences NULL
GetListenFds ==
  /\ pc = "listen"
  /\ CASE listenPid = "unset" ->
            Reach(0, "close_most") /\ UNCHANGED <<nListen, pfds, cloexec, cfds, ptm>>
       [] listenPid = "other" ->
            Reach(1, "close_most") /\ UNCHANGED <<nListen, pfds, cloexec, cfds, ptm>>
       [] listenFds = -1 ->
            /\ pc' = "crashed" /\ site' = pc
            /\ UNCHANGED <<exitErr, status, nListen, pfds, cloexec, cfds, ptm>>
       [] OTHER ->
            Reach(3, "close_most") /\ nListen' = listenFds
            /\ UNCHANGED <<pfds, cloexec, cfds, ptm>>
  /\ UNCHANGED inputs

\* (mutant) kept_fd is skipped without being marked close-on-exec
FdsCloseMostNoCloexec ==
  LET range == (SYSD_LISTEN_START + nListen)..(rlim - 1)
      kept == {cfg.kept_fd} \cap range
  IN
  /\ pc = "close_most"
  /\ Reach(1 + Cardinality(range) - Cardinality(kept), IF cfg.no_pty THEN "clone" ELSE "pty")
  /\ pfds' = pfds \ (range \ kept)
  /\ UNCHANGED <<inputs, nListen, cfds, ptm, cloexec>>

\* fds_close_most(): getrlimit, then every fd from the first after the
\* listen fds to rlim_max - 1 is closed (EBADF ignored), except kept_fd,
\* which gets FD_CLOEXEC; close() of an open fd may fail (EIO)
FdsCloseMost ==
  LET range == (SYSD_LISTEN_START + nListen)..(rlim - 1)
      kept == {cfg.kept_fd} \cap range
      checksUpTo(f) == Cardinality({g \in (SYSD_LISTEN_START + nListen)..f : g # cfg.kept_fd})
  IN
  /\ pc = "close_most"
  /\ \/ /\ Reach(1 + Cardinality(range) - Cardinality(kept), IF cfg.no_pty THEN "clone" ELSE "pty")
        /\ pfds' = pfds \ (range \ kept)
        /\ cloexec' = cloexec \cup (kept \cap pfds)
        /\ UNCHANGED <<nListen, cfds, ptm>>
     \/ \E f \in (pfds \cap range) \ kept : Fatal(1 + checksUpTo(f))
  /\ UNCHANGED inputs

\* pty_alloc(): posix_openpt(O_CLOEXEC), ptsname, unlockpt
PtyAlloc ==
  /\ pc = "pty"
  /\ \/ /\ Reach(3, "clone")
        /\ ptm' = CHOOSE f \in 0..Cardinality(pfds) :
                    f \notin pfds /\ \A g \in 0..(f - 1) : g \in pfds
        /\ pfds' = pfds \cup {ptm'}
        /\ cloexec' = cloexec \cup {ptm'}
        /\ UNCHANGED <<nListen, cfds>>
     \/ \E k \in 1..3 : Fatal(k)
  /\ UNCHANGED inputs

\* clone_child() in the parent: ten checks of parent_setup_signals_pre()
\* that cannot fail, clone(), eight of parent_setup_signals_post().  The
\* child's table is a copy; pty_begin_session() puts the slave on 0, 1, 2
\* and execve() closes what has FD_CLOEXEC.
CloneChild ==
  /\ pc = "clone"
  /\ \/ /\ Reach(19, "close_rest")
        /\ cfds' = pfds \ cloexec
        /\ UNCHANGED <<nListen, pfds, cloexec, ptm>>
     \/ Fatal(11)
  /\ UNCHANGED inputs

\* (mutant) the loop runs from SYSD_LISTEN_START to n_listen_fds - 1
FdsCloseRestNoOffset ==
  LET range == SYSD_LISTEN_START..(nListen - 1) IN
  /\ pc = "close_rest"
  /\ range \subseteq pfds
  /\ Reach(Cardinality(range), IF cfg.pid_file THEN "pidfile" ELSE "supervise")
  /\ pfds' = pfds \ range
  /\ cloexec' = cloexec \ range
  /\ UNCHANGED <<inputs, nListen, cfds, ptm>>

\* fds_close_rest(): close() of each listen fd, which fails with EBADF on
\* one that is not open and may fail on one that is
FdsCloseRest ==
  /\ pc = "close_rest"
  /\ \/ /\ ListenRange \subseteq pfds
        /\ Reach(nListen, IF cfg.pid_file THEN "pidfile" ELSE "supervise")
        /\ pfds' = pfds \ ListenRange
        /\ cloexec' = cloexec \ ListenRange
        /\ UNCHANGED <<nListen, cfds, ptm>>
     \/ \E f \in ListenRange :
          /\ SYSD_LISTEN_START..(f - 1) \subseteq pfds
          /\ Fatal(f - SYSD_LISTEN_START + 1)
  /\ UNCHANGED inputs

\* write_pidfile(): fopen, fprintf, fclose
WritePidfile ==
  /\ pc = "pidfile"
  /\ \/ Reach(3, "supervise") /\ UNCHANGED <<nListen, pfds, cloexec, cfds, ptm>>
     \/ \E k \in 1..3 : Fatal(k)
  /\ UNCHANGED inputs

\* kill, waitpid and return 0, whatever the child did
Supervise ==
  /\ pc = "supervise"
  /\ pc' = "returned" /\ status' = 0
  /\ UNCHANGED <<inputs, exitErr, site, nListen, pfds, cloexec, cfds, ptm>>

Init ==
  /\ cfg \in Configs /\ euid \in {0, 1000} /\ rlim \in Rlims
  /\ listenPid \in ListenPids /\ listenFds \in ListenFdss
  /\ open0 \in {o \in OpenSets : \A f \in o : f < rlim}   \* below the hard limit
  \* socket activation passes LISTEN_FDS open descriptors from fd 3 on
  /\ listenPid = "match" =>
       SYSD_LISTEN_START..(SYSD_LISTEN_START + listenFds - 1) \subseteq open0
  /\ pc = "args" /\ exitErr = 0 /\ status = -1 /\ site = "none"
  /\ nListen = 0 /\ pfds = open0 /\ cloexec = {} /\ cfds = {} /\ ptm = -1

Next ==
  \/ ArgsHandle \/ ArgsExit \/ Geteuid \/ GetListenFds \/ FdsCloseMost \/ PtyAlloc
  \/ CloneChild \/ FdsCloseRest \/ WritePidfile \/ Supervise

Spec == Init /\ [][Next]_vars

-----------------------------------------------------------------------------
(* Properties.                                                             *)

\* The child takes into execve() exactly the standard descriptors and the
\* activation descriptors it is told about in LISTEN_FDS: fds_close_most()
\* closes everything above them except kept_fd, which it marks
\* close-on-exec, and the pty master is opened close-on-exec.
ChildInheritsActivationFds ==
  pc \in {"close_rest", "pidfile", "supervise", "returned"}
    => cfds = {0, 1, 2} \cup (ListenRange \cap open0)

\* Once it supervises, the parent holds the standard descriptors, the
\* kept descriptor and the pty master, and has closed the activation
\* descriptors (fds_close_rest) and every other one (fds_close_most).
ParentKeepsOnlyItsFds ==
  pc = "supervise" =>
    pfds = {0, 1, 2} \cup (({cfg.kept_fd} \cap open0) \ ListenRange)
             \cup (IF cfg.no_pty THEN {} ELSE {ptm})

=============================================================================
