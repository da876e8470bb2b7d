------------------------------- MODULE Capsule -------------------------------
(***************************************************************************)
(* The capsule launcher of stage1 (src/stage1/rootfs/capsule/capsule.c and *)
(* pty.c): a supervising parent and a cloned child that coordinate only    *)
(* through signals, the "exited" flag written by the SIGCHLD handler, the  *)
(* pseudo-terminal pair and waitpid().                                     *)
(*                                                                         *)
(* Each process has a program counter, a blocked mask, dispositions and a  *)
(* set of pending (standard, hence coalescing) signals.  A handled signal  *)
(* runs its handler at any point of the process; it interrupts pause(),    *)
(* poll() and a waitpid() that has no zombie to collect (EINTR), since no  *)
(* handler is installed with SA_RESTART.  The child's setup between the    *)
(* pty session and execve() (mounts, pivot, capabilities, hostname,        *)
(* seccomp) is one step that succeeds or exits; its order is the subject   *)
(* of the child-setup module.  Data on the terminals is abstracted to      *)
(* "some bytes are ready".                                                 *)
(***************************************************************************)
EXTENDS Naturals, FiniteSets

CONSTANTS
  ExtSigs,   \* signals the environment may send to the capsule parent
  MaxExt     \* bound on the number of signals the environment sends

ASSUME ExtSigs \subseteq {"TERM", "INT", "QUIT", "KILL"}
ASSUME MaxExt \in Nat

Sigs == {"CHLD", "TERM", "INT", "QUIT"}   \* signals that can be pending
Fds  == {0, 1}                            \* the parent's stdin and stdout

\* mutant: TERM and INT left out of the pre-clone mask
PreBlockNoTermInt == {"CHLD"}
\* the set parent_setup_signals_pre() blocks (SIGWINCH is left out: it is
\* blocked and never unblocked, and nothing in the code depends on it)
PreBlock == {"CHLD", "TERM", "INT"}
\* fwd_mask of parent_setup_signals_post()
FwdSigs == {"TERM", "INT", "QUIT"}
\* mutant: stdin restored before stdout
RestoreOrderSwapped == <<0, 1>>
\* rawtio_put() is called for stdout, then for stdin
RestoreOrder == <<1, 0>>

VARIABLES
  ppc, cpc,               \* program counters of parent and child
  pmask, pdisp, ppend,    \* parent: blocked set, dispositions, pending set
  cmask, cdisp, cpend,    \* child: the same ("KILL" may be pending)
  cloned,                 \* child_pid has been assigned by clone()
  exited,                 \* the volatile flag set by parent_sigchld_handler
  pdeath,                 \* the child has PR_SET_PDEATHSIG armed
  slave,                  \* the pty slave: "unopened", "open", "closed"
  ptmOpen,                \* the parent still holds the pty master fd
  output,                 \* bytes written by the child wait on the master
  stdin,                  \* the parent's stdin: "idle", "data", "eof"
  revents,                \* revents of the last poll(), per fd
  tty,                    \* attributes of the parent's terminal
  saved,                  \* rawtio_t.orig per fd, "none" for fd == -1
  noPty, ttyFds,          \* --no-pty, and which of fds 0/1 are the terminal
  lost,                   \* history: signals that killed the parent instead
                          \*   of being forwarded to a live child
  killedAll,              \* history: kill(-1, sig) was issued
  ioFailure,              \* history: an I/O error not caused by the code
  nExt                    \* signals sent so far by the environment

psig == <<pmask, pdisp, ppend>>
csig == <<cmask, cdisp, cpend>>
term == <<ptmOpen, output, stdin, revents, tty, saved>>
conf == <<noPty, ttyFds>>
hist == <<lost, killedAll, ioFailure, nExt>>
vars == <<ppc, cpc, psig, csig, cloned, exited, pdeath, slave, term, conf, hist>>

Disp  == {"dfl", "chld", "fwd"}
Attrs == {"cooked", "raw"}

ParentAlive == ppc \notin {"dead", "done"}
ChildAlive  == cloned /\ cpc \notin {"zombie", "reaped"}

-----------------------------------------------------------------------------
(* Process exit.  The kernel sends SIGKILL to a child with PDEATHSIG armed *)
(* when its parent exits; a child dying leaves SIGCHLD pending at the      *)
(* parent and closes its copies of the pty slave.                          *)

ParentExit(to) ==
  /\ ppc' = to
  /\ cpend' = IF pdeath /\ ChildAlive THEN cpend \cup {"KILL"} ELSE cpend

ChildExitWith(sl) ==
  /\ cpc' = "zombie"
  /\ ppend' = ppend \cup {"CHLD"}
  /\ slave' = sl

ChildExit == ChildExitWith(IF slave = "open" THEN "closed" ELSE slave)

\* a handler returning into a blocked call makes it fail with EINTR;
\* waitpid() with a zombie to collect returns it instead
Wake ==
  CASE ppc = "paused"                   -> "check"
    [] ppc = "in_poll"                  -> "poll_check"
    [] ppc = "wait" /\ cpc # "zombie"   -> "return"
    [] OTHER                            -> ppc

-----------------------------------------------------------------------------
(* Parent.                                                                 *)

\* args_handle(), the root check, fds_get_listen_fds(), fds_close_most()
\* and pty_alloc(): any of them may exit before a child exists
Prepare ==
  /\ ppc = "prepare"
  /\ \/ /\ ppc' = "pre"
        /\ ptmOpen' = ~noPty
     \/ /\ ppc' = "dead"
        /\ UNCHANGED ptmOpen
  /\ UNCHANGED <<cpc, psig, csig, cloned, exited, pdeath, slave, output,
                 stdin, revents, tty, saved, conf, hist>>

\* mutant: the SIGCHLD handler is never installed
PreNoHandler ==
  /\ ppc = "pre"
  /\ pmask' = (pmask \cup PreBlock) \ {"CHLD"}
  /\ ppc' = "clone"
  /\ UNCHANGED <<cpc, pdisp, ppend, csig, cloned, exited, pdeath, slave,
                 term, conf, hist>>

\* mutant: the forwarder is installed before clone(), with the SIGCHLD
\* handler
PreInstallsFwd ==
  /\ ppc = "pre"
  /\ pmask' = (pmask \cup PreBlock) \ {"CHLD"}
  /\ pdisp' = [s \in Sigs |-> IF s \in FwdSigs THEN "fwd" ELSE "chld"]
  /\ ppc' = "clone"
  /\ UNCHANGED <<cpc, ppend, csig, cloned, exited, pdeath, slave, term,
                 conf, hist>>

\* parent_setup_signals_pre(): block, install the SIGCHLD handler, unblock
\* SIGCHLD
Pre ==
  /\ ppc = "pre"
  /\ pmask' = (pmask \cup PreBlock) \ {"CHLD"}
  /\ pdisp' = [pdisp EXCEPT !["CHLD"] = "chld"]
  /\ ppc' = "clone"
  /\ UNCHANGED <<cpc, ppend, csig, cloned, exited, pdeath, slave, term,
                 conf, hist>>

\* clone(SIGCHLD|namespaces): the child inherits mask and dispositions,
\* not pending signals
Clone ==
  /\ ppc = "clone"
  /\ \/ /\ ppc' = "post"
        /\ cloned' = TRUE
        /\ cpc' = "prctl"
        /\ cmask' = pmask
        /\ cdisp' = pdisp
        /\ UNCHANGED cpend
     \/ /\ ppc' = "dead"
        /\ UNCHANGED <<cloned, cpc, cmask, cdisp, cpend>>
  /\ UNCHANGED <<psig, exited, pdeath, slave, term, conf, hist>>

\* mutant: the forwarder is installed but the signals stay blocked
PostNoUnblock ==
  /\ ppc = "post"
  /\ pdisp' = [s \in Sigs |-> IF s \in FwdSigs THEN "fwd" ELSE pdisp[s]]
  /\ ppc' = "close_rest"
  /\ UNCHANGED <<cpc, pmask, ppend, csig, cloned, exited, pdeath, slave,
                 term, conf, hist>>

\* parent_setup_signals_post(): install the forwarder, then unblock
Post ==
  /\ ppc = "post"
  /\ pdisp' = [s \in Sigs |-> IF s \in FwdSigs THEN "fwd" ELSE pdisp[s]]
  /\ pmask' = pmask \ FwdSigs
  /\ ppc' = "close_rest"
  /\ UNCHANGED <<cpc, ppend, csig, cloned, exited, pdeath, slave, term,
                 conf, hist>>

\* a pexit_if() of the parent after clone(): exit, or go on to next
StepOrExit(here, next) ==
  /\ ppc = here
  /\ \/ /\ ppc' = next
        /\ UNCHANGED cpend
     \/ ParentExit("dead")
  /\ UNCHANGED <<cpc, pmask, pdisp, ppend, cmask, cdisp, cloned, exited,
                 pdeath, slave, term, conf, hist>>

\* fds_close_rest(): close(2) of a listen fd that is not open is fatal
CloseRest == StepOrExit("close_rest", "pidfile")

\* write_pidfile() when --pid-file was given, then the mode switch of main()
WritePidfile == StepOrExit("pidfile", IF noPty THEN "check" ELSE "rawget0")

\* while(!exited) pause();  the test and the call are two steps
Check ==
  /\ ppc = "check"
  /\ ppc' = IF exited THEN "kill" ELSE "pausing"
  /\ UNCHANGED <<cpc, psig, csig, cloned, exited, pdeath, slave, term,
                 conf, hist>>

Pause ==
  /\ ppc = "pausing"
  /\ ppc' = "paused"
  /\ UNCHANGED <<cpc, psig, csig, cloned, exited, pdeath, slave, term,
                 conf, hist>>

\* rawtio_get(fd): save the attributes and make the terminal raw; a failing
\* tcsetattr() exits
RawtioGet(fd, here, next) ==
  /\ ppc = here
  /\ IF fd \in ttyFds
       THEN \/ /\ saved' = [saved EXCEPT ![fd] = tty]
               /\ tty' = "raw"
               /\ ppc' = next
               /\ UNCHANGED cpend
            \/ /\ saved' = [saved EXCEPT ![fd] = tty]
               /\ UNCHANGED tty
               /\ ParentExit("dead")
       ELSE /\ saved' = [saved EXCEPT ![fd] = "none"]
            /\ ppc' = next
            /\ UNCHANGED <<tty, cpend>>
  /\ UNCHANGED <<cpc, pmask, pdisp, ppend, cmask, cdisp, cloned, exited,
                 pdeath, slave, ptmOpen, output, stdin, revents, conf, hist>>

\* while(!(*exited_flag))
PollCheck ==
  /\ ppc = "poll_check"
  /\ ppc' = IF exited THEN "rawput1" ELSE "polling"
  /\ UNCHANGED <<cpc, psig, csig, cloned, exited, pdeath, slave, term,
                 conf, hist>>

\* POLLIN on stdin (bytes or end of file); POLLIN, POLLHUP or POLLNVAL on
\* the master
Readable(fd) ==
  IF fd = 0 THEN stdin # "idle"
            ELSE ~ptmOpen \/ output \/ slave = "closed"

\* poll(pfds, 2, -1): returns when an fd is ready, else blocks
Poll ==
  /\ ppc \in {"polling", "in_poll"}
  /\ IF \E fd \in Fds : Readable(fd)
       THEN /\ revents' = [fd \in Fds |-> Readable(fd)]
            /\ ppc' = "copy0"
       ELSE /\ ppc = "polling"
            /\ ppc' = "in_poll"
            /\ UNCHANGED revents
  /\ UNCHANGED <<cpc, psig, csig, cloned, exited, pdeath, slave, ptmOpen,
                 output, stdin, tty, saved, conf, hist>>

\* (mutant) copy() forwards end of file by closing its source, not its
\* destination
Copy0CloseFrom ==
  /\ ppc = "copy0"
  /\ revents[0] /\ stdin = "eof"
  /\ stdin' = "closed"
  /\ ppc' = "copy1"
  /\ UNCHANGED <<cpc, psig, csig, cloned, exited, pdeath, slave, output,
                 revents, tty, saved, conf, hist, ptmOpen>>

\* if(pfds[0].revents) copy(0, ptm): bytes are written to the master; end
\* of file close()s the master; a failing read or write breaks the loop
Copy0 ==
  /\ ppc = "copy0"
  /\ \/ /\ ~revents[0]
        /\ ppc' = "copy1"
        /\ UNCHANGED <<ptmOpen, stdin, ioFailure>>
     \/ /\ revents[0] /\ stdin = "data"
        /\ stdin' = "idle"
        /\ ppc' = "copy1"
        /\ UNCHANGED <<ptmOpen, ioFailure>>
     \/ /\ revents[0] /\ stdin = "eof"
        /\ ptmOpen' = FALSE
        /\ ppc' = "copy1"
        /\ UNCHANGED <<stdin, ioFailure>>
     \/ /\ revents[0] /\ stdin = "data"
        /\ ioFailure' = TRUE
        /\ ppc' = "rawput1"
        /\ UNCHANGED <<ptmOpen, stdin>>
  /\ UNCHANGED <<cpc, psig, csig, cloned, exited, pdeath, slave, output,
                 revents, tty, saved, conf, lost, killedAll,
                 nExt>>

\* if(pfds[1].revents) copy(ptm, 1): read(2) of a closed master fails with
\* EBADF and of a hung-up one with EIO, both break the loop
Copy1 ==
  /\ ppc = "copy1"
  /\ \/ /\ ~revents[1]
        /\ ppc' = "poll_check"
        /\ UNCHANGED <<output, ioFailure>>
     \/ /\ revents[1] /\ ptmOpen /\ output
        /\ output' = FALSE
        /\ ppc' = "poll_check"
        /\ UNCHANGED ioFailure
     \/ /\ revents[1] /\ ptmOpen /\ output
        /\ ioFailure' = TRUE
        /\ ppc' = "rawput1"
        /\ UNCHANGED output
     \/ /\ revents[1] /\ ~(ptmOpen /\ output)
        /\ ppc' = "rawput1"
        /\ UNCHANGED <<output, ioFailure>>
  /\ UNCHANGED <<cpc, psig, csig, cloned, exited, pdeath, slave, ptmOpen,
                 stdin, revents, tty, saved, conf, lost, killedAll,
                 nExt>>

\* rawtio_put(): restore the saved attributes; a failing tcsetattr() exits
RawtioPut(i, here, next) ==
  LET fd == RestoreOrder[i] IN
  /\ ppc = here
  /\ IF saved[fd] = "none"
       THEN /\ ppc' = next
            /\ UNCHANGED <<tty, cpend>>
       ELSE \/ /\ tty' = saved[fd]
               /\ ppc' = next
               /\ UNCHANGED cpend
            \/ /\ UNCHANGED tty
               /\ ParentExit("dead")
  /\ UNCHANGED <<cpc, pmask, pdisp, ppend, cmask, cdisp, cloned, exited,
                 pdeath, slave, ptmOpen, output, stdin, revents, saved,
                 conf, hist>>

\* kill(child_pid, SIGKILL)
Kill ==
  /\ ppc = "kill"
  /\ cpend' = cpend \cup {"KILL"}
  /\ ppc' = "wait"
  /\ UNCHANGED <<cpc, psig, cmask, cdisp, cloned, exited, pdeath, slave,
                 term, conf, hist>>

\* waitpid(child_pid, NULL, 0) collecting the zombie
Wait ==
  /\ ppc = "wait"
  /\ cpc = "zombie"
  /\ cpc' = "reaped"
  /\ ppc' = "return"
  /\ UNCHANGED <<psig, csig, cloned, exited, pdeath, slave, term, conf,
                 hist>>

\* return 0 from main(): the process exits
Return ==
  /\ ppc = "return"
  /\ ParentExit("done")
  /\ UNCHANGED <<cpc, pmask, pdisp, ppend, cmask, cdisp, cloned, exited,
                 pdeath, slave, term, conf, hist>>

-----------------------------------------------------------------------------
(* Signal delivery.                                                        *)

\* parent_sigchld_handler, parent_sigfwd_handler, or the default action
DeliverParent(s) ==
  /\ ParentAlive
  /\ s \in ppend \ pmask
  /\ CASE pdisp[s] = "chld" ->
            /\ exited' = TRUE
            /\ ppend' = ppend \ {s}
            /\ ppc' = Wake
            /\ UNCHANGED <<cpend, lost, killedAll>>
       [] pdisp[s] = "fwd" ->
            /\ ppend' = ppend \ {s}
            /\ ppc' = Wake
            /\ killedAll' = (killedAll \/ ~cloned)
            /\ cpend' = IF cloned /\ cpc # "reaped" THEN cpend \cup {s}
                                                   ELSE cpend
            /\ UNCHANGED <<exited, lost>>
       [] pdisp[s] = "dfl" /\ s = "CHLD" ->
            /\ ppend' = ppend \ {s}
            /\ UNCHANGED <<ppc, exited, cpend, lost, killedAll>>
       [] OTHER ->
            /\ ppend' = ppend \ {s}
            /\ ParentExit("dead")
            /\ lost' = IF ChildAlive THEN lost \cup {s} ELSE lost
            /\ UNCHANGED <<exited, killedAll>>
  /\ UNCHANGED <<cpc, pmask, pdisp, cmask, cdisp, cloned, pdeath, slave,
                 term, conf, ioFailure, nExt>>

\* before execve() the child's dispositions decide; after it the target
\* program either dies of the signal or handles it
DeliverChild(s) ==
  /\ ChildAlive
  /\ s \in cpend \ cmask
  /\ cpend' = cpend \ {s}
  /\ IF s = "KILL" \/ (cpc # "running" /\ s # "CHLD" /\ cdisp[s] = "dfl")
       THEN ChildExit
       ELSE \/ /\ cpc = "running"
               /\ ChildExit
            \/ UNCHANGED <<cpc, ppend, slave>>
  /\ UNCHANGED <<ppc, pmask, pdisp, cmask, cdisp, cloned, exited, pdeath,
                 term, conf, hist>>

-----------------------------------------------------------------------------
(* Child: clone_child() after clone() returned 0.  Every pexit_if() exits. *)

ChildStepOrExit(here, next) ==
  /\ cpc = here
  /\ \/ /\ cpc' = next
        /\ UNCHANGED <<ppend, slave>>
     \/ ChildExit

\* (mutant) the prctl() call is left out
PrctlDropped ==
  /\ ChildStepOrExit("prctl", "sigsetup")
  /\ pdeath' = FALSE
  /\ UNCHANGED <<ppc, pmask, pdisp, csig, cloned, exited, term, conf, hist>>

\* prctl(PR_SET_PDEATHSIG, SIGKILL)
Prctl ==
  /\ ChildStepOrExit("prctl", "sigsetup")
  /\ pdeath' = (cpc' = "sigsetup")
  /\ UNCHANGED <<ppc, pmask, pdisp, csig, cloned, exited, term, conf, hist>>

\* child_setup_signals(): default dispositions, empty mask
ChildSetupSignals ==
  /\ cpc = "sigsetup"
  /\ cdisp' = [s \in Sigs |-> "dfl"]
  /\ cmask' = {}
  /\ cpc' = IF noPty THEN "setup" ELSE "session"
  /\ UNCHANGED <<ppc, psig, cpend, cloned, exited, pdeath, slave, term,
                 conf, hist>>

\* pty_begin_session(): open the slave as fd 0, dup2, setsid, TIOCSCTTY;
\* a failure before the open leaves the slave unopened
BeginSession ==
  /\ cpc = "session"
  /\ \/ /\ cpc' = "setup"
        /\ slave' = "open"
        /\ UNCHANGED ppend
     \/ ChildExitWith("unopened")
     \/ ChildExitWith("closed")
  /\ UNCHANGED <<ppc, pmask, pdisp, csig, cloned, exited, pdeath, term, conf, hist>>

\* bind_target_chdir() .. blacklist_apply(): mounts, pivot, capabilities,
\* hostname and seccomp, each fatal on failure
ChildSetup ==
  /\ ChildStepOrExit("setup", "exec")
  /\ UNCHANGED <<ppc, pmask, pdisp, csig, cloned, exited, pdeath, term, conf, hist>>

\* execve() of the target
Exec ==
  /\ ChildStepOrExit("exec", "running")
  /\ UNCHANGED <<ppc, pmask, pdisp, csig, cloned, exited, pdeath, term, conf, hist>>

-----------------------------------------------------------------------------
(* Environment: the target program, the user's terminal and whoever sends *)
(* signals to the capsule process.                                         *)

TargetExit ==
  /\ cpc = "running"
  /\ ChildExit
  /\ UNCHANGED <<ppc, pmask, pdisp, csig, cloned, exited, pdeath, term, conf, hist>>

ChildWrites ==
  /\ slave = "open" /\ ~output
  /\ output' = TRUE
  /\ UNCHANGED <<ppc, cpc, psig, csig, cloned, exited, pdeath, slave,
                 ptmOpen, stdin, revents, tty, saved, conf, hist>>

StdinEvent ==
  /\ stdin = "idle"
  /\ stdin' \in {"data", "eof"}
  /\ UNCHANGED <<ppc, cpc, psig, csig, cloned, exited, pdeath, slave,
                 ptmOpen, output, revents, tty, saved, conf, hist>>

ExtSignal(s) ==
  /\ ParentAlive /\ nExt < MaxExt
  /\ nExt' = nExt + 1
  /\ IF s = "KILL"
       THEN ParentExit("dead") /\ UNCHANGED ppend
       ELSE ppend' = ppend \cup {s} /\ UNCHANGED <<ppc, cpend>>
  /\ UNCHANGED <<cpc, pmask, pdisp, cmask, cdisp, cloned, exited, pdeath,
                 slave, term, conf, lost, killedAll,
                 ioFailure>>

-----------------------------------------------------------------------------

Init ==
  /\ ppc = "prepare"
  /\ cpc = "none"
  /\ pmask = {} /\ pdisp = [s \in Sigs |-> "dfl"] /\ ppend = {}
  /\ cmask = {} /\ cdisp = [s \in Sigs |-> "dfl"] /\ cpend = {}
  /\ cloned = FALSE
  /\ exited = FALSE
  /\ pdeath = FALSE
  /\ slave = "unopened"
  /\ ptmOpen = FALSE
  /\ output = FALSE
  /\ stdin = "idle"
  /\ revents = [fd \in Fds |-> FALSE]
  /\ tty = "cooked"
  /\ saved = [fd \in Fds |-> "none"]
  /\ noPty \in BOOLEAN
  /\ ttyFds \in SUBSET Fds
  /\ lost = {}
  /\ killedAll = FALSE
  /\ ioFailure = FALSE
  /\ nExt = 0

ParentStep ==
  \/ Prepare \/ Pre \/ Clone \/ Post \/ CloseRest \/ WritePidfile
  \/ Check \/ Pause
  \/ RawtioGet(0, "rawget0", "rawget1") \/ RawtioGet(1, "rawget1", "poll_check")
  \/ PollCheck \/ Poll \/ Copy0 \/ Copy1
  \/ RawtioPut(1, "rawput1", "rawput2") \/ RawtioPut(2, "rawput2", "kill")
  \/ Kill \/ Wait \/ Return

ChildStep == Prctl \/ ChildSetupSignals \/ BeginSession \/ ChildSetup \/ Exec

Environment ==
  \/ TargetExit \/ ChildWrites \/ StdinEvent
  \/ \E s \in ExtSigs : ExtSignal(s)

Next ==
  \/ ParentStep
  \/ ChildStep
  \/ \E s \in Sigs : DeliverParent(s)
  \/ \E s \in Sigs \cup {"KILL"} : DeliverChild(s)
  \/ Environment

\* The parent and the child are scheduled by the kernel, and the kernel
\* delivers a deliverable signal on the next return to user space.  The
\* target program, the terminal and signal senders owe nothing.
Fairness ==
  /\ WF_vars(ParentStep)
  /\ WF_vars(ChildStep)
  /\ \A s \in Sigs : WF_vars(DeliverParent(s))
  /\ \A s \in Sigs \cup {"KILL"} : WF_vars(DeliverChild(s))

Spec == Init /\ [][Next]_vars /\ Fairness

-----------------------------------------------------------------------------
(* Properties.                                                             *)

TypeOK ==
  /\ ppc \in {"prepare", "pre", "clone", "post", "close_rest", "pidfile",
              "check", "pausing", "paused", "rawget0", "rawget1",
              "poll_check", "polling", "in_poll", "copy0", "copy1",
              "rawput1", "rawput2", "kill", "wait", "return", "done", "dead"}
  /\ cpc \in {"none", "prctl", "sigsetup", "session", "setup", "exec",
              "running", "zombie", "reaped"}
  /\ pmask \subseteq Sigs /\ pdisp \in [Sigs -> Disp] /\ ppend \subseteq Sigs
  /\ cmask \subseteq Sigs /\ cdisp \in [Sigs -> Disp]
  /\ cpend \subseteq Sigs \cup {"KILL"}
  /\ {cloned, exited, pdeath, ptmOpen, output} \subseteq BOOLEAN
  /\ slave \in {"unopened", "open", "closed"}
  /\ stdin \in {"idle", "data", "eof"}
  /\ revents \in [Fds -> BOOLEAN]
  /\ tty \in Attrs /\ saved \in [Fds -> Attrs \cup {"none"}]
  /\ noPty \in BOOLEAN /\ ttyFds \subseteq Fds
  /\ lost \subseteq FwdSigs
  /\ {killedAll, ioFailure} \subseteq BOOLEAN
  /\ nExt \in 0..MaxExt

\* A SIGCHLD is never lost: once the child is dead and no SIGCHLD waits at
\* the parent, the flag the supervision loops test is set.  This rests on
\* parent_setup_signals_pre() installing parent_sigchld_handler before
\* clone(), so the child's death can never meet the default (discarding)
\* disposition.
ExitFlagNotLost ==
  (ParentAlive /\ cloned /\ ~ChildAlive /\ "CHLD" \notin ppend) => exited

\* SIGTERM and SIGINT reaching the parent while the child lives are never
\* consumed by their default action: they are blocked before clone() and
\* unblocked only after parent_sigfwd_handler is installed.
TermIntForwarded == lost \cap {"TERM", "INT"} = {}

\* parent_sigfwd_handler never runs while child_pid is still -1, where its
\* kill(child_pid, sig) would signal every process of the system.
NoKillAll == ~killedAll

\* When the parent returns from main() the terminal has the attributes it
\* had before pty_manage() made stdin and stdout raw, also when both fds are
\* the same terminal (the restore in reverse order of the saves).
TerminalRestored == ppc \in {"return", "done"} => tty = "cooked"

\* A SIGTERM or SIGINT pending at the live parent of a cloned child is
\* eventually taken off the pending set, i.e. forwarded by the handler.
TermIntDelivered ==
  \A s \in {"TERM", "INT"} :
    (cloned /\ s \in ppend) ~> (s \notin ppend \/ ~ParentAlive)

\* The death of the child eventually ends the launcher (spec 4.1 step 5:
\* the loops run until the exit flag is set, then kill and reap).
ChildExitEndsLaunch == (cloned /\ ~ChildAlive) ~> ~ParentAlive

\* The supervisor sends SIGKILL to a live child only after an I/O failure
\* of the terminal (spec 4.5: end of input on stdin is propagated to the
\* master, the loop ends on the exit flag or an unrecoverable I/O error).
KillOnlyAfterExitOrIoError == (ppc = "kill" /\ ChildAlive) => ioFailure

\* Every shutdown signal (SIGTERM, SIGINT, SIGQUIT) that reaches the parent
\* while the child lives is forwarded verbatim (spec section 5).
ForwardedVerbatim == lost = {}

-----------------------------------------------------------------------------
(* Refinement of ContainerLifetime.  A child with PDEATHSIG armed is       *)
(* "armed" while the parent lives or once the kernel has queued its        *)
(* SIGKILL; armed after the parent's exit, no SIGKILL ever comes.          *)

LifeParent == IF ParentAlive THEN "alive" ELSE "gone"

LifeChild ==
  CASE ~cloned                                 -> "none"
    [] ~ChildAlive                             -> "dead"
    [] ~pdeath                                 -> "unarmed"
    [] ParentAlive \/ "KILL" \in cpend         -> "armed"
    [] OTHER                                   -> "orphan"

Life == INSTANCE ContainerLifetime WITH parent <- LifeParent, child <- LifeChild

\* The launcher keeps the promise of the comment above
\* parent_sigfwd_handler: the child arms PDEATHSIG before anything else,
\* and once it has, the parent's exit (fatal check, SIGKILL, return from
\* main) is followed by the child's death; only a parent gone before the
\* child's prctl() leaves an orphan.
LifetimeRefined == Life!Spec

=============================================================================
