------------------------------ MODULE PidHandoff ------------------------------
(***************************************************************************)
(* The hand-off of the container leader's pid from pid-file-writer        *)
(* (src/stage1/rootfs/pid-file-writer/pid-file-writer.c) to enter          *)
(* (src/stage1/rootfs/enter/enter.c), which may be started at any time     *)
(* and joins the namespaces of the process the pid file names.             *)
(*                                                                         *)
(* pid-file-writer reads the socket once into an uninitialized stack       *)
(* buffer, truncates the pid file, looks for X_NSPAWN_LEADER_PID= and      *)
(* writes atoi() of what follows.  The message is a sequence of tokens:    *)
(* "R" stands for READY, "X" for X_NSPAWN_LEADER_PID (the needle is X      *)
(* followed by "="), "nl" for a newline and "0".."9" for digits.  A read   *)
(* of a stream socket may return any nonempty prefix of the message, one   *)
(* of a datagram socket returns all of it; the byte after the bytes read  *)
(* is uninitialized and is one of Garbage (the code does not terminate     *)
(* the buffer).                                                            *)
(***************************************************************************)
EXTENDS Integers, Sequences

CONSTANTS
  Msg,         \* the message the socket carries
  SockKinds,   \* "dgram" and/or "stream"
  Garbage,     \* what the byte after the read bytes may hold: "NUL" or a token
  Leader,      \* the leader's pid, the number Msg carries
  Procs        \* the pids of the processes that live at the start; pid 1 is init

NAMESPACES == <<"ipc", "uts", "net", "pid", "mnt">>
ABSENT == -1   \* the pid file does not exist
EMPTY == -2    \* the pid file exists and is empty
NONE == 0      \* no namespace joined (pid 0 names no process)

VARIABLES
  sock,        \* the socket kind
  wpc,         \* pid-file-writer's step, "done" or "exited"
  buf,         \* the buffer after read(): the bytes read, then the garbage byte
  file,        \* the pid file: ABSENT, EMPTY or the number written
  epc,         \* enter's step, "execed" or "exited"
  epid,        \* the pid enter read
  ens,         \* the index in NAMESPACES of the next namespace enter joins
  joined,      \* namespace -> the pid whose namespace enter joined, NONE before
  alive        \* the pids that have a /proc entry

vars == <<sock, wpc, buf, file, epc, epid, ens, joined, alive>>

DigitSeq == <<"0", "1", "2", "3", "4", "5", "6", "7", "8", "9">>

\* the value of a digit token
Digits == [d \in {DigitSeq[i] : i \in 1..10} |-> CHOOSE m \in 0..9 : DigitSeq[m + 1] = d]

-----------------------------------------------------------------------------
(* pid-file-writer.                                                        *)

\* the bytes strstr() and atoi() see: the buffer up to its first NUL
CString(s) ==
  LET nul == {i \in 1..Len(s) : s[i] = "NUL"} IN
  IF nul = {} THEN s ELSE SubSeq(s, 1, (CHOOSE i \in nul : \A j \in nul : i <= j) - 1)

Find(s) ==
  LET at == {i \in 1..(Len(s) - 1) : s[i] = "X" /\ s[i + 1] = "="} IN
  IF at = {} THEN 0 ELSE (CHOOSE i \in at : \A j \in at : i <= j) + 2

\* atoi(): the decimal number of the digits from index i on
RECURSIVE Atoi(_, _, _)
Atoi(s, i, acc) ==
  IF i <= Len(s) /\ s[i] \in DOMAIN Digits THEN Atoi(s, i + 1, 10 * acc + Digits[s[i]])
  ELSE acc

\* prctl(PR_SET_PDEATHSIG) and read(sockfd, buffer, sizeof(buffer)); a
\* failing prctl or a read returning <= 0 exits
WriterRead ==
  /\ wpc = "read"
  /\ \/ \E k \in (IF sock = "dgram" THEN {Len(Msg)} ELSE 1..Len(Msg)), g \in Garbage :
          /\ buf' = SubSeq(Msg, 1, k) \o <<g>>
          /\ wpc' = "fopen"
     \/ wpc' = "exited" /\ UNCHANGED buf
  /\ UNCHANGED <<sock, file, epc, epid, ens, joined, alive>>

\* fopen(pidfile, "we") truncates or creates the file, or fails
WriterFopen ==
  /\ wpc = "fopen"
  /\ \/ file' = EMPTY /\ wpc' = "write"
     \/ wpc' = "exited" /\ UNCHANGED file
  /\ UNCHANGED <<sock, buf, epc, epid, ens, joined, alive>>

\* strstr(), then atoi() of what follows the needle, fprintf(), fflush()
\* and fclose(): the number reaches the file at fflush()
WriterWrite ==
  LET s == CString(buf) IN
  /\ wpc = "write"
  /\ IF Find(s) = 0
       THEN wpc' = "exited" /\ UNCHANGED file
       ELSE wpc' = "done" /\ file' = Atoi(s, Find(s), 0)
  /\ UNCHANGED <<sock, buf, epc, epid, ens, joined, alive>>

-----------------------------------------------------------------------------
(* enter.                                                                  *)

\* fopen("pid", "r") and fscanf(fp, "%i", &pid): a missing or empty file
\* exits
EnterRead ==
  /\ epc = "read"
  /\ IF file \in {ABSENT, EMPTY}
       THEN epc' = "exited" /\ UNCHANGED epid
       ELSE epc' = "root" /\ epid' = file
  /\ UNCHANGED <<sock, wpc, buf, file, ens, joined, alive>>

\* openpidfd(): open("/proc/<pid>/...") fails, and enter exits, when no
\* process has the pid
OpenPidFd(next) ==
  IF epid \in alive THEN epc' = next ELSE epc' = "exited"

\* root_fd = openpidfd("root"); work_fd = openpidfd("cwd")
EnterOpenRoot ==
  /\ epc \in {"root", "cwd"}
  /\ OpenPidFd(IF epc = "root" THEN "cwd" ELSE "ns")
  /\ UNCHANGED <<sock, wpc, buf, file, epid, ens, joined, alive>>

\* one expansion of ns(): fd = openpidfd(ns/<name>); setns(fd, type)
EnterSetns ==
  /\ epc = "ns"
  /\ IF epid \in alive
       THEN /\ joined' = [joined EXCEPT ![NAMESPACES[ens]] = epid]
            /\ ens' = ens + 1
            /\ epc' = IF ens = Len(NAMESPACES) THEN "exec" ELSE "ns"
       ELSE epc' = "exited" /\ UNCHANGED <<ens, joined>>
  /\ UNCHANGED <<sock, wpc, buf, file, epid, alive>>

\* fchdir(root_fd), chroot("."), fchdir(work_fd) and execv(): the
\* descriptors stay valid after the process exits
EnterExec ==
  /\ epc = "exec"
  /\ epc' = "execed"
  /\ UNCHANGED <<sock, wpc, buf, file, epid, ens, joined, alive>>

\* a process other than init exits and its /proc entry goes away
ProcExit ==
  /\ \E p \in alive \ {1} : alive' = alive \ {p}
  /\ UNCHANGED <<sock, wpc, buf, file, epc, epid, ens, joined>>

Init ==
  /\ sock \in SockKinds
  /\ wpc = "read" /\ buf = <<>> /\ file = ABSENT
  /\ epc = "read" /\ epid = NONE /\ ens = 1
  /\ joined = [n \in {NAMESPACES[i] : i \in 1..5} |-> NONE]
  /\ alive = Procs

Next ==
  \/ WriterRead \/ WriterFopen \/ WriterWrite
  \/ EnterRead \/ EnterOpenRoot \/ EnterSetns \/ EnterExec
  \/ ProcExit

Spec == Init /\ [][Next]_vars

-----------------------------------------------------------------------------
(* Properties.                                                             *)

TypeOK ==
  /\ sock \in {"dgram", "stream"}
  /\ wpc \in {"read", "fopen", "write", "done", "exited"}
  /\ buf \in Seq(DOMAIN Digits \cup {"R", "X", "=", "nl", "NUL", "g"})
  /\ file \in {ABSENT, EMPTY} \cup Nat
  /\ epc \in {"read", "root", "cwd", "ns", "exec", "execed", "exited"}
  /\ epid \in Nat
  /\ ens \in 1..(Len(NAMESPACES) + 1)
  /\ alive \subseteq Procs
  /\ joined \in [{NAMESPACES[i] : i \in 1..5} -> Nat]

EnterJoinsLeader == \A n \in DOMAIN joined : joined[n] \in {NONE, Leader}

=============================================================================
