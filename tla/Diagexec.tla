------------------------------- MODULE Diagexec -------------------------------
(***************************************************************************)
(* diagexec (src/stage1/rootfs/diagexec/diagexec.c): the last step before  *)
(* an app runs.  It loads the app's environment from a file of            *)
(* "key=value\0" entries, bind-mounts the host's device nodes into the     *)
(* app's root, chroots, chdirs and execvp()s the app; when execvp() fails  *)
(* with ENOENT or EACCES it walks the interpreter chain of the executable  *)
(* (shebang lines and ELF PT_INTERP) to say which link is broken.          *)
(*                                                                         *)
(* Every check is an exit_if() that increments the global exit_err; a     *)
(* failing one exits with it.  The app may be restarted (the comment of    *)
(* setup_dev names "systemctl restart app"): a new process, with a fresh   *)
(* exit_err and diag_depth, over the same root and its mounts.             *)
(*                                                                         *)
(* Strings are abstracted to what the code tells apart: an environment     *)
(* file is a sequence of the bytes "a", "b", "=" and NUL; a path is a name *)
(* of Files or a name not in it; an interpreter string taken from a        *)
(* shebang line is a record saying whether the line has a leading blank or *)
(* an argument after the path.                                             *)
(***************************************************************************)
EXTENDS Integers, Sequences, FiniteSets, TLC

CONSTANTS
  Files,       \* the files diag() may open: name -> file record
  Relative,    \* the names of Files that do not start with '/'
  Exes,        \* the names the app may be started as
  EnvInputs,   \* environment files: [kind |-> "list", list] or [kind |-> "raw", bytes]
  DevOrder,    \* devnodes[] of setup_dev(), in order
  HostDevs,    \* the sets of device nodes the host may provide
  MaxRuns      \* bound on the number of times the app is started

MAX_DIAG_DEPTH == 10
NUL == "N"
NoStr == [lead |-> FALSE, path |-> "NULL", arg |-> FALSE]   \* itrp == NULL
DevNodes == {DevOrder[i] : i \in DOMAIN DevOrder}

VARIABLES
  pc,          \* the step of main() about to run, or how the process ended
  envIn, exe, hostDev,   \* the inputs
  environ,     \* the process environment set by load_env(): key -> value
  exitErr,     \* exit_err
  status,      \* exit status once the process exited, -1 before
  site,        \* the check the process exited at
  cur,         \* the string diag() is called with
  parent,      \* the file whose interpreter cur is, "none" for the exe
  depth,       \* the static diag_depth
  dev,         \* per device node, its target under the root: "absent", "file", "dir"
  mounts,      \* per device node, bind mounts stacked on its target
  runs         \* processes started so far

inputs == <<envIn, exe, hostDev>>
vars == <<pc, inputs, environ, exitErr, status, site, cur, parent, depth, dev, mounts, runs>>

Str(n) == [lead |-> FALSE, path |-> n, arg |-> FALSE]

\* n more checks reached; exit_err is kept modulo 256, as only its low
\* byte reaches the exit status
Count(n) == exitErr' = (exitErr + n) % 256

\* the k-th check reached from here fails: exit(exit_err)
Fatal(k, where) ==
  /\ Count(k)
  /\ status' = (exitErr + k) % 256
  /\ site' = where
  /\ pc' = "exited"

-----------------------------------------------------------------------------
(* load_env().                                                             *)

\* the encoding of a list of [key, val] entries as the file format of the
\* comment of load_env: key=value\0key=value\0...
RECURSIVE Encode(_)
Encode(l) == IF l = <<>> THEN <<>>
             ELSE Head(l).key \o <<"=">> \o Head(l).val \o <<NUL>> \o Encode(Tail(l))

Bytes(e) == IF e.kind = "list" THEN Encode(e.list) ELSE e.bytes

\* the first index from i on holding c, 0 when there is none
RECURSIVE IndexFrom(_, _, _)
IndexFrom(s, c, i) == IF i > Len(s) THEN 0 ELSE IF s[i] = c THEN i ELSE IndexFrom(s, c, i + 1)

Set(env, k, v) == [x \in DOMAIN env \cup {k} |-> IF x = k THEN v ELSE env[x]]

\* (mutant) the value is taken from the '=' on: v is not advanced
EnvEntryNoAdvance(k, eq) == SubSeq(k, eq, Len(k))

\* v = strchr(k, '='); *v = '\0'; v++
EnvEntry(k, eq) == SubSeq(k, eq + 1, Len(k))

\* the loop for(i = 0; i < st.st_size;) of load_env() over the map m:
\* k = &map[i]; i += strlen(k) + 1 visits the offsets that follow a NUL;
\* it stops at the first k without '=' (malformed) or with an empty name
\* (setenv() fails with EINVAL); each setenv() before it overrides the
\* value of an earlier one of the same name
EnvLoop(m) ==
  LET starts == {s \in 1..Len(m) : s = 1 \/ m[s - 1] = NUL}
      k(s) == SubSeq(m, s, IndexFrom(m, NUL, s) - 1)
      eq(s) == IndexFrom(k(s), "=", 1)
      bad == {s \in starts : eq(s) \in {0, 1}}
      stop == IF bad = {} THEN Len(m) + 1 ELSE CHOOSE s \in bad : \A x \in bad : s <= x
      set == {s \in starts : s < stop}
      name(s) == SubSeq(k(s), 1, eq(s) - 1)
      last(n) == CHOOSE s \in set : name(s) = n /\ \A x \in set : name(x) = n => x <= s
  IN [checks |-> 2 * Cardinality(set)
                   + (IF bad = {} THEN 0 ELSE IF eq(stop) = 0 THEN 1 ELSE 2),
      err |-> IF bad = {} THEN "ok" ELSE IF eq(stop) = 0 THEN "malformed" ELSE "setenv",
      env |-> [n \in {name(s) : s \in set} |-> EnvEntry(k(last(n)), eq(last(n)))]]

\* what load_env() makes of a file after clearenv(): nothing more for an
\* empty file, else the last byte is overwritten with NUL and the entries
\* are set one by one (computed once per file)
EnvResult == [e \in EnvInputs |->
                IF Bytes(e) = <<>> THEN [checks |-> 0, err |-> "ok", env |-> <<>>]
                ELSE EnvLoop([Bytes(e) EXCEPT ![Len(Bytes(e))] = NUL])]

\* load_env(): map_file() (five checks; the file exists and is regular),
\* clearenv(), and the entries
LoadEnv ==
  LET r == EnvResult[envIn] IN
  /\ pc = "load_env"
  /\ environ' = r.env
  /\ IF r.err = "ok"
       THEN Count(6 + r.checks) /\ pc' = "setup_dev"
            /\ UNCHANGED <<status, site>>
       ELSE Fatal(6 + r.checks, r.err)
  /\ UNCHANGED <<inputs, cur, parent, depth, dev, mounts, runs>>

-----------------------------------------------------------------------------
(* setup_dev(), chroot, chdir, execvp.                                     *)

\* setup_dev(): mkdir of /dev and /dev/net (errors ignored); for each host
\* device node in order, open(to, O_WRONLY|O_CREAT) (a directory there
\* fails and is skipped, anything else is opened, a missing file created)
\* and a bind mount over it, which may fail
SetupDev ==
  LET cand == SelectSeq(DevOrder, LAMBDA d : d \in hostDev /\ dev[d] # "dir")
      upTo(n) == {cand[i] : i \in 1..n}
      done(n) == /\ dev' = [d \in DOMAIN dev |-> IF d \in upTo(n) THEN "file" ELSE dev[d]]
  IN
  /\ pc = "setup_dev"
  /\ \/ /\ done(Len(cand))
        /\ mounts' = [d \in DOMAIN mounts |-> IF d \in upTo(Len(cand)) THEN mounts[d] + 1 ELSE mounts[d]]
        /\ Count(Len(cand)) /\ pc' = "chroot"
        /\ UNCHANGED <<status, site>>
     \/ \E n \in 1..Len(cand) :
          /\ done(n)
          /\ mounts' = [d \in DOMAIN mounts |-> IF d \in upTo(n - 1) THEN mounts[d] + 1 ELSE mounts[d]]
          /\ Fatal(n, "mount")
  /\ UNCHANGED <<inputs, environ, cur, parent, depth, runs>>

\* chroot(root) and chdir(cwd): each may fail
Chroot ==
  /\ pc \in {"chroot", "chdir"}
  /\ \/ /\ Count(1) /\ pc' = IF pc = "chroot" THEN "chdir" ELSE "execvp"
        /\ UNCHANGED <<status, site>>
     \/ Fatal(1, pc)
  /\ UNCHANGED <<inputs, environ, cur, parent, depth, dev, mounts, runs>>

\* execvp(exe): it can only succeed on a regular executable file; ENOENT
\* and EACCES lead to diag(exe), any other error exits
Execvp ==
  /\ pc = "execvp"
  /\ \/ /\ exe \in DOMAIN Files /\ Files[exe].type = "reg" /\ Files[exe].exec
        /\ pc' = "execed" /\ UNCHANGED <<exitErr, status, site>>
     \/ /\ Count(1) /\ pc' = "diag"
        /\ UNCHANGED <<status, site>>
     \/ Fatal(1, "execvp")
  /\ UNCHANGED <<inputs, environ, cur, parent, depth, dev, mounts, runs>>

-----------------------------------------------------------------------------
(* diag().                                                                 *)

\* open() of an interpreter string: a line with a leading blank or an
\* argument names no file of Files
Lookup(s) == IF s.lead \/ s.arg \/ s.path \notin DOMAIN Files THEN [type |-> "missing"]
             ELSE Files[s.path]

\* the program header loop: the string of the first PT_INTERP entry
FirstInterp(ph) ==
  LET at == {i \in 1..Len(ph) : ph[i] # "load"} IN
  IF at = {} THEN NoStr ELSE Str(ph[CHOOSE i \in at : \A j \in at : i <= j])

\* the interpreter string diag() takes from a file, and the checks it
\* reaches doing so; fail names the check that exits, "" for none
Interp(f) ==
  CASE f.fmt = "shebang" /\ ~f.nl -> [n |-> 7, fail |-> "shebang"]
    [] f.fmt = "shebang"          -> [n |-> 8, fail |-> "", itrp |-> f.line]
    [] f.fmt = "elf" /\ f.version # 1 -> [n |-> 7, fail |-> "version"]
    [] f.fmt = "elf" /\ (f.bits \notin {32, 64} \/ f.endian \notin {"litl", "big"})
                                  -> [n |-> 8, fail |-> "format"]
    [] f.fmt = "elf"              -> [n |-> 8, fail |-> "", itrp |-> FirstInterp(f.phdrs)]
    [] OTHER                      -> [n |-> 7, fail |-> "type"]

\* (mutant) diag_depth is not incremented
NextDepthNoIncr(d) == d

\* ++diag_depth
NextDepth(d) == d + 1

\* one call of diag(): map_file() (open, fstat, regular, mmap, close), the
\* executable check, the interpreter, then NULL, absolute and depth checks
\* before diag(itrp)
DiagStep ==
  LET f == Lookup(cur)
      i == Interp(f)
  IN
  /\ pc = "diag"
  /\ CASE f.type = "missing" -> Fatal(1, "open") /\ UNCHANGED <<cur, parent, depth>>
       [] f.type # "reg"  -> Fatal(3, "regular") /\ UNCHANGED <<cur, parent, depth>>
       [] ~f.exec         -> Fatal(6, "exec") /\ UNCHANGED <<cur, parent, depth>>
       [] i.fail # ""     -> Fatal(i.n, i.fail) /\ UNCHANGED <<cur, parent, depth>>
       [] i.itrp = NoStr  -> Fatal(i.n + 1, "nointerp") /\ UNCHANGED <<cur, parent, depth>>
       [] i.itrp.lead \/ i.itrp.path \in Relative ->
                             Fatal(i.n + 2, "relative") /\ UNCHANGED <<cur, parent, depth>>
       [] NextDepth(depth) > MAX_DIAG_DEPTH ->
                             Fatal(i.n + 3, "depth") /\ depth' = NextDepth(depth)
                             /\ UNCHANGED <<cur, parent>>
       [] OTHER -> /\ Count(i.n + 3) /\ depth' = NextDepth(depth)
                   /\ cur' = i.itrp /\ parent' = cur.path
                   /\ UNCHANGED <<pc, status, site>>
  /\ UNCHANGED <<inputs, environ, dev, mounts, runs>>

\* the app is started again: a new process over the same root
Restart ==
  /\ pc \in {"execed", "exited"} /\ runs < MaxRuns
  /\ pc' = "load_env" /\ runs' = runs + 1
  /\ environ' = <<>> /\ exitErr' = 0 /\ status' = -1 /\ site' = "none"
  /\ cur' = Str(exe) /\ parent' = "none" /\ depth' = 0
  /\ UNCHANGED <<inputs, dev, mounts>>

Init ==
  /\ envIn \in EnvInputs /\ exe \in Exes /\ hostDev \in HostDevs
  /\ dev \in [DevNodes -> {"absent", "file", "dir"}]
  /\ mounts = [d \in DevNodes |-> 0]
  /\ pc = "load_env" /\ runs = 1
  /\ environ = <<>> /\ exitErr = 0 /\ status = -1 /\ site = "none"
  /\ cur = Str(exe) /\ parent = "none" /\ depth = 0

Step == LoadEnv \/ SetupDev \/ Chroot \/ Execvp \/ DiagStep

Next == Step \/ Restart

Spec == Init /\ [][Next]_vars /\ WF_vars(Step)

-----------------------------------------------------------------------------
(* Properties.                                                             *)

TypeOK ==
  /\ pc \in {"load_env", "setup_dev", "chroot", "chdir", "execvp", "diag", "execed", "exited"}
  /\ exitErr \in 0..255 /\ status \in -1..255 /\ depth \in 0..(MAX_DIAG_DEPTH + 1)
  /\ dev \in [DevNodes -> {"absent", "file", "dir"}] /\ mounts \in [DevNodes -> Nat]
  /\ runs \in 1..MaxRuns

\* the environment the entries of a well-formed file denote: each key set,
\* a later entry of a key overriding an earlier one
RECURSIVE RefEnvFrom(_, _)
RefEnvFrom(l, env) ==
  IF l = <<>> THEN env ELSE RefEnvFrom(Tail(l), Set(env, Head(l).key, Head(l).val))

\* A file in the format the comment of load_env() documents
\* (key=value\0key=value\0...) is loaded without error and gives exactly
\* the environment its entries denote, values holding '=' included.
LoadEnvMatchesFormat ==
  (envIn.kind = "list" /\ pc # "load_env")
    => site \notin {"malformed", "setenv"} /\ environ = RefEnvFrom(envIn.list, <<>>)

\* diag() always ends: a cycle of interpreters (a script naming itself)
\* is cut by the static diag_depth.
DiagTerminates == pc = "diag" ~> pc = "exited"

\* setup_dev() skips the bind mount of a device node whose target already
\* exists under the root (the comment at the open() call): a target from
\* the image, from stage0's volumes or from an earlier start is never
\* mounted over.
NoMountOverExisting ==
  [][\A d \in DevNodes : mounts'[d] > mounts[d] => dev[d] = "absent"]_vars

=============================================================================
