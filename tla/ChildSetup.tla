------------------------------ MODULE ChildSetup ------------------------------
(***************************************************************************)
(* The container side of capsule (src/stage1/rootfs/capsule): how the      *)
(* capability and namespace masks are built from the command line        *)
(* (args.c: capsule_args, --caps, --drop-caps, --namespaces, str_to_bits,  *)
(* str_to_cap and str_to_ns), and the                                      *)
(* child's path through clone_child() after its session is set up         *)
(* (capsule.c): bind_target_chdir, prep_base_in_cwd, the console bind,     *)
(* mounts_mount_all, pivot_target_dir, capabilities_drop, sethostname,     *)
(* blacklist_apply (blacklist.c), child_env and execve.                    *)
(*                                                                         *)
(* Every step is fail-fast: a failing call exits the child, which nothing  *)
(* observes (main() ignores the status waitpid() returns), so the exit     *)
(* status is not kept.  Mounts are steps without data (MountPlan.tla has   *)
(* their detail); what is kept is the process's capability set, whether a *)
(* seccomp filter is loaded, and the environment array handed to execve(). *)
(* Two kernel rules decide what the steps after the drop may do: without   *)
(* CAP_SYS_ADMIN, sethostname() fails with EPERM, and seccomp_load() with  *)
(* NO_NEW_PRIVS off fails with EACCES.                                     *)
(***************************************************************************)
EXTENDS Integers, Sequences, FiniteSets, Functions

CONSTANTS
  CapNames,     \* the capabilities of capabilities.def
  DefaultKept,  \* its cap_keep entries
  SysAdmin,     \* CAP_SYS_ADMIN
  NsNames,      \* the namespaces of namespaces.def
  DefaultNs,    \* its ns_default entries
  Fold,         \* strcasecmp(): each word to the name it equals, or "none"
  Argvs         \* the --caps, --drop-caps, --namespaces options, in order

ASSUME DefaultKept \subseteq CapNames /\ SysAdmin \in CapNames /\ DefaultNs \subseteq NsNames

\* the slots of the static env[] of child_env(), the last one always NULL
Slots == 0..9
FixedEnv == <<"PATH", "HOME", "USER", "LOGNAME", "container">>

VARIABLES
  pc,        \* the step about to run, "running" after execve(), or "exited"
  argv,      \* the mask options of the command line
  tty,       \* "pty", or with --no-pty "tty" if isatty(0) else "notty"
  term,      \* TERM is set
  uuid,      \* --uuid was given
  nListen,   \* n_listen_fds
  kernel,    \* "seccomp", or "noseccomp" without CONFIG_SECCOMP
  ai,        \* the next option args_handle() looks at
  kept,      \* caps_kept
  dropped,   \* caps_dropped
  namespaces, \* the clone() flags
  nsSet,     \* the static "set" of handle_namespaces()
  caps,      \* the capabilities the child holds
  filter,    \* "loaded" once seccomp_load() succeeded, else "none"
  env        \* env[] of child_env()

inputs == <<argv, tty, term, uuid, nListen, kernel>>
vars == <<pc, inputs, ai, kept, dropped, namespaces, nsSet, caps, filter, env>>

-----------------------------------------------------------------------------
(* str_to_bits(): the parameter is cut at every ',' and each field mapped  *)
(* by str_to_cap() or str_to_ns(), which exit on a name they do not know. *)
(* A parameter is a sequence of words; "," is the separator.               *)

RECURSIVE Fields(_)
Fields(s) ==
  IF \E i \in 1..Len(s) : s[i] = ","
  THEN LET i == CHOOSE i \in 1..Len(s) : s[i] = "," /\ \A j \in 1..(i - 1) : s[j] # ","
       IN <<SubSeq(s, 1, i - 1)>> \o Fields(SubSeq(s, i + 1, Len(s)))
  ELSE <<s>>

\* str_to_cap(), str_to_ns(): one field is one name of the table, in any case
StrToBit(f, names) == IF Len(f) = 1 /\ Fold[f[1]] \in names THEN Fold[f[1]] ELSE "none"

\* the names of a parameter, with "none" among them if the mapping exits
StrToBits(p, names) == {StrToBit(Fields(p)[k], names) : k \in DOMAIN Fields(p)}

-----------------------------------------------------------------------------

\* a call of the step fails: pexit_if()/exit_if() ends the child
Fail ==
  /\ pc' = "exited"
  /\ UNCHANGED <<inputs, ai, kept, dropped, namespaces, nsSet, caps, filter, env>>

Goto(next) ==
  /\ pc' = next
  /\ UNCHANGED <<inputs, ai, kept, dropped, namespaces, nsSet, caps, filter, env>>

\* (mutant) handle_drop_caps() assigns instead of or-ing
HandleCapsOptAssign ==
  LET o == argv[ai]
      bits == StrToBits(o.param, CapNames)
  IN
  /\ pc = "args" /\ ai <= Len(argv) /\ o.opt \in {"caps", "drop"}
  /\ \/ /\ "none" \notin bits
        /\ IF o.opt = "caps" THEN kept' = kept \cup bits /\ UNCHANGED dropped
                             ELSE dropped' = bits /\ UNCHANGED kept
        /\ ai' = ai + 1
        /\ UNCHANGED <<pc, inputs, namespaces, nsSet, caps, filter, env>>
     \/ Fail

\* handle_caps() and handle_drop_caps(): caps_kept or caps_dropped |= the
\* bits of the parameter; strdup() may fail, an unknown name exits
HandleCapsOpt ==
  LET o == argv[ai]
      bits == StrToBits(o.param, CapNames)
  IN
  /\ pc = "args" /\ ai <= Len(argv) /\ o.opt \in {"caps", "drop"}
  /\ \/ /\ "none" \notin bits
        /\ IF o.opt = "caps" THEN kept' = kept \cup bits /\ UNCHANGED dropped
                             ELSE dropped' = dropped \cup bits /\ UNCHANGED kept
        /\ ai' = ai + 1
        /\ UNCHANGED <<pc, inputs, namespaces, nsSet, caps, filter, env>>
     \/ Fail

\* handle_namespaces(): handle_once() exits on a second --namespaces, then
\* the flags are replaced by the bits of the parameter
HandleNamespaces ==
  LET bits == StrToBits(argv[ai].param, NsNames) IN
  /\ pc = "args" /\ ai <= Len(argv) /\ argv[ai].opt = "ns"
  /\ \/ /\ ~nsSet /\ "none" \notin bits
        /\ namespaces' = bits /\ nsSet' = TRUE
        /\ ai' = ai + 1
        /\ UNCHANGED <<pc, inputs, kept, dropped, caps, filter, env>>
     \/ Fail

\* the command line is through; clone() and the child's session set-up
\* (Launch.tla, Capsule.tla) come before bind_target_chdir()
ArgsDone ==
  /\ pc = "args" /\ ai > Len(argv)
  /\ Goto("bind")

\* bind_target_chdir(): slave-mount "/", bind the target onto itself, chdir
BindTargetChdir ==
  /\ pc = "bind"
  /\ Goto("prep") \/ Fail

\* prep_base_in_cwd(): the fixed steps of prepsteps.def, each fatal
PrepBaseInCwd ==
  /\ pc = "prep"
  /\ Goto("console") \/ Fail

\* with --no-pty and a terminal on stdin, ttyname(0) names the console;
\* a pts name, from the parent's pty or from ttyname(), is bound onto
\* dev/console; with --no-pty and no terminal nothing is bound
BindConsole ==
  /\ pc = "console"
  /\ \/ Goto("mounts")
     \/ tty \in {"pty", "tty"} /\ Fail

\* mounts_mount_all(): the mount plan, any entry of which may fail
MountAll ==
  /\ pc = "mounts"
  /\ Goto("pivot") \/ Fail

\* (mutant) capabilities_drop() left out after the pivot
PivotSkipDrop ==
  /\ pc = "pivot"
  /\ Goto("hostname") \/ Fail

\* pivot_target_dir(): MS_MOVE onto "/", chroot("."), chdir("/")
PivotTargetDir ==
  /\ pc = "pivot"
  /\ Goto("caps") \/ Fail

\* capabilities_drop(~(caps_kept & ~caps_dropped)): every capability of
\* the mask leaves the bounding, effective, permitted and inheritable sets
DropMask == CapNames \ (kept \ dropped)

CapabilitiesDrop ==
  /\ pc = "caps"
  /\ \/ /\ caps' = caps \ DropMask
        /\ pc' = "hostname"
        /\ UNCHANGED <<inputs, ai, kept, dropped, namespaces, nsSet, filter, env>>
     \/ Fail

\* sethostname(): EPERM once CAP_SYS_ADMIN is gone, EINVAL for a name
\* longer than the kernel's limit
SetHostname ==
  /\ pc = "hostname"
  /\ \/ SysAdmin \in caps /\ Goto("seccomp")
     \/ Fail

\* what seccomp_load() returns: EINVAL when the kernel lacks seccomp,
\* EACCES without CAP_SYS_ADMIN (the filter attribute turned NO_NEW_PRIVS
\* off), otherwise success or another error
LoadResults ==
  IF kernel = "noseccomp" THEN {"EINVAL"}
  ELSE IF SysAdmin \notin caps THEN {"EACCES"}
  ELSE {"ok", "ENOMEM"}

\* (mutant) every seccomp_load() error is only warned about
BlacklistApplyLenient ==
  /\ pc = "seccomp"
  /\ \/ /\ \E err \in LoadResults :
             filter' = IF err = "ok" THEN "loaded" ELSE "none"
        /\ pc' = "exec"
        /\ UNCHANGED <<inputs, ai, kept, dropped, namespaces, nsSet, caps, env>>
     \/ Fail

\* blacklist_apply(): seccomp_init(ALLOW), the three architectures (the
\* native one answers EEXIST, which is not an error), a rule per blacklist
\* entry, the audit-socket rule and the NNP attribute may each fail; of
\* seccomp_load()'s errors only EINVAL is forgiven, with a warning
BlacklistApply ==
  /\ pc = "seccomp"
  /\ \/ /\ \E err \in LoadResults \cap {"ok", "EINVAL"} :
             filter' = IF err = "ok" THEN "loaded" ELSE "none"
        /\ pc' = "exec"
        /\ UNCHANGED <<inputs, ai, kept, dropped, namespaces, nsSet, caps, env>>
     \/ Fail

\* the entries child_env() appends from env[5] on, in its order
EnvAdds ==
  (IF term THEN <<"TERM">> ELSE <<>>)
    \o (IF uuid THEN <<"container_uuid">> ELSE <<>>)
    \o (IF nListen # 0 THEN <<"LISTEN_FDS", "LISTEN_PID">> ELSE <<>>)

\* (mutant) cnt starts at 4, on the last fixed entry
ChildEnvExecveFrom4 ==
  /\ pc = "exec"
  /\ \/ /\ env' = [i \in Slots |-> IF 4 <= i /\ i < 4 + Len(EnvAdds)
                                    THEN EnvAdds[i - 3] ELSE env[i]]
        /\ pc' = "running"
        /\ UNCHANGED <<inputs, ai, kept, dropped, namespaces, nsSet, caps, filter>>
     \/ Fail

\* child_env() (cnt starts at 5; an asprintf() may fail) and execve(),
\* which fails or replaces the child by the target command
ChildEnvExecve ==
  /\ pc = "exec"
  /\ \/ /\ env' = [i \in Slots |-> IF 5 <= i /\ i < 5 + Len(EnvAdds)
                                    THEN EnvAdds[i - 4] ELSE env[i]]
        /\ pc' = "running"
        /\ UNCHANGED <<inputs, ai, kept, dropped, namespaces, nsSet, caps, filter>>
     \/ Fail

Init ==
  /\ argv \in Argvs /\ tty \in {"pty", "tty", "notty"}
  /\ term \in BOOLEAN /\ uuid \in BOOLEAN /\ nListen \in {0, 2}
  /\ kernel \in {"seccomp", "noseccomp"}
  /\ pc = "args" /\ ai = 1
  /\ kept = DefaultKept /\ dropped = {}   \* capsule_args
  /\ namespaces = DefaultNs /\ nsSet = FALSE
  /\ caps = CapNames                      \* the launcher runs as root
  /\ filter = "none"
  /\ env = [i \in Slots |-> IF i < 5 THEN FixedEnv[i + 1] ELSE "NULL"]

Next ==
  \/ HandleCapsOpt \/ HandleNamespaces \/ ArgsDone \/ BindTargetChdir \/ PrepBaseInCwd
  \/ BindConsole \/ MountAll \/ PivotTargetDir \/ CapabilitiesDrop
  \/ SetHostname \/ BlacklistApply \/ ChildEnvExecve

\* clone_child() is straight-line code: every call returns, with success
\* or an error that exits, and nothing waits on another process.
Spec == Init /\ [][Next]_vars /\ WF_vars(Next)

-----------------------------------------------------------------------------
(* Properties.                                                             *)

\* The masks are what spec sections 3 and 4.3 say: the capabilities kept
\* are the default set widened by every --caps list and narrowed by every
\* --drop-caps list, whatever the order, case and repetition of the names;
\* the namespaces are the default set, or the one --namespaces list.  A
\* command line naming an unknown capability or namespace, or repeating
\* --namespaces, never gets past args_handle() (a configuration error,
\* before anything privileged).
ArgNames(o) == StrToBits(o.param, IF o.opt = "ns" THEN NsNames ELSE CapNames)
OptsOf(kind) == {k \in DOMAIN argv : argv[k].opt = kind}
SpecKept ==
  (DefaultKept \cup UNION {ArgNames(argv[k]) : k \in OptsOf("caps")})
    \ UNION {ArgNames(argv[k]) : k \in OptsOf("drop")}
SpecNs == IF OptsOf("ns") = {} THEN DefaultNs ELSE UNION {ArgNames(argv[k]) : k \in OptsOf("ns")}
ConfigValid ==
  /\ \A k \in DOMAIN argv : "none" \notin ArgNames(argv[k])
  /\ Cardinality(OptsOf("ns")) <= 1

MasksAsSpecified ==
  /\ pc \notin {"args", "exited"} => ConfigValid /\ namespaces = SpecNs
  /\ pc \in {"hostname", "seccomp", "exec", "running"} => caps = SpecKept

\* The target command runs under a loaded seccomp filter unless the kernel
\* lacks seccomp: blacklist_apply() forgives EINVAL from seccomp_load()
\* and nothing else.
ExecFiltered == pc = "running" => (filter = "loaded" <=> kernel = "seccomp")

\* execve() gets the fixed entries, then TERM if it is set, container_uuid
\* with --uuid, LISTEN_FDS and LISTEN_PID with inherited descriptors,
\* each once, and a NULL before the end of env[].
ChildEnvAsSpecified ==
  pc = "running" =>
    LET n == CHOOSE i \in Slots : env[i] = "NULL" /\ \A j \in 0..(i - 1) : env[j] # "NULL"
    IN  /\ env[9] = "NULL"
        /\ {env[i] : i \in 0..(n - 1)} = Range(FixedEnv) \cup Range(EnvAdds)
        /\ n = Len(FixedEnv) + Len(EnvAdds)

\* clone_child() implements SetupOrder: a step of the set-up is a step of
\* the abstract order or a stutter, the capabilities it keeps are those
\* of the command line, the filter is loaded unless the kernel lacks
\* seccomp, and the child always ends running the command or exited.
Phase ==
  CASE pc = "args" -> "config"
    [] pc \in {"bind", "prep", "console", "mounts"} -> "privileged"
    [] pc = "pivot" -> "mounted"
    [] pc = "caps" -> "pivoted"
    [] pc \in {"hostname", "seccomp"} -> "dropped"
    [] pc = "exec" -> "filtered"
    [] pc \in {"running", "exited"} -> pc

Order == INSTANCE SetupOrder WITH
  Caps <- CapNames, phase <- Phase, keep <- SpecKept \cap CapNames,
  supported <- (kernel = "seccomp"), held <- caps

SetupOrderRefined == Order!Spec

====
