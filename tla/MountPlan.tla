------------------------------ MODULE MountPlan ------------------------------
(***************************************************************************)
(* The mount plan of capsule (src/stage1/rootfs/capsule/mounts.c): --bind, *)
(* --bind-ro and --tmpfs arguments are parsed into an ordered array while  *)
(* the arguments are handled, and mounts_mount_all() applies the array in  *)
(* the child under the target directory.                                   *)
(*                                                                         *)
(* Paths are sequences of characters, so that the string handling of the  *)
(* code (dup_trysplit, mkdir_parents, the "%s%s" concatenation) is         *)
(* translated as written.  The file system is one tree: a function from    *)
(* paths (sequences of components) to node types.  The system calls        *)
(* (lstat, mkdir, creat, mkfifo, mknod, mount) are modelled by the errors  *)
(* Linux gives them on such a tree; symbolic links are not modelled.  A    *)
(* bind mount of a directory shows the source's entries under the target   *)
(* (as a copy: later writes through the mount are not reflected back).     *)
(***************************************************************************)
EXTENDS Naturals, Sequences, FiniteSets

CONSTANTS
  Args,        \* the strings offered as the parameter of --bind/--tmpfs
  TargetDir,   \* the canonicalized --directory, as a string
  InitFs,      \* the tree when the child starts mounting
  MaxMounts    \* bound on the number of mount arguments

Types == {"dir", "file", "fifo", "sock", "chr"}
Kinds == {"bind", "bind_ro", "tmpfs"}
NULL == <<"NULL">>     \* a NULL char pointer, distinct from every string

VARIABLES
  plan,    \* the mounts array, in insertion order
  fs,      \* the file system tree
  mpc,     \* "parse", "apply", "done", or "failed" (the process exited)
  next     \* index of the next entry mounts_mount_all() applies

vars == <<plan, fs, mpc, next>>

-----------------------------------------------------------------------------
(* Strings and paths.                                                      *)

\* the components of the path string s[i..], the component read so far
\* being cur; empty components are dropped
RECURSIVE ComponentsFrom(_, _, _)
ComponentsFrom(s, i, cur) ==
  IF i > Len(s) THEN (IF cur = <<>> THEN <<>> ELSE <<cur>>)
  ELSE IF s[i] # "/" THEN ComponentsFrom(s, i + 1, Append(cur, s[i]))
  ELSE IF cur = <<>> THEN ComponentsFrom(s, i + 1, cur)
  ELSE <<cur>> \o ComponentsFrom(s, i + 1, <<>>)

Components(s) == ComponentsFrom(s, 1, <<>>)

TrailingSlash(s) == Len(s) > 0 /\ s[Len(s)] = "/"

\* path[0] == '/'
IsAbsolute(s) == s # NULL /\ Len(s) > 0 /\ s[1] = "/"

\* the error of resolving every proper ancestor of p, or "ok"
WalkParents(f, p) ==
  LET bad == {k \in 1..(Len(p) - 1) :
                SubSeq(p, 1, k) \notin DOMAIN f \/ f[SubSeq(p, 1, k)] # "dir"}
      k0 == CHOOSE k \in bad : \A j \in bad : k <= j
  IN IF bad = {} THEN "ok"
     ELSE IF SubSeq(p, 1, k0) \notin DOMAIN f THEN "ENOENT" ELSE "ENOTDIR"

\* lstat(2): the node type, or an error
Lstat(f, s) ==
  LET p == Components(s) IN
  IF WalkParents(f, p) # "ok" THEN WalkParents(f, p)
  ELSE IF p \notin DOMAIN f THEN "ENOENT"
  ELSE IF TrailingSlash(s) /\ f[p] # "dir" THEN "ENOTDIR"
  ELSE f[p]

\* creating a node of type t at s: mkdir(2) accepts a trailing slash, the
\* other creating calls do not
MakeNode(f, s, t) ==
  LET p == Components(s) IN
  IF p = <<>> THEN [err |-> "EEXIST", fs |-> f]
  ELSE IF WalkParents(f, p) # "ok" THEN [err |-> WalkParents(f, p), fs |-> f]
  ELSE IF t # "dir" /\ TrailingSlash(s) THEN [err |-> "EISDIR", fs |-> f]
  ELSE IF p \in DOMAIN f
         THEN IF t = "file" /\ f[p] = "file" THEN [err |-> "ok", fs |-> f]
              ELSE [err |-> "EEXIST", fs |-> f]
  ELSE [err |-> "ok", fs |-> [q \in DOMAIN f \cup {p} |->
                                IF q = p THEN t ELSE f[q]]]

\* mount(2) of a bind source (a path) or of a tmpfs (src = NULL) at s: the
\* target must exist; a bind needs source and target both directories or
\* both not; a tmpfs needs a directory.  The entries below the target are
\* hidden and, for a bind, replaced by those below the source.
MountAt(f, src, s) ==
  LET p == Components(s)
      q == IF src = NULL THEN <<>> ELSE Components(src)
      below(r) == {x \in DOMAIN f : Len(x) > Len(r) /\ SubSeq(x, 1, Len(r)) = r}
      kept == (DOMAIN f) \ below(p)
      shown == IF src = NULL THEN {} ELSE {p \o SubSeq(x, Len(q) + 1, Len(x)) : x \in below(q)}
      typeOf(x) == IF x \in kept THEN f[x]
                   ELSE f[q \o SubSeq(x, Len(p) + 1, Len(x))]
  IN
  IF Lstat(f, s) \notin Types THEN [err |-> Lstat(f, s), fs |-> f]
  ELSE IF src = NULL /\ f[p] # "dir" THEN [err |-> "ENOTDIR", fs |-> f]
  ELSE IF src # NULL /\ (f[q] = "dir") # (f[p] = "dir")
    THEN [err |-> "ENOTDIR", fs |-> f]
  ELSE [err |-> "ok", fs |-> [x \in kept \cup shown |-> typeOf(x)]]

-----------------------------------------------------------------------------
(* Parsing (mounts_add_bind, mounts_add_tmpfs).                            *)

\* dup_trysplit(): split at the first fs, b is NULL when there is none
DupTrySplit(s, sep) ==
  LET at == {i \in 1..Len(s) : s[i] = sep}
      k == IF at = {} THEN 0 ELSE CHOOSE i \in at : \A j \in at : i <= j
  IN
  IF k = 0 THEN [a |-> s, b |-> NULL]
  ELSE [a |-> SubSeq(s, 1, k - 1), b |-> SubSeq(s, k + 1, Len(s))]

\* (mutant) the container path is not defaulted to the host path
AddBindNoDefault(str, ro) ==
  LET sp == DupTrySplit(str, ":") IN
  /\ mpc = "parse" /\ Len(plan) < MaxMounts
  /\ plan' = Append(plan, [kind |-> IF ro THEN "bind_ro" ELSE "bind",
                           host |-> sp.a, cont |-> sp.b])
  /\ mpc' = IF IsAbsolute(sp.a) /\ IsAbsolute(sp.b) THEN "parse" ELSE "failed"
  /\ UNCHANGED <<fs, next>>

\* str_to_bind(): new_mount() appends before the paths are checked
AddBind(str, ro) ==
  LET sp == DupTrySplit(str, ":")
      cont == IF sp.b = NULL THEN sp.a ELSE sp.b
  IN
  /\ mpc = "parse" /\ Len(plan) < MaxMounts
  /\ plan' = Append(plan, [kind |-> IF ro THEN "bind_ro" ELSE "bind",
                           host |-> sp.a, cont |-> cont])
  /\ mpc' = IF IsAbsolute(sp.a) /\ IsAbsolute(cont) THEN "parse" ELSE "failed"
  /\ UNCHANGED <<fs, next>>

\* str_to_tmpfs(): the part after ':' is the options string
AddTmpfs(str) ==
  LET sp == DupTrySplit(str, ":") IN
  /\ mpc = "parse" /\ Len(plan) < MaxMounts
  /\ plan' = Append(plan, [kind |-> "tmpfs", host |-> NULL, cont |-> sp.a])
  /\ mpc' = IF IsAbsolute(sp.a) THEN "parse" ELSE "failed"
  /\ UNCHANGED <<fs, next>>

\* the arguments are exhausted; the child later calls mounts_mount_all()
EndParse ==
  /\ mpc = "parse"
  /\ mpc' = "apply"
  /\ UNCHANGED <<plan, fs, next>>

-----------------------------------------------------------------------------
(* Applying (mkdir_parents, mount_mount, mounts_mount_all).                *)

\* dup[i] of the NUL-terminated copy, 0-based
CharAt(s, i) == IF i < Len(s) THEN s[i + 1] ELSE "NUL"

\* while(--len > 0 && dup[len] == '/');  starting from strlen(path) + 1
RECURSIVE StripLoop(_, _)
StripLoop(s, len) ==
  IF len - 1 > 0 /\ CharAt(s, len - 1) = "/" THEN StripLoop(s, len - 1)
  ELSE len - 1

\* the mkdir() calls of mkdir_parents() from dup[k] on, on the result acc
\* of the ones before; EEXIST is ignored, any other error ends the loop
RECURSIVE MkdirFrom(_, _, _)
MkdirFrom(dup, k, acc) ==
  IF k > Len(dup) \/ acc.err # "ok" THEN acc
  ELSE IF dup[k] # "/" THEN MkdirFrom(dup, k + 1, acc)
  ELSE LET r == MakeNode(acc.fs, SubSeq(dup, 1, k - 1), "dir") IN
       MkdirFrom(dup, k + 1,
                 IF r.err \in {"ok", "EEXIST"} THEN [err |-> "ok", fs |-> r.fs] ELSE r)

\* mkdir_parents(): mkdir of every prefix that ends before a '/' found
\* after the first character of the (stripped) copy
MkdirParents(f, s) ==
  MkdirFrom(SubSeq(s, 1, StripLoop(s, Len(s) + 1)), 2, [err |-> "ok", fs |-> f])

\* (mutant) the type check of an existing target left out
TypesAgreeUnchecked(m, srcType, tgtType) == TRUE

\* the check of an existing target: bind source and target of one type
TypesAgree(m, srcType, tgtType) == m.kind = "tmpfs" \/ srcType = tgtType

\* mount_mount(): stat the source, stat the target, create the target if it
\* is missing, mount; every failing pexit_if() ends the process
MountMount(f, m) ==
  LET bind == m.kind # "tmpfs"
      src == IF bind THEN Lstat(f, m.host) ELSE "dir"
      tgt == TargetDir \o m.cont
      st == Lstat(f, tgt)
      fail == [err |-> "fatal", fs |-> f]
      mnt(g) == LET r == MountAt(g, IF bind THEN m.host ELSE NULL, tgt) IN
                IF r.err = "ok" THEN r ELSE [err |-> "fatal", fs |-> g]
      leaf(g) == IF bind /\ src # "dir"
                   THEN IF src \in {"file", "fifo", "sock"}
                          THEN MakeNode(g, tgt, src)
                          ELSE [err |-> "unsupported", fs |-> g]
                   ELSE MakeNode(g, tgt, "dir")
      created == LET mp == MkdirParents(f, tgt) IN
                 IF mp.err # "ok" THEN mp ELSE leaf(mp.fs)
  IN
  IF src \notin Types THEN fail
  ELSE IF st \in Types
    THEN IF TypesAgree(m, src, st) THEN mnt(f) ELSE fail
  ELSE IF st = "ENOENT"
    THEN IF created.err = "ok" THEN mnt(created.fs)
         ELSE [err |-> "fatal", fs |-> created.fs]
  ELSE fail

\* one iteration of mounts_mount_all()
MountOne ==
  /\ mpc = "apply" /\ next <= Len(plan)
  /\ LET r == MountMount(fs, plan[next]) IN
       /\ fs' = r.fs
       /\ mpc' = IF r.err = "ok" THEN "apply" ELSE "failed"
  /\ next' = next + 1
  /\ UNCHANGED plan

MountAllDone ==
  /\ mpc = "apply" /\ next > Len(plan)
  /\ mpc' = "done"
  /\ UNCHANGED <<plan, fs, next>>

Init ==
  /\ plan = <<>>
  /\ fs = InitFs
  /\ mpc = "parse"
  /\ next = 1

Next ==
  \/ \E s \in Args, ro \in BOOLEAN : AddBind(s, ro)
  \/ \E s \in Args : AddTmpfs(s)
  \/ EndParse
  \/ MountOne
  \/ MountAllDone

Spec == Init /\ [][Next]_vars

-----------------------------------------------------------------------------
(* Properties.                                                             *)

TypeOK ==
  /\ plan \in Seq([kind : Kinds, host : Seq({"/", "a", "b", ":"}) \cup {NULL},
                   cont : Seq({"/", "a", "b", ":"})])
  /\ DOMAIN fs \subseteq Seq(Seq({"a", "b", "r"})) /\ \A p \in DOMAIN fs : fs[p] \in Types
  /\ mpc \in {"parse", "apply", "done", "failed"}
  /\ next \in 1..(MaxMounts + 1)

\* The reasons section 4.2 of the spec gives for ApplyAll to fail on entry
\* m, in terms of the path's components: the bind source is inaccessible;
\* an ancestor of the target is not a directory; the target exists with
\* another type than a bind source (or is not a directory for a tmpfs);
\* the target is missing and the source is of a type that is not created;
\* a non-directory target is named with a trailing '/'.
Sanctioned(f, m) ==
  LET bind == m.kind # "tmpfs"
      p == Components(TargetDir \o m.cont)
      src == IF bind THEN Lstat(f, m.host) ELSE "dir"
  IN \/ src \notin Types
     \/ WalkParents(f, p) = "ENOTDIR"
     \/ p \in DOMAIN f /\ f[p] # src
     \/ p \notin DOMAIN f /\ src \notin {"dir", "file", "fifo", "sock"}
     \/ src # "dir" /\ TrailingSlash(m.cont)

\* Every entry the spec says must be rejected makes ApplyAll fail: a
\* bind whose target exists with another node type is refused even where
\* mount(2) would graft it (a file over a fifo).
RejectsWhatSpecRejects ==
  [][mpc = "apply" /\ next <= Len(plan) /\ Sanctioned(fs, plan[next])
       => mpc' = "failed"]_vars

\* ApplyAll fails on an entry only for a reason the spec gives.
NoSpuriousFailure ==
  [][mpc = "apply" /\ mpc' = "failed" => Sanctioned(fs, plan[next])]_vars

=============================================================================
